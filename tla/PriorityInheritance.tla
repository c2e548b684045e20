------------------------ MODULE PriorityInheritance ------------------------
(***************************************************************************)
(* The scheduler built with configUSE_MUTEXES = 1: beside the priority a   *)
(* task is scheduled by there is the one last assigned to it,              *)
(* uxBasePriority.  A task that is about to wait for a mutex calls         *)
(* vTaskPriorityInherit for the holder; one that gives a mutex back calls  *)
(* vTaskPriorityDisinherit for itself.  Mutexes are queues of queue.c,     *)
(* which is external: Take, Wait, Give follow the comments of task.h and   *)
(* tasks.c.                                                                *)
(*                                                                         *)
(* Tasks has the inside of a blocking call; here, with the scheduler       *)
(* suspended all the while, it is one step.  So are the ticks: a blocked   *)
(* task is on no list and a tick may wake it at any time.                  *)
(***************************************************************************)
EXTENDS XList, FiniteSets

CONSTANTS
  Tasks,
  Idle,                 \* never blocks, never takes a mutex
  Mutexes,
  configMAX_PRIORITIES,
  CreatedWith,          \* uxPriority argument of xTaskCreate for each task
  NewPriorities         \* uxNewPriority arguments of vTaskPrioritySet

VARIABLES
  lists,
  uxPriority, uxBasePriority,
  uxTopReadyPriority,
  pxCurrentTCB,
  yieldPending,         \* port: a yield was asked for and not yet taken
  holder,               \* pxMutexHolder of each mutex, or Null
  wants,                \* the mutex a task is in the middle of taking, or Null
  settled               \* ghost: waiters since whose wait no priority was set
                        \* and the mutex kept its holder

AllTasks == Tasks \cup {Idle}
Priorities == 0 .. configMAX_PRIORITIES - 1

ASSUME InheritanceAssumption ==
  /\ IsFiniteSet(Tasks) /\ Idle \notin Tasks /\ Null \notin AllTasks
  /\ configMAX_PRIORITIES \in Nat \ {0}
  /\ configMAX_PRIORITIES <= portMAX_DELAY
  /\ CreatedWith \in [Tasks -> Priorities] /\ NewPriorities \subseteq Priorities

Generic(t) == <<"generic", t>>
Event(t)   == <<"event", t>>
Items      == {"generic", "event"} \X AllTasks
Owner(x)   == x[2]

Ready(p)     == <<"ready", p>>
EventList(m) == <<"event", m>>
ReadyLists   == {Ready(p) : p \in Priorities}
Lists        == ReadyLists \cup {EventList(m) : m \in Mutexes}

ASSUME NullAssumption == Null \notin Lists

portVars  == <<pxCurrentTCB, yieldPending>>
mutexVars == <<holder, wants, settled>>
vars == <<lists, uxPriority, uxBasePriority, uxTopReadyPriority, portVars,
          mutexVars>>

EventItemValue(p) == configMAX_PRIORITIES - p

IsReady(t) == lists.container[Generic(t)] \in ReadyLists
Waits(t, m) == lists.container[Event(t)] = EventList(m)
Holds(t) == \E m \in Mutexes : holder[m] = t

-----------------------------------------------------------------------------
(* What a call does to the lists, the priorities and uxTopReadyPriority *)

Kernel == [lists |-> lists, priority |-> uxPriority, top |-> uxTopReadyPriority]

\* (The quantifier makes TLC evaluate the call once.)
Becomes(call) == \E k \in {call} :
  /\ lists' = k.lists /\ uxPriority' = k.priority
  /\ uxTopReadyPriority' = k.top

\* Take t off the list its generic item is on, and off an event list.
Unready(k, t) == [k EXCEPT !.lists = vListRemove(@, Generic(t))]
NoEvent(k, t) ==
  IF k.lists.container[Event(t)] = Null THEN k
  ELSE [k EXCEPT !.lists = vListRemove(@, Event(t))]

\* prvAddTaskToReadyQueue
AddToReady(k, t) ==
  LET p == k.priority[t]
  IN  [k EXCEPT !.lists = vListInsertEnd(@, Ready(p), Generic(t)),
                !.top = IF p > @ THEN p ELSE @]

\* Set the priority in use, and the event item value for priority v.
Use(k, t, p, v) ==
  [k EXCEPT !.priority[t] = p,
            !.lists = listSET_LIST_ITEM_VALUE(@, Event(t), EventItemValue(v))]

\* Mutant: the holder stays on the ready list of its own priority.
InheritInPlace(k, t) ==
  LET p == k.priority[pxCurrentTCB]
  IN  IF k.priority[t] < p THEN Use(k, t, p, p) ELSE k

\* Mutant: no inheritance.
InheritNothing(k, t) == k

vTaskPriorityInherit(k, t) ==
  LET p == k.priority[pxCurrentTCB]
  IN  IF k.priority[t] >= p THEN k
      ELSE IF k.lists.container[Generic(t)] = Ready(k.priority[t])
      THEN AddToReady(Use(Unready(k, t), t, p, p), t)
      ELSE Use(k, t, p, p)

vTaskPriorityDisinherit(k, t) ==
  LET base == uxBasePriority[t]
  IN  IF k.priority[t] = base THEN k
      ELSE AddToReady(Use(Unready(k, t), t, base, base), t)

\* vTaskPlaceOnEventList
PlaceOnEventList(k, t, m) ==
  Unready([k EXCEPT !.lists = vListInsert(@, EventList(m), Event(t))], t)

\* xTaskRemoveFromEventList for the first waiter.
RemoveFromEventList(k, t) == AddToReady(NoEvent(k, t), t)

-----------------------------------------------------------------------------
\* The running task calls f; interrupts come between any two steps.
Runs(t) == t = pxCurrentTCB /\ ~ yieldPending

\* xTaskGenericCreate, before the scheduler is started with the idle task.
Create(t, p) ==
  /\ ~ yieldPending /\ ~ IsReady(Idle) /\ ~ IsReady(t)
  /\ Becomes(AddToReady(Use(Kernel, t, p, p), t))
  /\ uxBasePriority' = [uxBasePriority EXCEPT ![t] = p]
  /\ pxCurrentTCB' = IF pxCurrentTCB = Null THEN t
                     ELSE IF uxPriority[pxCurrentTCB] <= p THEN t
                     ELSE pxCurrentTCB
  /\ UNCHANGED <<yieldPending, mutexVars>>

CreateBeforeStart ==
  \/ \E t \in Tasks : Create(t, CreatedWith[t])
  \/ (\A t \in Tasks : IsReady(t)) /\ Create(Idle, 0)

Started == IsReady(Idle)

\* The mutex is free, at the first attempt or at a later one.
Take(t, m) ==
  /\ Started /\ Runs(t) /\ wants[t] \in {Null, m} /\ holder[m] = Null
  /\ holder' = [holder EXCEPT ![m] = t]
  /\ wants' = [wants EXCEPT ![t] = Null]
  /\ settled' = {w \in settled : ~ Waits(w, m)}
  /\ UNCHANGED <<lists, uxPriority, uxBasePriority, uxTopReadyPriority,
                 portVars>>

\* It is held by another task: wait, and yield.
Wait(t, m) ==
  /\ Started /\ Runs(t) /\ wants[t] \in {Null, m}
  /\ holder[m] \notin {Null, t}
  /\ Becomes(PlaceOnEventList(vTaskPriorityInherit(Kernel, holder[m]), t, m))
  /\ wants' = [wants EXCEPT ![t] = m]
  /\ settled' = settled \cup {t}
  /\ yieldPending' = TRUE
  /\ UNCHANGED <<uxBasePriority, pxCurrentTCB, holder>>

\* The mutex is still not free, its time is over and the task goes without.
GiveUp(t) ==
  /\ Started /\ Runs(t) /\ wants[t] # Null /\ holder[wants[t]] # Null
  /\ wants' = [wants EXCEPT ![t] = Null]
  /\ UNCHANGED <<lists, uxPriority, uxBasePriority, uxTopReadyPriority,
                 portVars, holder, settled>>

\* The holder gives a mutex back and the first waiter is woken.
Give(t, m) ==
  LET k == vTaskPriorityDisinherit(Kernel, t)
      w == Owner(HeadItem(k.lists, EventList(m)))
  IN  /\ Started /\ Runs(t) /\ wants[t] = Null /\ holder[m] = t
      /\ holder' = [holder EXCEPT ![m] = Null]
      /\ IF listLIST_IS_EMPTY(k.lists, EventList(m))
         THEN Becomes(k) /\ UNCHANGED <<yieldPending, settled>>
         ELSE /\ Becomes(RemoveFromEventList(k, w))
              /\ yieldPending' = (k.priority[w] >= k.priority[t])
              /\ settled' = settled \ {w}
      /\ UNCHANGED <<uxBasePriority, pxCurrentTCB, wants>>

\* The base priority decides whether there is anything to do and is set
\* whatever; the priority in use is left alone while it is an inherited one.
vTaskPrioritySet(t, x, new) ==
  LET base == uxBasePriority[x]
      used == IF uxPriority[x] = base THEN new ELSE uxPriority[x]
      k    == Use(Kernel, x, used, new)
  IN  /\ Started /\ Runs(t) /\ wants[t] = Null /\ new # base
      /\ Becomes(IF lists.container[Generic(x)] = Ready(base)
                 THEN AddToReady(Unready(k, x), x) ELSE k)
      /\ uxBasePriority' = [uxBasePriority EXCEPT ![x] = new]
      /\ yieldPending' = (IF new > base THEN x # t ELSE x = t)
      /\ settled' = {}
      /\ UNCHANGED <<pxCurrentTCB, holder, wants>>

\* vTaskDelay
Sleep(t) ==
  /\ Started /\ Runs(t) /\ wants[t] = Null
  /\ Becomes(Unready(Kernel, t))
  /\ yieldPending' = TRUE
  /\ UNCHANGED <<uxBasePriority, pxCurrentTCB, mutexVars>>

\* vTaskIncrementTick wakes a task whose delay or timeout is over, or none.
Tick(woken) ==
  /\ Started
  /\ Becomes(IF woken = Null THEN Kernel
             ELSE AddToReady(NoEvent(Kernel, woken), woken))
  /\ yieldPending' = TRUE
  /\ settled' = settled \ {woken}
  /\ UNCHANGED <<uxBasePriority, pxCurrentTCB, holder, wants>>

\* Nothing but the end of its delay wakes a task that sleeps.
WakeSleeper(t) == ~ IsReady(t) /\ wants[t] = Null /\ Tick(t)

TickISR == Tick(Null) \/ \E t \in Tasks : ~ IsReady(t) /\ Tick(t)

vTaskSwitchContext ==
  LET top  == CHOOSE p \in Priorities :
                /\ p <= uxTopReadyPriority
                /\ ~ listLIST_IS_EMPTY(lists, Ready(p))
                /\ \A q \in p + 1 .. uxTopReadyPriority :
                     listLIST_IS_EMPTY(lists, Ready(q))
      next == AdvanceIndex(lists, Ready(top))
  IN  /\ yieldPending
      /\ yieldPending' = FALSE
      /\ lists' = next /\ uxTopReadyPriority' = top
      /\ pxCurrentTCB' = Owner(ItemAtIndex(next, Ready(top)))
      /\ UNCHANGED <<uxPriority, uxBasePriority, mutexVars>>

-----------------------------------------------------------------------------
Init ==
  /\ lists = vListInitialise(Lists, Items)
  /\ uxPriority = [t \in AllTasks |-> 0]
  /\ uxBasePriority = [t \in AllTasks |-> 0]
  /\ uxTopReadyPriority = 0
  /\ pxCurrentTCB = Null /\ yieldPending = FALSE
  /\ holder = [m \in Mutexes |-> Null]
  /\ wants = [t \in AllTasks |-> Null]
  /\ settled = {}

\* The task goes on with taking a mutex, after it was woken.
GoOn(t) ==
  \/ \E m \in Mutexes : wants[t] = m /\ (Take(t, m) \/ Wait(t, m))
  \/ GiveUp(t)

Next ==
  \/ CreateBeforeStart
  \/ \E t \in Tasks :
       \/ \E m \in Mutexes : Take(t, m) \/ Wait(t, m) \/ Give(t, m)
       \/ GiveUp(t) \/ Sleep(t)
       \/ \E x \in Tasks, p \in NewPriorities : vTaskPrioritySet(t, x, p)
  \/ TickISR
  \/ vTaskSwitchContext

Spec == Init /\ [][Next]_vars

\* The port switches when it is asked to, the tick timer keeps firing and
\* wakes a task whose delay is over, and a task that gets to run again and
\* again goes on taking a mutex or gives back the one it holds.
Fairness ==
  /\ WF_vars(vTaskSwitchContext)
  /\ WF_vars(Tick(Null))
  /\ \A t \in Tasks :
       /\ WF_vars(WakeSleeper(t))
       /\ SF_vars(GoOn(t) \/ \E m \in Mutexes : Give(t, m))

FairSpec == Spec /\ Fairness

-----------------------------------------------------------------------------
\* Priorities are lent and returned: a task is off its own priority only
\* while it holds a mutex; the holder is not below any task that waits for
\* it, unless a priority was set since; and a ready task is on the list of
\* the priority it uses (comments of vTaskPriorityInherit and
\* vTaskPriorityDisinherit in task.h).
InheritanceSound ==
  /\ \A t \in Tasks : uxPriority[t] # uxBasePriority[t] => Holds(t)
  /\ \A t \in settled, m \in Mutexes :
       Waits(t, m) /\ holder[m] # Null
         => uxPriority[holder[m]] >= uxPriority[t]
  /\ \A t \in AllTasks :
       IsReady(t) => lists.container[Generic(t)] = Ready(uxPriority[t])

\* No unbounded priority inversion: the one task above all others that waits
\* for a mutex gets it, or its time is over, even if tasks of middle priority
\* never stop running.
WaiterServed ==
  \A t \in Tasks :
    <>[](\A x \in Tasks \ {t} : uxBasePriority[x] < uxBasePriority[t])
      => (t \in settled ~> t \notin settled)
=============================================================================
