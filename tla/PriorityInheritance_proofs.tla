--------------------- MODULE PriorityInheritance_proofs ---------------------
(***************************************************************************)
(* Proofs about PriorityInheritance, for any number of tasks, priorities   *)
(* and (but for the last part) mutexes.                                    *)
(*                                                                         *)
(* A call works on a record of the lists, the priorities and               *)
(* uxTopReadyPriority.  KernelOK says what every such record satisfies,    *)
(* also in the middle of a call: each task is on no ready list or on that  *)
(* of its priority, and not ready while it waits.  Each helper of the      *)
(* model relocates one task (Placed), the calls are compositions of them,  *)
(* and the rest of the invariant is about who holds and who waits.         *)
(***************************************************************************)
EXTENDS PriorityInheritance, XList_proofs

EventLists == {EventList(m) : m \in Mutexes}

\* The two items of a task belong to it, and to nobody else.
LEMMA ItemFacts ==
  /\ \A t \in AllTasks : /\ Generic(t) \in Items /\ Event(t) \in Items
                         /\ Owner(Generic(t)) = t /\ Owner(Event(t)) = t
                         /\ \A s \in AllTasks : /\ Generic(t) # Event(s)
                                                /\ Generic(t) = Generic(s) => t = s
                                                /\ Event(t) = Event(s) => t = s
  /\ \A x \in Items : /\ Owner(x) \in AllTasks
                      /\ x = Generic(Owner(x)) \/ x = Event(Owner(x))
BY DEF Generic, Event, Items, Owner

\* The lists are pairwise different.
LEMMA ListFacts ==
  /\ \A p \in Priorities : Ready(p) \in Lists /\ Ready(p) \in ReadyLists
  /\ \A p, q : Ready(p) = Ready(q) => p = q
  /\ \A m \in Mutexes : EventList(m) \in Lists /\ EventList(m) \in EventLists
  /\ \A m, n : EventList(m) = EventList(n) => m = n
  /\ ReadyLists \cap EventLists = {} /\ Lists = ReadyLists \cup EventLists
  /\ Null \notin Lists
BY NullAssumption DEF Lists, ReadyLists, EventLists, Ready, EventList

\* Priorities, and the event item values made of them, are in range.
LEMMA PriorityFacts ==
  /\ 0 \in Priorities /\ Priorities \subseteq Nat
  /\ \A p \in Priorities : EventItemValue(p) \in TickType
  /\ CreatedWith \in [Tasks -> Priorities] /\ NewPriorities \subseteq Priorities
  /\ Tasks \subseteq AllTasks /\ Idle \in AllTasks \ Tasks /\ Null \notin AllTasks
BY InheritanceAssumption, MaxDelayAssumption
   DEF Priorities, EventItemValue, TickType, AllTasks

-----------------------------------------------------------------------------
(* The record a call works on                                              *)

Gen(k, t) == k.lists.container[Generic(t)]
Evt(k, t) == k.lists.container[Event(t)]

KernelType(k) ==
  /\ k = [lists |-> k.lists, priority |-> k.priority, top |-> k.top]
  /\ ListsOK(k.lists, Lists, Items)
  /\ k.priority \in [AllTasks -> Priorities] /\ k.top \in Priorities

\* A task is on the ready list of its priority, on an event list, or nowhere.
TaskOK(k, t) ==
  /\ Gen(k, t) \in {Null, Ready(k.priority[t])}
  /\ Evt(k, t) \in EventLists \cup {Null}
  /\ Evt(k, t) # Null => Gen(k, t) = Null
  /\ Gen(k, t) # Null => k.priority[t] <= k.top

KernelOK(k) == KernelType(k) /\ \A t \in AllTasks : TaskOK(k, t)

\* l is k with task t on the lists G and E and of priority p.
Placed(k, l, t, G, E, p) ==
  /\ KernelType(l)
  /\ Gen(l, t) = G /\ Evt(l, t) = E /\ l.priority[t] = p
  /\ \A u \in AllTasks \ {t} :
       /\ Gen(l, u) = Gen(k, u) /\ Evt(l, u) = Evt(k, u)
       /\ l.priority[u] = k.priority[u]

\* Items are on lists or on none.
LEMMA ContainerType ==
  ASSUME NEW k, KernelType(k)
  PROVE  /\ k.lists.container \in [Items -> Lists \cup {Null}]
         /\ \A t \in AllTasks : /\ Gen(k, t) \in Lists \cup {Null}
                                /\ Evt(k, t) \in Lists \cup {Null}
                                /\ k.priority[t] \in Priorities
BY ItemFacts DEF KernelType, ListsOK, XLists, Gen, Evt

\* A list operation on the generic item of t, and one on its event item.
LEMMA GenericMoved ==
  ASSUME NEW k, KernelType(k), NEW t \in AllTasks, NEW L, NEW yl,
         Moved(k.lists, yl, Lists, Items, Generic(t), L)
  PROVE  /\ Placed(k, [k EXCEPT !.lists = yl], t, L, Evt(k, t), k.priority[t])
         /\ [k EXCEPT !.lists = yl].top = k.top
<1> DEFINE l == [k EXCEPT !.lists = yl]
<1>1. l.lists = yl /\ l.priority = k.priority /\ l.top = k.top /\ KernelType(l)
  BY DEF KernelType, Moved
<1>2. yl.container = [k.lists.container EXCEPT ![Generic(t)] = L]
  BY DEF Moved
<1>3. k.lists.container \in [Items -> Lists \cup {Null}]
  BY ContainerType
<1> HIDE DEF l
<1>4. QED
  BY <1>1, <1>2, <1>3, ItemFacts DEF Placed, Gen, Evt, l

\* ... and one on its event item.
LEMMA EventMoved ==
  ASSUME NEW k, KernelType(k), NEW t \in AllTasks, NEW L, NEW yl,
         Moved(k.lists, yl, Lists, Items, Event(t), L)
  PROVE  /\ Placed(k, [k EXCEPT !.lists = yl], t, Gen(k, t), L, k.priority[t])
         /\ [k EXCEPT !.lists = yl].top = k.top
<1> DEFINE l == [k EXCEPT !.lists = yl]
<1>1. l.lists = yl /\ l.priority = k.priority /\ l.top = k.top /\ KernelType(l)
  BY DEF KernelType, Moved
<1>2. yl.container = [k.lists.container EXCEPT ![Event(t)] = L]
  BY DEF Moved
<1>3. k.lists.container \in [Items -> Lists \cup {Null}]
  BY ContainerType
<1> HIDE DEF l
<1>4. QED
  BY <1>1, <1>2, <1>3, ItemFacts DEF Placed, Gen, Evt, l

\* The helpers relocate one task: Unready takes it off its ready list.
LEMMA UnreadyIs ==
  ASSUME NEW k, KernelType(k), NEW t \in AllTasks, Gen(k, t) \in Lists
  PROVE  /\ Placed(k, Unready(k, t), t, Null, Evt(k, t), k.priority[t])
         /\ Unready(k, t).top = k.top
<1>1. Moved(k.lists, vListRemove(k.lists, Generic(t)), Lists, Items, Generic(t), Null)
  BY RemoveKeeps, ItemFacts, ListFacts DEF KernelType, Gen
<1>2. QED
  BY <1>1, GenericMoved DEF Unready

\* NoEvent takes it off its event list, if any.
LEMMA NoEventIs ==
  ASSUME NEW k, KernelType(k), NEW t \in AllTasks
  PROVE  /\ Placed(k, NoEvent(k, t), t, Gen(k, t), Null, k.priority[t])
         /\ NoEvent(k, t).top = k.top
<1>1. CASE Evt(k, t) = Null
  BY <1>1 DEF NoEvent, Placed, Evt
<1>2. CASE Evt(k, t) # Null
  <2>1. Evt(k, t) \in Lists
    BY <1>2, ContainerType
  <2>2. Moved(k.lists, vListRemove(k.lists, Event(t)), Lists, Items, Event(t), Null)
    BY <2>1, RemoveKeeps, ItemFacts, ListFacts DEF KernelType, Evt
  <2>3. NoEvent(k, t) = [k EXCEPT !.lists = vListRemove(k.lists, Event(t))]
    BY <1>2 DEF NoEvent, Evt
  <2>4. QED
    BY <2>2, <2>3, EventMoved
<1>3. QED
  BY <1>1, <1>2

\* prvAddTaskToReadyQueue puts it on the list of its priority.
LEMMA AddToReadyIs ==
  ASSUME NEW k, KernelType(k), NEW t \in AllTasks, Gen(k, t) = Null
  PROVE  /\ Placed(k, AddToReady(k, t), t, Ready(k.priority[t]), Evt(k, t),
                   k.priority[t])
         /\ AddToReady(k, t).top = IF k.priority[t] > k.top THEN k.priority[t]
                                   ELSE k.top
<1> DEFINE p  == k.priority[t]
           yl == vListInsertEnd(k.lists, Ready(p), Generic(t))
           j  == [k EXCEPT !.lists = yl]
           l  == AddToReady(k, t)
<1>1. p \in Priorities
  BY DEF KernelType
<1>2. Moved(k.lists, yl, Lists, Items, Generic(t), Ready(p))
  BY <1>1, InsertEndKeeps, ItemFacts, ListFacts DEF KernelType, Gen
<1>3. Placed(k, j, t, Ready(p), Evt(k, t), p) /\ j.top = k.top
  BY <1>2, GenericMoved
<1>4. /\ l = [k EXCEPT !.lists = yl, !.top = IF p > k.top THEN p ELSE k.top]
  BY DEF AddToReady
<1> HIDE DEF yl, p
<1>5. /\ l.lists = yl /\ j.lists = yl /\ l.priority = k.priority
      /\ j.priority = k.priority /\ l.top = IF p > k.top THEN p ELSE k.top
      /\ l = [lists |-> l.lists, priority |-> l.priority, top |-> l.top]
  BY <1>4 DEF KernelType
<1> HIDE DEF l, j
<1>6. KernelType(l)
  BY <1>1, <1>3, <1>5 DEF KernelType, Placed
<1>7. Placed(k, l, t, Ready(p), Evt(k, t), p)
  BY <1>3, <1>5, <1>6 DEF Placed, Gen, Evt
<1>8. QED
  BY <1>5, <1>7 DEF p, l

\* A change of priority alone moves nothing.
LEMMA UseIs ==
  ASSUME NEW k, KernelType(k), NEW t \in AllTasks,
         NEW p \in Priorities, NEW v \in Priorities
  PROVE  /\ Placed(k, Use(k, t, p, v), t, Gen(k, t), Evt(k, t), p)
         /\ Use(k, t, p, v).top = k.top
<1> DEFINE yl == listSET_LIST_ITEM_VALUE(k.lists, Event(t), EventItemValue(v))
           l  == Use(k, t, p, v)
<1>1. SameLists(k.lists, yl, Lists, Items)
  BY SetValueKeeps, ItemFacts, PriorityFacts DEF KernelType
<1>2. l = [k EXCEPT !.priority[t] = p, !.lists = yl]
  BY DEF Use
<1> HIDE DEF yl
<1>3. /\ l.lists = yl /\ l.priority = [k.priority EXCEPT ![t] = p]
      /\ l.top = k.top
      /\ l = [lists |-> l.lists, priority |-> l.priority, top |-> l.top]
  BY <1>2 DEF KernelType
<1> HIDE DEF l
<1>4. KernelType(l)
  BY <1>1, <1>3 DEF KernelType, SameLists
<1>5. Placed(k, l, t, Gen(k, t), Evt(k, t), p)
  BY <1>1, <1>3, <1>4 DEF Placed, Gen, Evt, SameLists, KernelType
<1>6. QED
  BY <1>3, <1>5 DEF l

\* The first half of vTaskPlaceOnEventList.
LEMMA EventIs ==
  ASSUME NEW k, KernelType(k), NEW t \in AllTasks, NEW m \in Mutexes,
         Evt(k, t) = Null
  PROVE  LET l == [k EXCEPT !.lists = vListInsert(@, EventList(m), Event(t))]
         IN  /\ Placed(k, l, t, Gen(k, t), EventList(m), k.priority[t])
             /\ l.top = k.top
<1>1. Moved(k.lists, vListInsert(k.lists, EventList(m), Event(t)), Lists, Items,
            Event(t), EventList(m))
  BY InsertKeeps, ItemFacts, ListFacts DEF KernelType, Evt
<1>2. QED
  BY <1>1, EventMoved

\* Relocating a task twice.
LEMMA PlacedTwice ==
  ASSUME NEW j, NEW k, NEW l, NEW t, NEW G, NEW E, NEW p, NEW H, NEW F, NEW q,
         Placed(j, k, t, G, E, p), Placed(k, l, t, H, F, q)
  PROVE  Placed(j, l, t, H, F, q)
BY DEF Placed

\* Where a task is put decides whether the record is all right after it.
LEMMA PlacedKeeps ==
  ASSUME NEW k, NEW l, NEW t \in AllTasks, NEW G, NEW E, NEW p,
         KernelOK(k), Placed(k, l, t, G, E, p), l.top >= k.top, TaskOK(l, t)
  PROVE  KernelOK(l)
<1>1. KernelType(l) /\ k.top \in Nat /\ l.top \in Nat
  BY PriorityFacts DEF KernelOK, KernelType, Placed
<1>2. ASSUME NEW u \in AllTasks \ {t} PROVE TaskOK(l, u)
  <2>1. TaskOK(k, u) /\ k.priority[u] \in Nat
    BY PriorityFacts DEF KernelOK, KernelType
  <2>2. QED
    BY <1>1, <2>1 DEF TaskOK, Placed
<1>3. QED
  BY <1>1, <1>2 DEF KernelOK

-----------------------------------------------------------------------------
(* What a call does to the record, from one that is all right to another   *)

\* l is k with priority p for task t; nobody starts or stops being ready, and
\* nobody starts or stops waiting.
Reprioritised(k, l, t, p) ==
  /\ KernelOK(l)
  /\ l.priority[t] = p
  /\ \A u \in AllTasks \ {t} : l.priority[u] = k.priority[u]
  /\ \A u \in AllTasks : /\ Evt(l, u) = Evt(k, u)
                         /\ Gen(l, u) = Null <=> Gen(k, u) = Null

\* A ready task is taken off its list and put on the one of another priority,
\* as in vTaskPriorityInherit and vTaskPriorityDisinherit ...
LEMMA MoveReady ==
  ASSUME NEW k, KernelOK(k), NEW t \in AllTasks, Gen(k, t) # Null,
         NEW p \in Priorities
  PROVE  Reprioritised(k, AddToReady(Use(Unready(k, t), t, p, p), t), t, p)
<1> DEFINE a == Unready(k, t)
           b == Use(a, t, p, p)
           l == AddToReady(b, t)
<1>1. /\ KernelType(k) /\ TaskOK(k, t) /\ Gen(k, t) \in Lists /\ Evt(k, t) = Null
      /\ k.top \in Nat /\ p \in Nat
  BY ContainerType, PriorityFacts DEF KernelOK, TaskOK, KernelType
<1>2. Placed(k, a, t, Null, Null, k.priority[t]) /\ a.top = k.top
  BY <1>1, UnreadyIs
<1> HIDE DEF a
<1>3. Placed(a, b, t, Null, Null, p) /\ b.top = k.top
  BY <1>2, UseIs DEF Placed
<1> HIDE DEF b
<1>4. /\ Placed(b, l, t, Ready(p), Null, p)
      /\ l.top = IF p > k.top THEN p ELSE k.top
  BY <1>3, AddToReadyIs DEF Placed
<1> HIDE DEF l
<1>5. Placed(k, l, t, Ready(p), Null, p)
  BY <1>2, <1>3, <1>4, PlacedTwice
<1>6. l.top >= k.top /\ TaskOK(l, t)
  BY <1>1, <1>4, <1>5 DEF TaskOK, Placed
<1>7. KernelOK(l)
  BY <1>5, <1>6, PlacedKeeps
<1>8. Ready(p) # Null
  BY ListFacts
<1>9. QED
  BY <1>1, <1>5, <1>7, <1>8 DEF Reprioritised, Placed, a, b, l

\* ... or the other way round, as in vTaskPrioritySet.
LEMMA SetThenMove ==
  ASSUME NEW k, KernelOK(k), NEW t \in AllTasks, Gen(k, t) # Null,
         NEW p \in Priorities, NEW v \in Priorities
  PROVE  Reprioritised(k, AddToReady(Unready(Use(k, t, p, v), t), t), t, p)
<1> DEFINE a == Use(k, t, p, v)
           b == Unready(a, t)
           l == AddToReady(b, t)
<1>1. /\ KernelType(k) /\ TaskOK(k, t) /\ Gen(k, t) \in Lists /\ Evt(k, t) = Null
      /\ k.top \in Nat /\ p \in Nat
  BY ContainerType, PriorityFacts DEF KernelOK, TaskOK, KernelType
<1>2. Placed(k, a, t, Gen(k, t), Null, p) /\ a.top = k.top
  BY <1>1, UseIs
<1> HIDE DEF a
<1>3. Placed(a, b, t, Null, Null, p) /\ b.top = k.top
  BY <1>1, <1>2, UnreadyIs DEF Placed
<1> HIDE DEF b
<1>4. /\ Placed(b, l, t, Ready(p), Null, p)
      /\ l.top = IF p > k.top THEN p ELSE k.top
  BY <1>3, AddToReadyIs DEF Placed
<1> HIDE DEF l
<1>5. Placed(k, l, t, Ready(p), Null, p)
  BY <1>2, <1>3, <1>4, PlacedTwice
<1>6. l.top >= k.top /\ TaskOK(l, t)
  BY <1>1, <1>4, <1>5 DEF TaskOK, Placed
<1>7. KernelOK(l)
  BY <1>5, <1>6, PlacedKeeps
<1>8. Ready(p) # Null
  BY ListFacts
<1>9. QED
  BY <1>1, <1>5, <1>7, <1>8 DEF Reprioritised, Placed, a, b, l

\* A task that is not ready, or keeps its priority, stays where it is.
LEMMA UseInPlace ==
  ASSUME NEW k, KernelOK(k), NEW t \in AllTasks,
         NEW p \in Priorities, NEW v \in Priorities,
         Gen(k, t) = Null \/ p = k.priority[t]
  PROVE  Reprioritised(k, Use(k, t, p, v), t, p)
<1> DEFINE l == Use(k, t, p, v)
<1>1. KernelType(k) /\ TaskOK(k, t) /\ k.top \in Nat
  BY PriorityFacts DEF KernelOK, KernelType
<1>2. Placed(k, l, t, Gen(k, t), Evt(k, t), p) /\ l.top = k.top
  BY <1>1, UseIs
<1> HIDE DEF l
<1>3. l.top >= k.top /\ TaskOK(l, t)
  BY <1>1, <1>2 DEF TaskOK, Placed
<1>4. KernelOK(l)
  BY <1>2, <1>3, PlacedKeeps
<1>5. QED
  BY <1>2, <1>4 DEF Reprioritised, Placed, l

\* The holder is raised to the priority of the current task, or left alone.
LEMMA InheritIs ==
  ASSUME NEW k, KernelOK(k), NEW t \in AllTasks, pxCurrentTCB \in AllTasks
  PROVE  Reprioritised(k, vTaskPriorityInherit(k, t), t,
                       IF k.priority[t] >= k.priority[pxCurrentTCB]
                       THEN k.priority[t] ELSE k.priority[pxCurrentTCB])
<1> DEFINE p == k.priority[pxCurrentTCB]
<1>1. p \in Priorities /\ TaskOK(k, t)
  BY DEF KernelOK, KernelType
<1>2. CASE k.priority[t] >= p
  BY <1>2 DEF vTaskPriorityInherit, Reprioritised
<1>3. CASE ~ (k.priority[t] >= p)
  <2>1. Gen(k, t) = Ready(k.priority[t]) <=> Gen(k, t) # Null
    BY <1>1, ListFacts DEF TaskOK, KernelOK, KernelType
  <2>2. CASE Gen(k, t) # Null
    <3>1. vTaskPriorityInherit(k, t) = AddToReady(Use(Unready(k, t), t, p, p), t)
      BY <1>3, <2>1, <2>2 DEF vTaskPriorityInherit, Gen
    <3>2. QED
      BY <1>1, <1>3, <2>2, <3>1, MoveReady
  <2>3. CASE Gen(k, t) = Null
    <3>1. vTaskPriorityInherit(k, t) = Use(k, t, p, p)
      BY <1>3, <2>1, <2>3 DEF vTaskPriorityInherit, Gen
    <3>2. QED
      BY <1>1, <1>3, <2>3, <3>1, UseInPlace
  <2>4. QED
    BY <2>2, <2>3
<1>4. QED
  BY <1>2, <1>3

\* The running task goes back to its own priority.
LEMMA DisinheritIs ==
  ASSUME NEW k, KernelOK(k), NEW t \in AllTasks, Gen(k, t) # Null,
         uxBasePriority[t] \in Priorities
  PROVE  Reprioritised(k, vTaskPriorityDisinherit(k, t), t, uxBasePriority[t])
<1>1. CASE k.priority[t] = uxBasePriority[t]
  BY <1>1 DEF vTaskPriorityDisinherit, Reprioritised
<1>2. CASE k.priority[t] # uxBasePriority[t]
  BY <1>2, MoveReady DEF vTaskPriorityDisinherit
<1>3. QED
  BY <1>1, <1>2

\* l is k with task t on the lists G and E; its priority is what it was.
Relocated(k, l, t, G, E) ==
  /\ KernelOK(l) /\ Gen(l, t) = G /\ Evt(l, t) = E
  /\ \A u \in AllTasks \ {t} : Gen(l, u) = Gen(k, u) /\ Evt(l, u) = Evt(k, u)
  /\ \A u \in AllTasks : l.priority[u] = k.priority[u]

\* A ready task stops being ready,
LEMMA SleepIs ==
  ASSUME NEW k, KernelOK(k), NEW t \in AllTasks, Gen(k, t) # Null
  PROVE  Relocated(k, Unready(k, t), t, Null, Null)
<1> DEFINE l == Unready(k, t)
<1>1. /\ KernelType(k) /\ Gen(k, t) \in Lists /\ Evt(k, t) = Null
      /\ k.top \in Nat
  BY ContainerType, PriorityFacts DEF KernelOK, TaskOK, KernelType
<1>2. Placed(k, l, t, Null, Null, k.priority[t]) /\ l.top = k.top
  BY <1>1, UnreadyIs
<1> HIDE DEF l
<1>3. l.top >= k.top /\ TaskOK(l, t)
  BY <1>1, <1>2 DEF TaskOK, Placed
<1>4. KernelOK(l)
  BY <1>2, <1>3, PlacedKeeps
<1>5. QED
  BY <1>2, <1>4 DEF Relocated, Placed, l

\* ... perhaps to wait for a mutex,
LEMMA WaitIs ==
  ASSUME NEW k, KernelOK(k), NEW t \in AllTasks, Gen(k, t) # Null,
         NEW m \in Mutexes
  PROVE  Relocated(k, PlaceOnEventList(k, t, m), t, Null, EventList(m))
<1> DEFINE a == [k EXCEPT !.lists = vListInsert(@, EventList(m), Event(t))]
           l == PlaceOnEventList(k, t, m)
<1>1. /\ KernelType(k) /\ Gen(k, t) \in Lists /\ Evt(k, t) = Null
      /\ k.top \in Nat
  BY ContainerType, PriorityFacts DEF KernelOK, TaskOK, KernelType
<1>2. Placed(k, a, t, Gen(k, t), EventList(m), k.priority[t]) /\ a.top = k.top
  BY <1>1, EventIs
<1>3. l = Unready(a, t)
  BY DEF PlaceOnEventList
<1> HIDE DEF a
<1>4. Placed(a, l, t, Null, EventList(m), k.priority[t]) /\ l.top = k.top
  BY <1>1, <1>2, <1>3, UnreadyIs DEF Placed
<1> HIDE DEF l
<1>5. Placed(k, l, t, Null, EventList(m), k.priority[t])
  BY <1>2, <1>4, PlacedTwice
<1>6. l.top >= k.top /\ TaskOK(l, t)
  BY <1>1, <1>4, <1>5, ListFacts DEF TaskOK, Placed
<1>7. KernelOK(l)
  BY <1>5, <1>6, PlacedKeeps
<1>8. QED
  BY <1>5, <1>7 DEF Relocated, Placed, l

\* ... or is woken, by a tick or as the first waiter.
LEMMA WakeIs ==
  ASSUME NEW k, KernelOK(k), NEW t \in AllTasks, Gen(k, t) = Null
  PROVE  Relocated(k, AddToReady(NoEvent(k, t), t), t, Ready(k.priority[t]), Null)
<1> DEFINE a == NoEvent(k, t)
           l == AddToReady(a, t)
<1>1. /\ KernelType(k) /\ k.top \in Nat /\ k.priority[t] \in Nat
  BY PriorityFacts DEF KernelOK, KernelType
<1>2. Placed(k, a, t, Null, Null, k.priority[t]) /\ a.top = k.top
  BY <1>1, NoEventIs
<1> HIDE DEF a
<1>3. /\ Placed(a, l, t, Ready(k.priority[t]), Null, k.priority[t])
      /\ l.top = IF k.priority[t] > k.top THEN k.priority[t] ELSE k.top
  BY <1>2, AddToReadyIs DEF Placed
<1> HIDE DEF l
<1>4. Placed(k, l, t, Ready(k.priority[t]), Null, k.priority[t])
  BY <1>2, <1>3, PlacedTwice
<1>5. l.top >= k.top /\ TaskOK(l, t)
  BY <1>1, <1>3, <1>4 DEF TaskOK, Placed
<1>6. KernelOK(l)
  BY <1>4, <1>5, PlacedKeeps
<1>7. QED
  BY <1>4, <1>6 DEF Relocated, Placed, a, l

\* A task that is created is put on the list of its priority.
LEMMA CreateIs ==
  ASSUME NEW k, KernelOK(k), NEW t \in AllTasks, Gen(k, t) = Null,
         Evt(k, t) = Null, NEW p \in Priorities
  PROVE  LET l == AddToReady(Use(k, t, p, p), t)
         IN  /\ KernelOK(l) /\ Gen(l, t) # Null /\ l.priority[t] = p
             /\ \A u \in AllTasks \ {t} : /\ l.priority[u] = k.priority[u]
                                          /\ Gen(l, u) = Gen(k, u)
             /\ \A u \in AllTasks : Evt(l, u) = Evt(k, u)
<1> DEFINE a == Use(k, t, p, p)
           l == AddToReady(a, t)
<1>1. KernelType(k) /\ k.top \in Nat /\ p \in Nat
  BY PriorityFacts DEF KernelOK, KernelType
<1>2. Placed(k, a, t, Null, Null, p) /\ a.top = k.top
  BY <1>1, UseIs
<1> HIDE DEF a
<1>3. /\ Placed(a, l, t, Ready(p), Null, p)
      /\ l.top = IF p > k.top THEN p ELSE k.top
  BY <1>2, AddToReadyIs DEF Placed
<1> HIDE DEF l
<1>4. Placed(k, l, t, Ready(p), Null, p)
  BY <1>2, <1>3, PlacedTwice
<1>5. l.top >= k.top /\ TaskOK(l, t)
  BY <1>1, <1>3, <1>4 DEF TaskOK, Placed
<1>6. KernelOK(l)
  BY <1>4, <1>5, PlacedKeeps
<1>7. Ready(p) # Null
  BY ListFacts
<1>8. QED
  BY <1>4, <1>6, <1>7 DEF Placed, a, l

-----------------------------------------------------------------------------
(* The invariant                                                           *)

TypeOK ==
  /\ uxBasePriority \in [AllTasks -> Priorities]
  /\ pxCurrentTCB \in AllTasks \cup {Null} /\ yieldPending \in BOOLEAN
  /\ holder \in [Mutexes -> Tasks \cup {Null}]
  /\ settled \subseteq Tasks

\* The task that goes on running is ready.
RunnerReady == pxCurrentTCB # Null /\ ~ yieldPending => IsReady(pxCurrentTCB)

\* Before the scheduler is started there are no mutexes, waiters or yields.
BeforeStart ==
  ~ Started =>
    /\ ~ yieldPending /\ settled = {} /\ \A m \in Mutexes : holder[m] = Null
    /\ \A t \in AllTasks : lists.container[Event(t)] = Null

\* No task waits for a mutex it holds.
HoldersOut ==
  \A m \in Mutexes :
    holder[m] # Null => lists.container[Event(holder[m])] # EventList(m)

\* A task is off its own priority only while it holds a mutex.
Lent == \A t \in Tasks : uxPriority[t] # uxBasePriority[t] => Holds(t)

IInv ==
  /\ KernelOK(Kernel) /\ TypeOK /\ RunnerReady /\ BeforeStart /\ HoldersOut /\ Lent

\* The records' view of the state, and that of a state a call has reached.
LEMMA KernelIs ==
  /\ Kernel.lists = lists /\ Kernel.priority = uxPriority
  /\ Kernel.top = uxTopReadyPriority
  /\ \A t : /\ Gen(Kernel, t) = lists.container[Generic(t)]
            /\ Evt(Kernel, t) = lists.container[Event(t)]
BY DEF Kernel, Gen, Evt

\* To be ready is to be on a list at all.
LEMMA ReadyIs ==
  ASSUME NEW k, KernelOK(k), NEW t \in AllTasks
  PROVE  Gen(k, t) \in ReadyLists <=> Gen(k, t) # Null
<1>1. k.priority[t] \in Priorities
  BY DEF KernelOK, KernelType
<1>2. Null \notin ReadyLists
  BY ListFacts
<1>3. QED
  BY <1>1, <1>2, ListFacts DEF KernelOK, TaskOK

\* What a call has made of its record is the next state.
LEMMA BecomesIs ==
  ASSUME NEW l, KernelOK(l), Becomes(l)
  PROVE  /\ KernelOK(Kernel)' /\ uxPriority' = l.priority
         /\ \A t \in AllTasks :
              /\ IsReady(t)' <=> Gen(l, t) # Null
              /\ lists'.container[Event(t)] = Evt(l, t)
              /\ lists'.container[Generic(t)] = Gen(l, t)
<1>1. /\ lists' = l.lists /\ uxPriority' = l.priority
      /\ uxTopReadyPriority' = l.top
  BY DEF Becomes
<1>2. l = [lists |-> lists', priority |-> uxPriority', top |-> uxTopReadyPriority']
  BY <1>1 DEF KernelOK, KernelType
<1>3. Kernel' = l
  BY <1>2 DEF Kernel
<1>4. KernelOK(Kernel)'
  BY <1>3 DEF KernelOK, KernelType, TaskOK, Gen, Evt
<1>5. QED
  BY <1>1, <1>4, ReadyIs DEF IsReady, Gen, Evt

\* A holder is not below a task that waits for it, unless a priority was set
\* since.  That takes a single mutex: a task that holds two drops to its own
\* priority when it gives the first one back, and one that waits for a mutex
\* while it holds another can be raised above the task it waits for.
Served ==
  \A t \in settled, m \in Mutexes :
    Waits(t, m) /\ holder[m] # Null => uxPriority[holder[m]] >= uxPriority[t]

OneMutex == \A m, n \in Mutexes : m = n

\* A step keeps the invariant, and Served as well if there is one mutex.
Keeps == IInv' /\ (OneMutex /\ Served => Served')

\* The invariant spelled out for the running task.
LEMMA RunnerFacts ==
  ASSUME IInv, NEW t \in Tasks, Runs(t)
  PROVE  /\ t \in AllTasks /\ t # Null /\ pxCurrentTCB = t /\ ~ yieldPending
         /\ IsReady(t) /\ Gen(Kernel, t) # Null
         /\ lists.container[Event(t)] = Null
<1>1. t \in AllTasks /\ t # Null /\ pxCurrentTCB = t /\ ~ yieldPending
  BY PriorityFacts DEF Runs
<1>2. IsReady(t)
  BY <1>1 DEF IInv, RunnerReady
<1>3. Gen(Kernel, t) # Null
  BY <1>2, ListFacts, KernelIs DEF IsReady
<1>4. lists.container[Event(t)] = Null
  BY <1>1, <1>3, KernelIs DEF IInv, KernelOK, TaskOK
<1>5. QED
  BY <1>1, <1>2, <1>3, <1>4

\* The lists and priorities of a task, and being ready.
LEMMA StateFacts ==
  ASSUME IInv
  PROVE  /\ uxPriority \in [AllTasks -> Priorities]
         /\ \A t \in AllTasks :
              /\ IsReady(t) <=> Gen(Kernel, t) # Null
              /\ uxPriority[t] \in Nat /\ uxBasePriority[t] \in Priorities
BY ReadyIs, KernelIs, PriorityFacts DEF IInv, KernelOK, KernelType, IsReady, TypeOK

\* A step that leaves the lists and the priorities alone.
LEMMA QuietKernel ==
  ASSUME IInv, UNCHANGED <<lists, uxPriority, uxTopReadyPriority>>
  PROVE  KernelOK(Kernel)' /\ \A t : IsReady(t)' <=> IsReady(t)
<1>1. Kernel' = Kernel
  BY DEF Kernel
<1>2. KernelOK(Kernel)'
  BY <1>1 DEF IInv, KernelOK, KernelType, TaskOK, Gen, Evt
<1>3. QED
  BY <1>2 DEF IsReady

\* Creating a task, before the scheduler is started.
LEMMA CreateKeeps ==
  ASSUME IInv, NEW t \in AllTasks, NEW p \in Priorities, Create(t, p)
  PROVE  Keeps
<1> DEFINE l == AddToReady(Use(Kernel, t, p, p), t)
<1>1. /\ ~ yieldPending /\ ~ Started /\ ~ IsReady(t) /\ Becomes(l)
      /\ uxBasePriority' = [uxBasePriority EXCEPT ![t] = p]
      /\ pxCurrentTCB' \in {t, pxCurrentTCB}
      /\ pxCurrentTCB = Null => pxCurrentTCB' = t
      /\ UNCHANGED <<yieldPending, holder, settled>>
  BY DEF Create, Started, mutexVars
<1>2. /\ settled = {} /\ \A m \in Mutexes : holder[m] = Null
      /\ \A u \in AllTasks : Evt(Kernel, u) = Null
  BY <1>1, KernelIs DEF IInv, BeforeStart
<1>3. KernelOK(Kernel) /\ Gen(Kernel, t) = Null
  BY <1>1, StateFacts DEF IInv
<1>4. /\ KernelOK(l) /\ Gen(l, t) # Null /\ l.priority[t] = p
      /\ \A u \in AllTasks \ {t} : /\ l.priority[u] = Kernel.priority[u]
                                   /\ Gen(l, u) = Gen(Kernel, u)
      /\ \A u \in AllTasks : Evt(l, u) = Evt(Kernel, u)
  BY <1>2, <1>3, CreateIs
<1> HIDE DEF l
<1>5. /\ KernelOK(Kernel)' /\ uxPriority' = l.priority
      /\ \A u \in AllTasks : /\ IsReady(u)' <=> Gen(l, u) # Null
                             /\ lists'.container[Event(u)] = Null
  BY <1>1, <1>2, <1>4, BecomesIs
<1>6. TypeOK'
  BY <1>1 DEF IInv, TypeOK
<1>7. RunnerReady'
  <2>1. IsReady(t)'
    BY <1>4, <1>5
  <2>2. ASSUME NEW c \in AllTasks, IsReady(c) PROVE IsReady(c)'
    BY <1>4, <1>5, <2>1, <2>2, StateFacts
  <2>3. CASE pxCurrentTCB' = t
    BY <2>1, <2>3 DEF RunnerReady, IsReady
  <2>4. CASE pxCurrentTCB' # t
    <3>1. PICK c \in AllTasks : c = pxCurrentTCB /\ c = pxCurrentTCB' /\ IsReady(c)
      BY <1>1, <2>4 DEF IInv, TypeOK, RunnerReady
    <3>2. QED
      BY <2>2, <3>1 DEF RunnerReady, IsReady
  <2>5. QED
    BY <2>3, <2>4
<1>8. BeforeStart' /\ HoldersOut'
  BY <1>1, <1>2, <1>5 DEF BeforeStart, HoldersOut
<1>9. Lent'
  <2>1. \A u \in Tasks : uxPriority[u] = uxBasePriority[u]
    BY <1>2, PriorityFacts DEF IInv, Lent, Holds
  <2>2. ASSUME NEW u \in Tasks PROVE uxPriority'[u] = uxBasePriority'[u]
    BY <1>1, <1>4, <1>5, <2>1, KernelIs, PriorityFacts DEF IInv, TypeOK
  <2>3. QED
    BY <2>2 DEF Lent
<1>10. Served'
  BY <1>1, <1>2 DEF Served
<1>11. QED
  BY <1>5, <1>6, <1>7, <1>8, <1>9, <1>10 DEF IInv, Keeps

\* Taking a mutex that is free: who waits for it is no longer settled.
LEMMA TakeKeeps ==
  ASSUME IInv, NEW t \in Tasks, NEW m \in Mutexes, Take(t, m)
  PROVE  Keeps
<1>1. /\ Started /\ Runs(t) /\ holder[m] = Null
      /\ holder' = [holder EXCEPT ![m] = t]
      /\ settled' = {w \in settled : ~ Waits(w, m)}
      /\ UNCHANGED <<lists, uxPriority, uxBasePriority, uxTopReadyPriority,
                     pxCurrentTCB, yieldPending>>
  BY DEF Take, portVars
<1>2. KernelOK(Kernel)' /\ \A u : IsReady(u)' <=> IsReady(u)
  BY <1>1, QuietKernel
<1>3. t # Null /\ lists.container[Event(t)] = Null
  BY <1>1, RunnerFacts
<1>4. TypeOK' /\ RunnerReady' /\ BeforeStart'
  BY <1>1, <1>2 DEF IInv, TypeOK, RunnerReady, BeforeStart, Started, IsReady
<1>5. HoldersOut'
  BY <1>1, <1>3, ListFacts DEF IInv, TypeOK, HoldersOut
<1>6. Lent'
  <2>1. ASSUME NEW u \in Tasks, Holds(u) PROVE Holds(u)'
    <3>1. PICK n \in Mutexes : holder[n] = u
      BY <2>1 DEF Holds
    <3>2. n # m
      BY <1>1, <3>1, PriorityFacts
    <3>3. QED
      BY <1>1, <3>1, <3>2 DEF Holds, IInv, TypeOK
  <2>2. QED
    BY <1>1, <2>1 DEF IInv, Lent
<1>7. OneMutex /\ Served => Served'
  BY <1>1 DEF OneMutex, Served, Waits
<1>8. QED
  BY <1>2, <1>4, <1>5, <1>6, <1>7 DEF IInv, Keeps

\* Going without a mutex.
LEMMA GiveUpKeeps ==
  ASSUME IInv, NEW t \in Tasks, GiveUp(t)
  PROVE  Keeps
<1>1. UNCHANGED <<lists, uxPriority, uxBasePriority, uxTopReadyPriority,
                  pxCurrentTCB, yieldPending, holder, settled>>
  BY DEF GiveUp, portVars
<1>2. KernelOK(Kernel)' /\ \A u : IsReady(u)' <=> IsReady(u)
  BY <1>1, QuietKernel
<1>3. QED
  BY <1>1, <1>2 DEF Keeps, IInv, TypeOK, RunnerReady, BeforeStart, Started,
     HoldersOut, Lent, Holds, Served, Waits

\* Waiting: the holder is raised first.
LEMMA WaitKeeps ==
  ASSUME IInv, NEW t \in Tasks, NEW m \in Mutexes, Wait(t, m)
  PROVE  Keeps
<1> DEFINE h == holder[m]
           k == vTaskPriorityInherit(Kernel, h)
           l == PlaceOnEventList(k, t, m)
           q == IF uxPriority[h] >= uxPriority[t] THEN uxPriority[h]
                ELSE uxPriority[t]
<1>1. /\ Started /\ Runs(t) /\ h \in Tasks \ {t} /\ Becomes(l)
      /\ settled' = settled \cup {t} /\ yieldPending' = TRUE
      /\ UNCHANGED <<uxBasePriority, pxCurrentTCB, holder>>
  BY DEF Wait, IInv, TypeOK
<1>2. /\ t \in AllTasks /\ pxCurrentTCB = t /\ Gen(Kernel, t) # Null
      /\ h \in AllTasks /\ KernelOK(Kernel) /\ Kernel.priority = uxPriority
      /\ Evt(Kernel, t) = Null
  BY <1>1, RunnerFacts, PriorityFacts, KernelIs DEF IInv
<1>3. Reprioritised(Kernel, k, h, q)
  BY <1>2, InheritIs
<1> HIDE DEF k, q
<1>4. KernelOK(k) /\ Gen(k, t) # Null
  BY <1>2, <1>3 DEF Reprioritised
<1>5. Relocated(k, l, t, Null, EventList(m))
  BY <1>2, <1>4, WaitIs
<1> HIDE DEF l
<1>6. /\ KernelOK(l) /\ l.priority[h] = q
      /\ \A u \in AllTasks \ {h} : l.priority[u] = uxPriority[u]
      /\ Gen(l, t) = Null /\ Evt(l, t) = EventList(m)
      /\ \A u \in AllTasks \ {t} : /\ Evt(l, u) = Evt(Kernel, u)
                                   /\ Gen(l, u) = Null <=> Gen(Kernel, u) = Null
  BY <1>1, <1>2, <1>3, <1>5 DEF Reprioritised, Relocated
<1>7. /\ KernelOK(Kernel)' /\ uxPriority' = l.priority
      /\ \A u \in AllTasks : /\ IsReady(u)' <=> Gen(l, u) # Null
                             /\ lists'.container[Event(u)] = Evt(l, u)
  BY <1>1, <1>6, BecomesIs
<1>8. TypeOK' /\ RunnerReady'
  BY <1>1 DEF IInv, TypeOK, RunnerReady
<1>9. Started'
  BY <1>1, <1>6, <1>7, StateFacts, PriorityFacts DEF Started
<1>10. HoldersOut'
  <2>1. ASSUME NEW n \in Mutexes, holder[n] # Null
        PROVE  lists'.container[Event(holder[n])] # EventList(n)
    <3>1. holder[n] \in AllTasks
      BY <2>1, PriorityFacts DEF IInv, TypeOK
    <3>2. CASE holder[n] = t
      BY <1>1, <1>2, <1>6, <1>7, <3>2, ListFacts
    <3>3. CASE holder[n] # t
      BY <1>6, <1>7, <2>1, <3>1, <3>3, KernelIs DEF IInv, HoldersOut
    <3>4. QED
      BY <3>2, <3>3
  <2>2. QED
    BY <1>1, <2>1 DEF HoldersOut
<1>11. Lent'
  <2>1. Holds(h)
    BY <1>1 DEF Holds
  <2>2. ASSUME NEW u \in Tasks, uxPriority'[u] # uxBasePriority[u] PROVE Holds(u)
    BY <1>6, <1>7, <2>1, <2>2, PriorityFacts DEF IInv, Lent
  <2>3. QED
    BY <1>1, <2>2 DEF Lent, Holds
<1>12. ASSUME OneMutex, Served PROVE Served'
  <2>1. \A n \in Mutexes : n = m
    BY <1>12 DEF OneMutex
  <2>2. /\ uxPriority[h] \in Nat /\ uxPriority[t] \in Nat
        /\ uxPriority'[h] = q /\ q >= uxPriority[h] /\ q >= uxPriority[t]
        /\ uxPriority'[t] = uxPriority[t]
    BY <1>1, <1>2, <1>6, <1>7, StateFacts DEF q
  <2>3. ASSUME NEW u \in settled', Waits(u, m)'
        PROVE  uxPriority'[h] >= uxPriority'[u]
    <3>1. CASE u = t
      BY <2>2, <3>1
    <3>2. CASE u # t
      <4>1. u \in settled /\ u \in AllTasks /\ uxPriority[u] \in Nat
        BY <1>1, <3>2, StateFacts, PriorityFacts DEF IInv, TypeOK
      <4>2. Waits(u, m)
        BY <1>6, <1>7, <2>3, <3>2, <4>1, KernelIs DEF Waits
      <4>3. u # h
        BY <1>1, <4>2, PriorityFacts DEF IInv, HoldersOut, Waits
      <4>4. uxPriority[h] >= uxPriority[u] /\ uxPriority'[u] = uxPriority[u]
        BY <1>1, <1>6, <1>7, <1>12, <4>1, <4>2, <4>3, PriorityFacts DEF Served
      <4>5. q \in Nat
        BY <2>2 DEF q
      <4>6. QED
        BY <2>2, <4>1, <4>4, <4>5
    <3>3. QED
      BY <3>1, <3>2
  <2>4. QED
    BY <1>1, <2>1, <2>3 DEF Served
<1>13. QED
  BY <1>7, <1>8, <1>9, <1>10, <1>11, <1>12 DEF IInv, Keeps, BeforeStart

\* Giving back: the holder is back to its own priority, the first waiter wakes.
LEMMA GiveKeeps ==
  ASSUME IInv, NEW t \in Tasks, NEW m \in Mutexes, Give(t, m)
  PROVE  Keeps
<1> DEFINE k == vTaskPriorityDisinherit(Kernel, t)
           w == Owner(HeadItem(k.lists, EventList(m)))
           empty == listLIST_IS_EMPTY(k.lists, EventList(m))
           l == IF empty THEN k ELSE RemoveFromEventList(k, w)
<1>1. /\ Started /\ Runs(t) /\ holder[m] = t /\ Becomes(l)
      /\ holder' = [holder EXCEPT ![m] = Null]
      /\ settled' \subseteq settled
      /\ empty => UNCHANGED yieldPending
      /\ ~ empty => yieldPending' = (k.priority[w] >= k.priority[t])
      /\ UNCHANGED <<uxBasePriority, pxCurrentTCB>>
  BY DEF Give
<1>2. /\ t \in AllTasks /\ pxCurrentTCB = t /\ Gen(Kernel, t) # Null
      /\ KernelOK(Kernel) /\ Kernel.priority = uxPriority
      /\ uxBasePriority[t] \in Priorities
  BY <1>1, RunnerFacts, StateFacts, KernelIs DEF IInv
<1>3. Reprioritised(Kernel, k, t, uxBasePriority[t])
  BY <1>2, DisinheritIs
<1> HIDE DEF k
<1>4. KernelOK(k) /\ Gen(k, t) # Null
  BY <1>2, <1>3 DEF Reprioritised
<1>5. ~ empty => w \in AllTasks /\ Evt(k, w) = EventList(m) /\ Gen(k, w) = Null
  <2> SUFFICES ASSUME ~ empty
               PROVE  w \in AllTasks /\ Evt(k, w) = EventList(m) /\ Gen(k, w) = Null
    OBVIOUS
  <2> DEFINE x == HeadItem(k.lists, EventList(m))
  <2>1. x \in Items /\ k.lists.container[x] = EventList(m)
    BY <1>4, HeadOnList, ListFacts DEF KernelOK, KernelType
  <2> HIDE DEF x
  <2>2. w \in AllTasks /\ (x = Generic(w) \/ x = Event(w))
    BY <2>1, ItemFacts DEF x
  <2>3. TaskOK(k, w) /\ k.priority[w] \in Priorities
    BY <1>4, <2>2 DEF KernelOK, KernelType
  <2>4. x # Generic(w)
    BY <2>1, <2>3, ListFacts DEF TaskOK, Gen
  <2>5. Evt(k, w) = EventList(m)
    BY <2>1, <2>2, <2>4 DEF Evt
  <2>6. QED
    BY <2>2, <2>3, <2>5, ListFacts DEF TaskOK
<1> HIDE DEF w, empty
<1>6. /\ KernelOK(l) /\ l.priority[t] = uxBasePriority[t]
      /\ \A u \in AllTasks \ {t} : l.priority[u] = uxPriority[u]
      /\ \A u \in AllTasks : /\ Evt(l, u) = Evt(Kernel, u) \/ Evt(l, u) = Null
                             /\ Gen(Kernel, u) # Null => Gen(l, u) # Null
  <2>1. CASE empty
    BY <1>2, <1>3, <2>1 DEF Reprioritised
  <2>2. CASE ~ empty
    <3>1. Relocated(k, RemoveFromEventList(k, w), w, Ready(k.priority[w]), Null)
      BY <1>4, <1>5, <2>2, WakeIs DEF RemoveFromEventList
    <3>2. Ready(k.priority[w]) # Null
      BY <1>4, <1>5, <2>2, ListFacts DEF KernelOK, KernelType
    <3>3. QED
      BY <1>2, <1>3, <1>5, <2>2, <3>1, <3>2 DEF Reprioritised, Relocated
  <2>3. QED
    BY <2>1, <2>2
<1> HIDE DEF l
<1>7. /\ KernelOK(Kernel)' /\ uxPriority' = l.priority
      /\ \A u \in AllTasks : /\ IsReady(u)' <=> Gen(l, u) # Null
                             /\ lists'.container[Event(u)] = Evt(l, u)
  BY <1>1, <1>6, BecomesIs
<1>8. TypeOK'
  <2>1. CASE empty
    BY <1>1, <2>1 DEF IInv, TypeOK
  <2>2. CASE ~ empty
    <3>1. (k.priority[w] >= k.priority[t]) \in BOOLEAN
      OBVIOUS
    <3>2. yieldPending' \in BOOLEAN
      BY <1>1, <2>2, <3>1, Zenon
    <3>3. QED
      BY <1>1, <3>2 DEF IInv, TypeOK
  <2>3. QED
    BY <2>1, <2>2
<1>9. RunnerReady'
  <2>1. IsReady(t)'
    BY <1>2, <1>6, <1>7
  <2>2. QED
    BY <1>1, <1>2, <2>1 DEF RunnerReady, IsReady
<1>10. Started'
  BY <1>1, <1>6, <1>7, StateFacts, PriorityFacts DEF Started
<1>11. HoldersOut'
  <2>1. ASSUME NEW n \in Mutexes, holder'[n] # Null
        PROVE  lists'.container[Event(holder'[n])] # EventList(n)
    <3>1. n # m /\ holder'[n] = holder[n] /\ holder[n] \in AllTasks
      BY <1>1, <2>1, PriorityFacts DEF IInv, TypeOK
    <3>2. lists.container[Event(holder[n])] # EventList(n)
      BY <2>1, <3>1 DEF IInv, HoldersOut
    <3>3. EventList(n) # Null
      BY ListFacts
    <3>4. QED
      BY <1>6, <1>7, <3>1, <3>2, <3>3, KernelIs
  <2>2. QED
    BY <2>1 DEF HoldersOut
<1>12. Lent'
  <2>1. ASSUME NEW u \in Tasks, u # t, Holds(u) PROVE Holds(u)'
    <3>1. PICK n \in Mutexes : holder[n] = u
      BY <2>1 DEF Holds
    <3>2. n # m /\ holder'[n] = u
      BY <1>1, <2>1, <3>1 DEF IInv, TypeOK
    <3>3. QED
      BY <3>2 DEF Holds
  <2>2. ASSUME NEW u \in Tasks, uxPriority'[u] # uxBasePriority[u] PROVE Holds(u)'
    <3>1. u # t /\ uxPriority[u] # uxBasePriority[u]
      BY <1>6, <1>7, <2>2, PriorityFacts
    <3>2. QED
      BY <2>1, <3>1 DEF IInv, Lent
  <2>3. QED
    BY <1>1, <2>2 DEF Lent
<1>13. ASSUME OneMutex PROVE Served'
  BY <1>1, <1>13 DEF OneMutex, Served, IInv, TypeOK
<1>14. QED
  BY <1>7, <1>8, <1>9, <1>10, <1>11, <1>12, <1>13 DEF IInv, Keeps, BeforeStart

\* Setting a priority: who waits is no longer settled.
LEMMA PrioritySetKeeps ==
  ASSUME IInv, NEW t \in Tasks, NEW x \in Tasks, NEW new \in NewPriorities,
         vTaskPrioritySet(t, x, new)
  PROVE  Keeps
<1> DEFINE base == uxBasePriority[x]
           used == IF uxPriority[x] = base THEN new ELSE uxPriority[x]
           k == Use(Kernel, x, used, new)
           onBase == lists.container[Generic(x)] = Ready(base)
           l == IF onBase THEN AddToReady(Unready(k, x), x) ELSE k
<1>1. /\ Started /\ Runs(t) /\ Becomes(l)
      /\ uxBasePriority' = [uxBasePriority EXCEPT ![x] = new]
      /\ yieldPending' \in BOOLEAN /\ settled' = {}
      /\ UNCHANGED <<pxCurrentTCB, holder>>
  BY DEF vTaskPrioritySet
<1>2. /\ x \in AllTasks /\ KernelOK(Kernel) /\ Kernel.priority = uxPriority
      /\ new \in Priorities /\ used \in Priorities /\ base \in Priorities
      /\ pxCurrentTCB = t /\ IsReady(t) /\ t \in AllTasks /\ TaskOK(Kernel, x)
  BY <1>1, RunnerFacts, StateFacts, KernelIs, PriorityFacts DEF IInv, KernelOK
<1>3. Reprioritised(Kernel, l, x, used)
  <2>1. CASE onBase
    <3>1. Gen(Kernel, x) # Null
      BY <1>2, <2>1, KernelIs, ListFacts
    <3>2. QED
      BY <1>2, <2>1, <3>1, SetThenMove
  <2>2. CASE ~ onBase
    <3>1. Gen(Kernel, x) = Null \/ used = Kernel.priority[x]
      BY <1>2, <2>2, KernelIs DEF TaskOK
    <3>2. QED
      BY <1>2, <2>2, <3>1, UseInPlace
  <2>3. QED
    BY <2>1, <2>2
<1> HIDE DEF k, onBase, l
<1>4. /\ KernelOK(Kernel)' /\ uxPriority' = l.priority
      /\ \A u \in AllTasks : /\ IsReady(u)' <=> Gen(l, u) # Null
                             /\ lists'.container[Event(u)] = Evt(l, u)
  BY <1>1, <1>3, BecomesIs DEF Reprioritised
<1>5. \A u \in AllTasks :
        /\ IsReady(u)' <=> IsReady(u)
        /\ lists'.container[Event(u)] = lists.container[Event(u)]
  BY <1>3, <1>4, StateFacts, KernelIs DEF Reprioritised
<1>6. TypeOK'
  BY <1>1, <1>2 DEF IInv, TypeOK
<1>7. RunnerReady'
  BY <1>1, <1>2, <1>5 DEF RunnerReady, IsReady
<1>8. Started'
  BY <1>1, <1>5, PriorityFacts DEF Started
<1>9. HoldersOut'
  BY <1>1, <1>5, PriorityFacts DEF IInv, TypeOK, HoldersOut
<1>10. Lent'
  <2>1. \A u \in Tasks : Holds(u)' <=> Holds(u)
    BY <1>1 DEF Holds
  <2>2. ASSUME NEW u \in Tasks, uxPriority'[u] # uxBasePriority'[u] PROVE Holds(u)
    <3>1. CASE u = x
      <4>1. uxPriority'[x] = used /\ uxBasePriority'[x] = new
        BY <1>1, <1>2, <1>3, <1>4 DEF Reprioritised, IInv, TypeOK
      <4>2. uxPriority[x] # uxBasePriority[x]
        BY <2>2, <3>1, <4>1
      <4>3. QED
        BY <3>1, <4>2 DEF IInv, Lent
    <3>2. CASE u # x
      <4>1. uxPriority'[u] = uxPriority[u] /\ uxBasePriority'[u] = uxBasePriority[u]
        BY <1>1, <1>2, <1>3, <1>4, <3>2, PriorityFacts
           DEF Reprioritised, IInv, TypeOK
      <4>2. QED
        BY <2>2, <4>1 DEF IInv, Lent
    <3>3. QED
      BY <3>1, <3>2
  <2>3. QED
    BY <2>1, <2>2 DEF Lent
<1>11. Served'
  BY <1>1 DEF Served
<1>12. QED
  BY <1>4, <1>6, <1>7, <1>8, <1>9, <1>10, <1>11 DEF IInv, Keeps, BeforeStart

\* Going to sleep, ...
LEMMA SleepKeeps ==
  ASSUME IInv, NEW t \in Tasks, Sleep(t)
  PROVE  Keeps
<1> DEFINE l == Unready(Kernel, t)
<1>1. /\ Started /\ Runs(t) /\ Becomes(l) /\ yieldPending' = TRUE
      /\ UNCHANGED <<uxBasePriority, pxCurrentTCB, holder, settled>>
  BY DEF Sleep, mutexVars
<1>2. /\ t \in AllTasks /\ Gen(Kernel, t) # Null /\ Evt(Kernel, t) = Null
      /\ KernelOK(Kernel) /\ Kernel.priority = uxPriority
  BY <1>1, RunnerFacts, KernelIs DEF IInv
<1>3. Relocated(Kernel, l, t, Null, Null)
  BY <1>2, SleepIs
<1> HIDE DEF l
<1>4. /\ KernelOK(Kernel)' /\ uxPriority' = l.priority
      /\ \A u \in AllTasks : /\ IsReady(u)' <=> Gen(l, u) # Null
                             /\ lists'.container[Event(u)] = Evt(l, u)
  BY <1>1, <1>3, BecomesIs DEF Relocated
<1>5. \A u \in AllTasks :
        /\ lists'.container[Event(u)] = lists.container[Event(u)]
        /\ uxPriority'[u] = uxPriority[u]
        /\ u # t /\ IsReady(u) => IsReady(u)'
  BY <1>2, <1>3, <1>4, StateFacts, KernelIs DEF Relocated
<1>6. TypeOK' /\ RunnerReady'
  BY <1>1 DEF IInv, TypeOK, RunnerReady
<1>7. Started'
  BY <1>1, <1>5, PriorityFacts DEF Started
<1>8. HoldersOut' /\ Lent'
  BY <1>1, <1>5, PriorityFacts DEF IInv, TypeOK, HoldersOut, Lent, Holds
<1>9. Served => Served'
  BY <1>1, <1>5, PriorityFacts DEF IInv, TypeOK, Served, Waits
<1>10. QED
  BY <1>4, <1>6, <1>7, <1>8, <1>9 DEF IInv, Keeps, BeforeStart

\* ... and a tick, which may wake a task.
LEMMA TickKeeps ==
  ASSUME IInv, TickISR
  PROVE  Keeps
<1>1. CASE Tick(Null)
  <2>1. /\ Started /\ Becomes(Kernel) /\ yieldPending' = TRUE
        /\ settled' = settled \ {Null}
        /\ UNCHANGED <<uxBasePriority, pxCurrentTCB, holder>>
    BY <1>1 DEF Tick
  <2>2. UNCHANGED <<lists, uxPriority, uxTopReadyPriority>>
    BY <2>1, KernelIs DEF Becomes
  <2>3. KernelOK(Kernel)' /\ \A u : IsReady(u)' <=> IsReady(u)
    BY <2>2, QuietKernel
  <2>4. QED
    BY <2>1, <2>2, <2>3 DEF Keeps, IInv, TypeOK, RunnerReady, BeforeStart,
       Started, HoldersOut, Lent, Holds, Served, Waits
<1>2. ASSUME NEW t \in Tasks, ~ IsReady(t), Tick(t)
      PROVE  Keeps
  <2> DEFINE l == AddToReady(NoEvent(Kernel, t), t)
  <2>1. /\ Started /\ Becomes(l) /\ yieldPending' = TRUE
        /\ settled' = settled \ {t}
        /\ UNCHANGED <<uxBasePriority, pxCurrentTCB, holder>>
    BY <1>2, PriorityFacts DEF Tick
  <2>2. /\ t \in AllTasks /\ Gen(Kernel, t) = Null /\ KernelOK(Kernel)
        /\ Kernel.priority = uxPriority
    BY <1>2, StateFacts, PriorityFacts, KernelIs DEF IInv
  <2>3. Relocated(Kernel, l, t, Ready(uxPriority[t]), Null)
    BY <2>2, WakeIs
  <2> HIDE DEF l
  <2>4. /\ KernelOK(Kernel)' /\ uxPriority' = l.priority
        /\ \A u \in AllTasks : /\ IsReady(u)' <=> Gen(l, u) # Null
                               /\ lists'.container[Event(u)] = Evt(l, u)
    BY <2>1, <2>3, BecomesIs DEF Relocated
  <2>5. \A u \in AllTasks :
          /\ \/ lists'.container[Event(u)] = lists.container[Event(u)]
             \/ lists'.container[Event(u)] = Null
          /\ uxPriority'[u] = uxPriority[u]
          /\ u # t /\ IsReady(u) => IsReady(u)'
    BY <2>2, <2>3, <2>4, StateFacts, KernelIs DEF Relocated
  <2>6. TypeOK' /\ RunnerReady'
    BY <2>1 DEF IInv, TypeOK, RunnerReady
  <2>7. Started'
    BY <2>1, <2>5, PriorityFacts DEF Started
  <2>8. HoldersOut' /\ Lent'
    BY <2>1, <2>5, PriorityFacts, ListFacts
       DEF IInv, TypeOK, HoldersOut, Lent, Holds
  <2>9. Served => Served'
    BY <2>1, <2>5, PriorityFacts, ListFacts DEF IInv, TypeOK, Served, Waits
  <2>10. QED
    BY <2>4, <2>6, <2>7, <2>8, <2>9 DEF IInv, Keeps, BeforeStart
<1>3. QED
  BY <1>1, <1>2 DEF TickISR

-----------------------------------------------------------------------------
\* The search for the highest priority succeeds, since some task is ready and
\* none is above uxTopReadyPriority.
LEMMA TopExists ==
  ASSUME IInv, Started
  PROVE  \E p \in Priorities :
           /\ p <= uxTopReadyPriority /\ ~ listLIST_IS_EMPTY(lists, Ready(p))
           /\ \A q \in p + 1 .. uxTopReadyPriority :
                listLIST_IS_EMPTY(lists, Ready(q))
<1> DEFINE full(p) == ~ listLIST_IS_EMPTY(lists, Ready(p))
           U == {n \in Nat : \A p \in Priorities :
                               p <= uxTopReadyPriority /\ full(p) => p <= n}
<1>1. /\ KernelOK(Kernel) /\ ListsOK(lists, Lists, Items)
      /\ uxTopReadyPriority \in Priorities /\ uxTopReadyPriority \in Nat
      /\ Priorities \subseteq Nat
      /\ \A q \in Nat : q <= uxTopReadyPriority => q \in Priorities
  <2>1. /\ KernelOK(Kernel) /\ ListsOK(lists, Lists, Items)
        /\ uxTopReadyPriority \in Priorities
    BY KernelIs DEF IInv, KernelOK, KernelType
  <2>2. \A q \in Nat : q <= uxTopReadyPriority => q \in Priorities
    BY <2>1, InheritanceAssumption DEF Priorities
  <2>3. QED
    BY <2>1, <2>2, PriorityFacts
<1>2. \E p \in Priorities : p <= uxTopReadyPriority /\ full(p)
  <2> DEFINE p == uxPriority[Idle]
  <2>1. /\ Idle \in AllTasks /\ p \in Priorities /\ p <= uxTopReadyPriority
        /\ lists.container[Generic(Idle)] = Ready(p)
    BY <1>1, StateFacts, PriorityFacts, KernelIs
       DEF Started, KernelOK, KernelType, TaskOK
  <2>2. Generic(Idle) \in Items /\ Ready(p) \in Lists
    BY <2>1, ListFacts, ItemFacts
  <2>3. full(p)
    BY <1>1, <2>1, <2>2, NotEmpty
  <2>4. QED
    BY <2>1, <2>3
<1> HIDE DEF full
<1>3. uxTopReadyPriority \in U /\ U \subseteq Nat
  BY <1>1
<1>4. PICK n \in U : \A j \in U : n <= j
  BY <1>3, SmallestExists
<1>5. n \in Nat /\ \A p \in Priorities : p <= uxTopReadyPriority /\ full(p) => p <= n
  BY <1>4
<1> HIDE DEF U
<1>6. n \in Priorities /\ n <= uxTopReadyPriority
  BY <1>1, <1>3, <1>4, <1>5
<1>7. full(n)
  <2> SUFFICES ASSUME ~ full(n) PROVE FALSE
    OBVIOUS
  <2>1. \A p \in Priorities : p <= uxTopReadyPriority /\ full(p) => p <= n - 1
    BY <1>1, <1>5
  <2>2. n - 1 \in Nat
    BY <1>1, <1>2, <1>5, <2>1
  <2>3. n - 1 \in U
    BY <2>1, <2>2 DEF U
  <2>4. QED
    BY <1>4, <1>5, <2>3
<1>8. \A q \in n + 1 .. uxTopReadyPriority : ~ full(q)
  BY <1>1, <1>5
<1>9. QED
  BY <1>6, <1>7, <1>8 DEF full

\* The switch selects a ready task and changes no priority.
LEMMA SwitchKeeps ==
  ASSUME IInv, vTaskSwitchContext
  PROVE  Keeps
<1> DEFINE Top(p) == /\ p <= uxTopReadyPriority
                     /\ ~ listLIST_IS_EMPTY(lists, Ready(p))
                     /\ \A q \in p + 1 .. uxTopReadyPriority :
                          listLIST_IS_EMPTY(lists, Ready(q))
           top  == CHOOSE p \in Priorities : Top(p)
           next == AdvanceIndex(lists, Ready(top))
           x    == ItemAtIndex(next, Ready(top))
<1>1. /\ yieldPending' = FALSE /\ lists' = next /\ uxTopReadyPriority' = top
      /\ pxCurrentTCB' = Owner(x)
      /\ UNCHANGED <<uxPriority, uxBasePriority, holder, settled>>
  BY DEF vTaskSwitchContext, mutexVars
<1>2. Started
  BY DEF vTaskSwitchContext, IInv, BeforeStart
<1>3. KernelOK(Kernel) /\ ListsOK(lists, Lists, Items)
  BY KernelIs DEF IInv, KernelOK, KernelType
<1>4. \E p \in Priorities : Top(p)
  BY <1>2, TopExists
<1> HIDE DEF Top
<1>5. top \in Priorities /\ Top(top)
  BY <1>4
<1> HIDE DEF top
<1>6. Ready(top) \in Lists /\ ~ listLIST_IS_EMPTY(lists, Ready(top))
  BY <1>5, ListFacts DEF Top
<1>7. /\ SameLists(lists, next, Lists, Items) /\ x \in Items
      /\ lists.container[x] = Ready(top)
  BY <1>3, <1>6, AdvanceKeeps
<1> HIDE DEF next, x
<1>8. lists'.container = lists.container
  BY <1>1, <1>7 DEF SameLists
<1>9. Owner(x) \in AllTasks /\ lists.container[Generic(Owner(x))] = Ready(top)
  <2>1. Owner(x) \in AllTasks /\ (x = Generic(Owner(x)) \/ x = Event(Owner(x)))
    BY <1>7, ItemFacts
  <2>2. TaskOK(Kernel, Owner(x))
    BY <1>3, <2>1 DEF KernelOK
  <2>3. x # Event(Owner(x))
    BY <1>5, <1>7, <2>2, KernelIs, ListFacts DEF TaskOK
  <2>4. QED
    BY <1>7, <2>1, <2>3
<1>10. KernelOK(Kernel)'
  <2>1. Kernel' = [lists |-> next, priority |-> uxPriority, top |-> top]
    BY <1>1 DEF Kernel
  <2>2. KernelType(Kernel')
    BY <1>3, <1>5, <1>7, <2>1 DEF SameLists, KernelOK, KernelType, Kernel
  <2>3. ASSUME NEW t \in AllTasks PROVE TaskOK(Kernel', t)
    <3>1. TaskOK(Kernel, t) /\ uxPriority[t] \in Priorities
      BY <1>3, StateFacts DEF KernelOK
    <3>2. Gen(Kernel', t) = Gen(Kernel, t) /\ Evt(Kernel', t) = Evt(Kernel, t)
      BY <1>7, <2>1, KernelIs DEF SameLists, Gen, Evt
    <3>3. Gen(Kernel, t) # Null => uxPriority[t] <= top
      <4> SUFFICES ASSUME Gen(Kernel, t) # Null, ~ (uxPriority[t] <= top)
                   PROVE  FALSE
        OBVIOUS
      <4>1. /\ lists.container[Generic(t)] = Ready(uxPriority[t])
            /\ uxPriority[t] <= uxTopReadyPriority
        BY <3>1, KernelIs DEF TaskOK
      <4>2. ~ listLIST_IS_EMPTY(lists, Ready(uxPriority[t]))
        BY <1>3, <3>1, <4>1, NotEmpty, ListFacts, ItemFacts
      <4>3. /\ uxPriority[t] \in Nat /\ top \in Nat
            /\ uxTopReadyPriority \in Nat
        BY <1>3, <1>5, <3>1, PriorityFacts, KernelIs DEF KernelOK, KernelType
      <4>4. uxPriority[t] \in top + 1 .. uxTopReadyPriority
        BY <4>1, <4>3
      <4>5. QED
        BY <1>5, <4>2, <4>4 DEF Top
    <3>4. QED
      BY <2>1, <3>1, <3>2, <3>3, KernelIs DEF TaskOK
  <2>4. KernelOK(Kernel')
    BY <2>2, <2>3 DEF KernelOK
  <2>5. QED
    BY <2>4 DEF KernelOK, KernelType, TaskOK, Gen, Evt
<1>11. TypeOK' /\ HoldersOut' /\ Lent'
  BY <1>1, <1>8, <1>9 DEF IInv, TypeOK, HoldersOut, Lent, Holds
<1>12. RunnerReady' /\ Started'
  BY <1>1, <1>2, <1>5, <1>8, <1>9, ListFacts DEF RunnerReady, Started, IsReady
<1>13. Served => Served'
  BY <1>1, <1>8 DEF Served, Waits
<1>14. QED
  BY <1>10, <1>11, <1>12, <1>13 DEF IInv, Keeps, BeforeStart

-----------------------------------------------------------------------------
\* Initially there are neither tasks on the lists nor mutexes held.
LEMMA InitKeeps == Init => IInv /\ Served
<1> SUFFICES ASSUME Init PROVE IInv /\ Served
  OBVIOUS
<1>1. /\ ListsOK(lists, Lists, Items)
      /\ \A t \in AllTasks : /\ lists.container[Generic(t)] = Null
                             /\ lists.container[Event(t)] = Null
  BY InitialListsOK, ListFacts, ItemFacts DEF Init
<1>2. KernelType(Kernel)
  BY <1>1, PriorityFacts DEF Init, Kernel, KernelType
<1>3. \A t \in AllTasks : TaskOK(Kernel, t)
  BY <1>1, KernelIs DEF TaskOK
<1>4. TypeOK
  BY PriorityFacts DEF Init, TypeOK
<1>5. RunnerReady /\ BeforeStart /\ HoldersOut /\ Lent /\ Served
  BY <1>1 DEF Init, RunnerReady, BeforeStart, HoldersOut, Lent, Served
<1>6. QED
  BY <1>2, <1>3, <1>4, <1>5 DEF IInv, KernelOK

\* Every step keeps the invariant.
LEMMA NextKeeps == IInv /\ [Next]_vars => Keeps
<1> SUFFICES ASSUME IInv, [Next]_vars PROVE Keeps
  OBVIOUS
<1>1. CASE CreateBeforeStart
  <2>1. \A t \in Tasks : CreatedWith[t] \in Priorities
    BY PriorityFacts
  <2>2. QED
    BY <1>1, <2>1, CreateKeeps, PriorityFacts DEF CreateBeforeStart
<1>2. CASE TickISR
  BY <1>2, TickKeeps
<1>3. CASE vTaskSwitchContext
  BY <1>3, SwitchKeeps
<1>4. CASE UNCHANGED vars
  <2>1. UNCHANGED <<lists, uxPriority, uxBasePriority, uxTopReadyPriority,
                    pxCurrentTCB, yieldPending, holder, settled>>
    BY <1>4 DEF vars, portVars, mutexVars
  <2>2. KernelOK(Kernel)' /\ \A u : IsReady(u)' <=> IsReady(u)
    BY <2>1, QuietKernel
  <2>3. QED
    BY <2>1, <2>2 DEF Keeps, IInv, TypeOK, RunnerReady, BeforeStart, Started,
       HoldersOut, Lent, Holds, Served, Waits
<1>5. QED
  BY <1>1, <1>2, <1>3, <1>4, TakeKeeps, WaitKeeps, GiveKeeps, GiveUpKeeps,
     SleepKeeps, PrioritySetKeeps DEF Next

\* For any number of tasks, priorities and mutexes: a task is off its own
\* priority only while it holds a mutex, every task is on the ready list of the
\* priority it uses or on none, nobody is ready while it waits, and nobody waits
\* for a mutex it holds.
THEOREM PrioritiesReturn == Spec => []IInv
BY InitKeeps, NextKeeps, PTL DEF Spec, Keeps

\* With one mutex the holder is also never below a task that waits for it.
THEOREM InheritanceHolds ==
  ASSUME OneMutex
  PROVE  Spec => []InheritanceSound
<1>1. IInv /\ Served /\ [Next]_vars => IInv' /\ Served'
  BY NextKeeps DEF Keeps
<1>2. IInv /\ Served => InheritanceSound
  <2> SUFFICES ASSUME IInv, Served PROVE InheritanceSound
    OBVIOUS
  <2>1. ASSUME NEW t \in AllTasks, IsReady(t)
        PROVE  lists.container[Generic(t)] = Ready(uxPriority[t])
    BY <2>1, StateFacts, KernelIs DEF IInv, KernelOK, TaskOK
  <2>2. QED
    BY <2>1 DEF IInv, Lent, Served, InheritanceSound
<1>3. QED
  BY <1>1, <1>2, InitKeeps, PTL DEF Spec
=============================================================================
