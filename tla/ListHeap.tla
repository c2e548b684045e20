------------------------------ MODULE ListHeap ------------------------------
(***************************************************************************)
(* list.c at the level of its pointers.  A node is a list item or the      *)
(* xListEnd of a list, which is written as the list itself.  The loop of   *)
(* vListInsert takes one step per iteration: it runs with the scheduler    *)
(* suspended but interrupts on, so between two iterations an interrupt may *)
(* use any other list (xPendingReadyList, an event list).                  *)
(***************************************************************************)
EXTENDS Integers, FiniteSets

CONSTANTS
  Lists,
  SortedLists,    \* lists filled by vListInsert; the others by vListInsertEnd
  Items,
  portMAX_DELAY,
  Null

VARIABLES
  pxNext, pxPrevious,   \* of every node
  xItemValue,           \* of every node
  pvContainer,          \* of every item
  pxIndex, uxNumberOfItems,   \* of every list
  inserting, into, pxIterator \* the vListInsert in progress: item, list, where

vars == <<pxNext, pxPrevious, xItemValue, pvContainer, pxIndex,
          uxNumberOfItems, inserting, into, pxIterator>>

Nodes == Lists \cup Items
TickType == 0 .. portMAX_DELAY

ASSUME HeapAssumption ==
  /\ portMAX_DELAY \in Nat \ {0}
  /\ SortedLists \subseteq Lists
  /\ Lists \cap Items = {} /\ Null \notin Nodes
  /\ IsFiniteSet(Items)

walkVars == <<inserting, into, pxIterator>>

-----------------------------------------------------------------------------
\* vListInitialise on every list, vListInitialiseItem on every item; an
\* item's own pointers are not set until it is linked.
Init ==
  /\ pxNext = [n \in Nodes |-> IF n \in Lists THEN n ELSE Null]
  /\ pxPrevious = [n \in Nodes |-> IF n \in Lists THEN n ELSE Null]
  /\ \E v \in [Items -> TickType] :
       xItemValue = [n \in Nodes |-> IF n \in Lists THEN portMAX_DELAY ELSE v[n]]
  /\ pvContainer = [x \in Items |-> Null]
  /\ pxIndex = [L \in Lists |-> L]
  /\ uxNumberOfItems = [L \in Lists |-> 0]
  /\ inserting = Null /\ into = Null /\ pxIterator = Null

Free(x) == pvContainer[x] = Null /\ x # inserting

SetItemValue(x, v) ==
  /\ Free(x)
  /\ xItemValue' = [xItemValue EXCEPT ![x] = v]
  /\ UNCHANGED <<pxNext, pxPrevious, pvContainer, pxIndex, uxNumberOfItems,
                 walkVars>>

\* Link item x into L, after node n.
LinkAfter(L, x, n) ==
  /\ pxNext' = [pxNext EXCEPT ![x] = pxNext[n], ![n] = x]
  /\ pxPrevious' = [pxPrevious EXCEPT ![x] = n, ![pxNext[n]] = x]
  /\ pvContainer' = [pvContainer EXCEPT ![x] = L]
  /\ uxNumberOfItems' = [uxNumberOfItems EXCEPT ![L] = @ + 1]
  /\ UNCHANGED xItemValue

vListInsertEnd(L, x) ==
  /\ Free(x) /\ L # into
  /\ LinkAfter(L, x, pxIndex[L])
  /\ pxIndex' = [pxIndex EXCEPT ![L] = x]
  /\ UNCHANGED walkVars

\* vListInsert up to its loop: where the iterator starts.
InsertBegin(L, x) ==
  /\ inserting = Null /\ pvContainer[x] = Null
  /\ inserting' = x /\ into' = L
  /\ pxIterator' = IF xItemValue[x] = portMAX_DELAY THEN pxPrevious[L] ELSE L
  /\ UNCHANGED <<pxNext, pxPrevious, xItemValue, pvContainer, pxIndex,
                 uxNumberOfItems>>

\* Mutant: compares the item the iterator is at, not the next one.
WalkOnHere ==
  /\ xItemValue[inserting] # portMAX_DELAY
  /\ xItemValue[pxIterator] <= xItemValue[inserting]

\* Mutant: an item goes before those of its own value.
WalkOnStrict ==
  /\ xItemValue[inserting] # portMAX_DELAY
  /\ xItemValue[pxNext[pxIterator]] < xItemValue[inserting]

\* Mutant: no special case for the value of the end marker.
WalkOnAlways == xItemValue[pxNext[pxIterator]] <= xItemValue[inserting]

\* The condition of the loop, not tested when the value is portMAX_DELAY.
WalkOn ==
  /\ xItemValue[inserting] # portMAX_DELAY
  /\ xItemValue[pxNext[pxIterator]] <= xItemValue[inserting]

InsertStep ==
  /\ inserting # Null /\ WalkOn
  /\ pxIterator' = pxNext[pxIterator]
  /\ UNCHANGED <<pxNext, pxPrevious, xItemValue, pvContainer, pxIndex,
                 uxNumberOfItems, inserting, into>>

InsertLink ==
  /\ inserting # Null /\ ~ WalkOn
  /\ LinkAfter(into, inserting, pxIterator)
  /\ inserting' = Null /\ into' = Null /\ pxIterator' = Null
  /\ UNCHANGED pxIndex

\* vListRemove moves a pxIndex that points to the item back to the one before.
IndexWithout(x) ==
  LET L == pvContainer[x]
  IN  IF pxIndex[L] = x THEN [pxIndex EXCEPT ![L] = pxPrevious[x]] ELSE pxIndex

\* What vListRemove does besides the back link, for the mutants.
Unlinked(x, count, index, container) ==
  /\ pvContainer[x] # Null /\ pvContainer[x] # into
  /\ pxNext' = [pxNext EXCEPT ![pxPrevious[x]] = pxNext[x]]
  /\ uxNumberOfItems' = [uxNumberOfItems EXCEPT ![pvContainer[x]] = @ - count]
  /\ pxIndex' = index /\ pvContainer' = container
  /\ UNCHANGED <<xItemValue, walkVars>>

\* Mutant: the back link of the next node is not set.
RemoveOneWay(x) ==
  /\ Unlinked(x, 1, IndexWithout(x), [pvContainer EXCEPT ![x] = Null])
  /\ UNCHANGED pxPrevious

\* Mutant: pxIndex is left pointing to the removed item.
RemoveLeavesIndex(x) ==
  /\ Unlinked(x, 1, pxIndex, [pvContainer EXCEPT ![x] = Null])
  /\ pxPrevious' = [pxPrevious EXCEPT ![pxNext[x]] = pxPrevious[x]]

\* Mutant: pvContainer keeps naming the list.
RemoveLeavesContainer(x) ==
  /\ Unlinked(x, 1, IndexWithout(x), pvContainer)
  /\ pxPrevious' = [pxPrevious EXCEPT ![pxNext[x]] = pxPrevious[x]]

\* Mutant: uxNumberOfItems is not decremented.
RemoveUncounted(x) ==
  /\ Unlinked(x, 0, IndexWithout(x), [pvContainer EXCEPT ![x] = Null])
  /\ pxPrevious' = [pxPrevious EXCEPT ![pxNext[x]] = pxPrevious[x]]

vListRemove(x) ==
  LET L == pvContainer[x]
  IN  /\ L # Null /\ L # into
      /\ pxPrevious' = [pxPrevious EXCEPT ![pxNext[x]] = pxPrevious[x]]
      /\ pxNext' = [pxNext EXCEPT ![pxPrevious[x]] = pxNext[x]]
      /\ pxIndex' = IndexWithout(x)
      /\ pvContainer' = [pvContainer EXCEPT ![x] = Null]
      /\ uxNumberOfItems' = [uxNumberOfItems EXCEPT ![L] = @ - 1]
      /\ UNCHANGED <<xItemValue, walkVars>>

\* listGET_OWNER_OF_NEXT_ENTRY, only used on lists that have an item.
GetOwnerOfNextEntry(L) ==
  /\ uxNumberOfItems[L] # 0 /\ L # into
  /\ pxIndex' = [pxIndex EXCEPT ![L] = IF pxNext[@] = L THEN pxNext[L]
                                       ELSE pxNext[@]]
  /\ UNCHANGED <<pxNext, pxPrevious, xItemValue, pvContainer, uxNumberOfItems,
                 walkVars>>

Next ==
  \/ \E x \in Items, v \in TickType : SetItemValue(x, v)
  \/ \E x \in Items, L \in Lists \ SortedLists : vListInsertEnd(L, x)
  \/ \E x \in Items, L \in SortedLists : InsertBegin(L, x)
  \/ InsertStep
  \/ InsertLink
  \/ \E x \in Items : vListRemove(x)
  \/ \E L \in Lists : GetOwnerOfNextEntry(L)

Spec == Init /\ [][Next]_vars

\* A task inside vListInsert keeps executing.
FairSpec == Spec /\ WF_vars(InsertStep \/ InsertLink)

-----------------------------------------------------------------------------
\* Types of the variables.
TypeOK ==
  /\ pxNext \in [Nodes -> Nodes \cup {Null}]
  /\ pxPrevious \in [Nodes -> Nodes \cup {Null}]
  /\ xItemValue \in [Nodes -> TickType]
  /\ pvContainer \in [Items -> Lists \cup {Null}]
  /\ pxIndex \in [Lists -> Nodes]
  /\ uxNumberOfItems \in [Lists -> Nat]
  /\ inserting \in Items \cup {Null}
  /\ into \in SortedLists \cup {Null}
  /\ pxIterator \in Nodes \cup {Null}

\* Node n belongs to list L, by its container pointer or as its xListEnd.
NodeOf(L, n) == n = L \/ (n \in Items /\ pvContainer[n] = L)

\* From a node of a list both pointers lead to nodes of the same list, and
\* they are inverse to each other (topology.previous_exact, next_reverse and
\* previous_forward of the trace harness).
LinksOK ==
  \A L \in Lists, n \in Nodes :
    NodeOf(L, n) =>
      /\ NodeOf(L, pxNext[n]) /\ pxPrevious[pxNext[n]] = n
      /\ NodeOf(L, pxPrevious[n]) /\ pxNext[pxPrevious[n]] = n

\* pxIndex never points outside its list, whatever is removed, and neither
\* does the iterator of an insertion that interrupts pass over.
CursorsOK ==
  /\ \A L \in Lists : NodeOf(L, pxIndex[L])
  /\ inserting # Null =>
       /\ pvContainer[inserting] = Null
       /\ into # Null /\ NodeOf(into, pxIterator)
       /\ pxIterator \in Items => xItemValue[pxIterator] <= xItemValue[inserting]

\* uxNumberOfItems counts the items that say they are on the list.
CountOK ==
  \A L \in Lists :
    uxNumberOfItems[L] = Cardinality({x \in Items : pvContainer[x] = L})

\* Along a list filled by vListInsert the values never decrease, and xListEnd
\* keeps the largest value, so that the loop of vListInsert stops there.
SortedLinks ==
  /\ \A L \in Lists : xItemValue[L] = portMAX_DELAY
  /\ \A L \in SortedLists, x \in Items :
       pvContainer[x] = L => xItemValue[x] <= xItemValue[pxNext[x]]

\* Every insertion ends, also one with the value of the end marker.
InsertTerminates == inserting # Null ~> inserting = Null

-----------------------------------------------------------------------------
(* The refinement of XListSpec: a list is read off its pointers.           *)

Hop(L) ==
  LET node[i \in 0 .. Cardinality(Items)] ==
        IF i = 0 THEN L ELSE pxNext[node[i - 1]]
  IN  node

AbstractXL ==
  [ring      |-> [L \in Lists |-> [i \in 1 .. uxNumberOfItems[L] |-> Hop(L)[i]]],
   index     |-> [L \in Lists |->
                    CHOOSE i \in 0 .. uxNumberOfItems[L] : Hop(L)[i] = pxIndex[L]],
   container |-> pvContainer,
   value     |-> [x \in Items |-> xItemValue[x]]]

Abstract == INSTANCE XListSpec WITH xl <- AbstractXL

\* The pointer manipulations implement the list calls as single steps.
ImplementsXListSpec == Abstract!Spec
=============================================================================
