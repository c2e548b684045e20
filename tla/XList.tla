------------------------------- MODULE XList -------------------------------
(***************************************************************************)
(* The list package of list.c / list.h as operators on one value, `xl',    *)
(* that holds every list and every list item of a system:                  *)
(*   xl.ring[L]      the items of list L, from the one after xListEnd on;  *)
(*   xl.index[L]     where pxIndex points: 0 is xListEnd, i is ring[L][i]; *)
(*   xl.container[x] pvContainer of item x, Null when x is on no list;     *)
(*   xl.value[x]     xItemValue of item x.                                 *)
(* uxNumberOfItems is Len(xl.ring[L]).  Module ListHeap has the pointers   *)
(* and the counter, and is checked to implement these operators.           *)
(***************************************************************************)
EXTENDS Integers, SequencesExt

CONSTANTS
  portMAX_DELAY,      \* the largest portTickType: xItemValue of every xListEnd
  Null                \* pvContainer of an item that is on no list

ASSUME MaxDelayAssumption == portMAX_DELAY \in Nat \ {0}

TickType == 0 .. portMAX_DELAY

XLists(Lists, Items) ==
  [ring : [Lists -> Seq(Items)], index : [Lists -> Nat],
   container : [Items -> Lists \cup {Null}], value : [Items -> TickType]]

-----------------------------------------------------------------------------
(* Macros of list.h *)

listLIST_IS_EMPTY(xl, L) == xl.ring[L] = << >>

listCURRENT_LIST_LENGTH(xl, L) == Len(xl.ring[L])

listIS_CONTAINED_WITHIN(xl, L, x) == xl.container[x] = L

listSET_LIST_ITEM_VALUE(xl, x, v) == [xl EXCEPT !.value[x] = v]

\* listGET_OWNER_OF_HEAD_ENTRY of a list that is not empty
HeadItem(xl, L) == xl.ring[L][1]

\* Mutant: always back to the head.
IndexToHead(xl, L) == [xl EXCEPT !.index[L] = 1]

\* listGET_OWNER_OF_NEXT_ENTRY moves pxIndex on, over xListEnd ...
AdvanceIndex(xl, L) ==
  [xl EXCEPT !.index[L] = IF @ = Len(xl.ring[L]) THEN 1 ELSE @ + 1]

\* ... and returns the owner of the item it then points to.
ItemAtIndex(xl, L) == xl.ring[L][xl.index[L]]

-----------------------------------------------------------------------------
(* Functions of list.c *)

vListInitialise(Lists, Items) ==
  [ring |-> [L \in Lists |-> << >>], index |-> [L \in Lists |-> 0],
   container |-> [x \in Items |-> Null], value |-> [x \in Items |-> 0]]

\* Links x in as the i-th item of L.  pxIndex stays on the item it points to.
LinkAt(xl, L, x, i) ==
  [ring      |-> [xl.ring EXCEPT ![L] = InsertAt(@, i, x)],
   index     |-> [xl.index EXCEPT ![L] = IF i <= @ THEN @ + 1 ELSE @],
   container |-> [xl.container EXCEPT ![x] = L],
   value     |-> xl.value]

\* Mutant: pxIndex does not move to the new item.
InsertEndIndexStays(xl, L, x) == LinkAt(xl, L, x, xl.index[L] + 1)

\* The new item goes after the one pxIndex points to, and pxIndex moves to it.
vListInsertEnd(xl, L, x) ==
  LET i == xl.index[L] + 1
  IN  [LinkAt(xl, L, x, i) EXCEPT !.index[L] = i]

\* Where the loop of vListInsert can stop: at an item of a larger value, or
\* at xListEnd.
StopsFor(xl, L, v) ==
  {i \in 1 .. Len(xl.ring[L]) + 1 :
     i <= Len(xl.ring[L]) => v < xl.value[xl.ring[L][i]]}

\* Mutant: the list is not kept in order.
AtTheTail(xl, L, v) == Len(xl.ring[L]) + 1

InsertPosition(xl, L, v) ==
  IF v = portMAX_DELAY
  THEN Len(xl.ring[L]) + 1
  ELSE CHOOSE i \in StopsFor(xl, L, v) : \A j \in StopsFor(xl, L, v) : i <= j

vListInsert(xl, L, x) == LinkAt(xl, L, x, InsertPosition(xl, L, xl.value[x]))

PositionOf(xl, L, x) == CHOOSE i \in 1 .. Len(xl.ring[L]) : xl.ring[L][i] = x

\* A pxIndex that points to x is moved back to the item before x.
vListRemove(xl, x) ==
  LET L == xl.container[x]
      i == PositionOf(xl, L, x)
  IN  [ring      |-> [xl.ring EXCEPT ![L] = RemoveAt(@, i)],
       index     |-> [xl.index EXCEPT ![L] = IF i <= @ THEN @ - 1 ELSE @],
       container |-> [xl.container EXCEPT ![x] = Null],
       value     |-> xl.value]

-----------------------------------------------------------------------------
(* What the scheduler relies on at every call: the back pointers and the   *)
(* rings tell the same story.                                              *)

OnList(xl, L, x) == \E i \in 1 .. Len(xl.ring[L]) : xl.ring[L][i] = x

ContainersAgree(xl, Lists, Items) ==
  \A L \in Lists, x \in Items : xl.container[x] = L <=> OnList(xl, L, x)

NoDuplicates(xl, Lists) ==
  \A L \in Lists : \A i, j \in 1 .. Len(xl.ring[L]) :
    xl.ring[L][i] = xl.ring[L][j] => i = j

IndexInRing(xl, Lists) == \A L \in Lists : xl.index[L] <= Len(xl.ring[L])

ListsOK(xl, Lists, Items) ==
  /\ xl \in XLists(Lists, Items)
  /\ ContainersAgree(xl, Lists, Items)
  /\ NoDuplicates(xl, Lists)
  /\ IndexInRing(xl, Lists)

\* The list is in the order vListInsert keeps.
SortedByValue(xl, L) ==
  \A i, j \in 1 .. Len(xl.ring[L]) :
    i < j => xl.value[xl.ring[L][i]] <= xl.value[xl.ring[L][j]]
=============================================================================
