----------------------------- MODULE XListSpec -----------------------------
(***************************************************************************)
(* What list.h promises: a set of lists on which every call of the package *)
(* is one indivisible step, as described by the operators of XList.        *)
(***************************************************************************)
EXTENDS XList

CONSTANTS Lists, SortedLists, Items

VARIABLE xl

Init == \E v \in [Items -> TickType] :
          xl = [vListInitialise(Lists, Items) EXCEPT !.value = v]

SetItemValue(x, v) ==
  xl.container[x] = Null /\ xl' = listSET_LIST_ITEM_VALUE(xl, x, v)

InsertEnd(L, x) == xl.container[x] = Null /\ xl' = vListInsertEnd(xl, L, x)

InsertInOrder(L, x) == xl.container[x] = Null /\ xl' = vListInsert(xl, L, x)

RemoveItem(x) == xl.container[x] # Null /\ xl' = vListRemove(xl, x)

GetOwnerOfNextEntry(L) ==
  ~ listLIST_IS_EMPTY(xl, L) /\ xl' = AdvanceIndex(xl, L)

Next ==
  \/ \E x \in Items, v \in TickType : SetItemValue(x, v)
  \/ \E x \in Items, L \in Lists \ SortedLists : InsertEnd(L, x)
  \/ \E x \in Items, L \in SortedLists : InsertInOrder(L, x)
  \/ \E x \in Items : RemoveItem(x)
  \/ \E L \in Lists : GetOwnerOfNextEntry(L)

Spec == Init /\ [][Next]_xl
=============================================================================
