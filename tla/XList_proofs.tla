---------------------------- MODULE XList_proofs ----------------------------
EXTENDS XList, SequenceTheorems, WellFoundedInduction, TLAPS

(***************************************************************************)
(* Linking an item that is on no list, at a position of the ring, keeps    *)
(* rings, back pointers and pxIndex in agreement: vListInsertEnd and       *)
(* vListInsert differ only in the position and in where pxIndex ends.      *)
(***************************************************************************)
\* yl is xl with item x linked in as the i-th item of L.
Linked(xl, yl, Lists, L, x, i) ==
  /\ yl.container = [xl.container EXCEPT ![x] = L]
  /\ yl.value = xl.value
  /\ \A M \in Lists \ {L} : yl.ring[M] = xl.ring[M] /\ yl.index[M] = xl.index[M]
  /\ yl.index[L] = IF i <= xl.index[L] THEN xl.index[L] + 1 ELSE xl.index[L]
  /\ Len(yl.ring[L]) = Len(xl.ring[L]) + 1
  /\ \A j \in 1 .. Len(xl.ring[L]) + 1 :
       yl.ring[L][j] = IF j < i THEN xl.ring[L][j]
                       ELSE IF j = i THEN x ELSE xl.ring[L][j - 1]

\* Linking an item at a position gives a list state.
LEMMA LinkAtType ==
  ASSUME NEW Lists, NEW Items, Null \notin Lists,
         NEW xl, ListsOK(xl, Lists, Items),
         NEW L \in Lists, NEW x \in Items, xl.container[x] = Null,
         NEW i \in 1 .. Len(xl.ring[L]) + 1
  PROVE  /\ LinkAt(xl, L, x, i) \in XLists(Lists, Items)
         /\ Linked(xl, LinkAt(xl, L, x, i), Lists, L, x, i)
<1> DEFINE s == xl.ring[L]
           left == SubSeq(s, 1, i - 1)
           right == SubSeq(s, i, Len(s))
           t == left \o <<x>> \o right
<1>1. /\ s \in Seq(Items)
      /\ Len(s) \in Nat
      /\ \A j \in 1 .. Len(s) : s[j] \in Items
      /\ xl.index[L] \in Nat
  BY ElementOfSeq, LenProperties DEF ListsOK, XLists
<1>2. i \in Int /\ 1 <= i /\ i <= Len(s) + 1
  BY <1>1
<1>3. /\ left \in Seq(Items)
      /\ Len(left) = i - 1
      /\ \A j \in 1 .. i - 1 : left[j] = s[j]
  <2>1. \A j \in 1 .. i - 1 : s[j] \in Items
    BY <1>1, <1>2
  <2>2. /\ left \in Seq(Items)
        /\ Len(left) = IF 1 <= i - 1 THEN (i - 1) - 1 + 1 ELSE 0
        /\ \A j \in 1 .. (i - 1) - 1 + 1 : left[j] = s[1 + j - 1]
    BY <1>2, <2>1, SubSeqProperties, i - 1 \in Int
  <2>3. QED
    BY <2>2, <1>2, <1>1
<1>4. /\ right \in Seq(Items)
      /\ Len(right) = Len(s) - i + 1
      /\ \A j \in 1 .. Len(s) - i + 1 : right[j] = s[i + j - 1]
  <2>1. \A j \in i .. Len(s) : s[j] \in Items
    BY <1>1, <1>2
  <2>2. /\ right \in Seq(Items)
        /\ Len(right) = IF i <= Len(s) THEN Len(s) - i + 1 ELSE 0
        /\ \A j \in 1 .. Len(s) - i + 1 : right[j] = s[i + j - 1]
    BY <1>1, <1>2, <2>1, SubSeqProperties, Len(s) \in Int
  <2>3. QED
    BY <2>2, <1>2, <1>1
<1>5. <<x>> \in Seq(Items) /\ Len(<<x>>) = 1 /\ <<x>>[1] = x
  OBVIOUS
<1>6. /\ left \o <<x>> \in Seq(Items)
      /\ Len(left \o <<x>>) = i
      /\ \A j \in 1 .. i : (left \o <<x>>)[j] = IF j < i THEN s[j] ELSE x
  <2>1. /\ left \o <<x>> \in Seq(Items)
        /\ Len(left \o <<x>>) = Len(left) + Len(<<x>>)
        /\ \A j \in 1 .. Len(left) + Len(<<x>>) :
             (left \o <<x>>)[j] = IF j <= Len(left) THEN left[j]
                                  ELSE <<x>>[j - Len(left)]
    BY <1>3, <1>5, ConcatProperties
  <2> HIDE DEF left
  <2>2. QED
    BY <2>1, <1>2, <1>3, <1>5
<1>7. /\ t \in Seq(Items)
      /\ Len(t) = Len(s) + 1
      /\ \A j \in 1 .. Len(s) + 1 :
           t[j] = IF j < i THEN s[j] ELSE IF j = i THEN x ELSE s[j - 1]
  <2> DEFINE u == left \o <<x>>
  <2>1. /\ t \in Seq(Items)
        /\ Len(t) = Len(u) + Len(right)
        /\ \A j \in 1 .. Len(u) + Len(right) :
             t[j] = IF j <= Len(u) THEN u[j] ELSE right[j - Len(u)]
    BY <1>4, <1>6, ConcatProperties
  <2>2. Len(u) = i /\ \A j \in 1 .. i : u[j] = IF j < i THEN s[j] ELSE x
    BY <1>6
  <2> HIDE DEF left, right, u, t, s
  <2>3. Len(t) = Len(s) + 1
    BY <2>1, <2>2, <1>1, <1>2, <1>4
  <2>4. ASSUME NEW j \in 1 .. Len(s) + 1
        PROVE  t[j] = IF j < i THEN s[j] ELSE IF j = i THEN x ELSE s[j - 1]
    <3>1. CASE j <= i
      BY <3>1, <2>1, <2>2, <1>1, <1>2, <1>4
    <3>2. CASE i < j
      <4>1. j - i \in 1 .. Len(s) - i + 1
        BY <3>2, <1>1, <1>2
      <4>2. right[j - i] = s[j - 1]
        BY <4>1, <1>4, <1>2, i + (j - i) - 1 = j - 1
      <4>3. QED
        BY <3>2, <4>1, <4>2, <2>1, <2>2, <1>1, <1>2, <1>4
    <3>3. QED
      BY <3>1, <3>2, <1>1, <1>2
  <2>5. QED
    BY <2>1, <2>3, <2>4
<1>8. InsertAt(s, i, x) = t
  BY DEF InsertAt
<1> HIDE DEF t, left, right
<1>9. LinkAt(xl, L, x, i)
        = [ring      |-> [xl.ring EXCEPT ![L] = t],
           index     |-> [xl.index EXCEPT ![L] = IF i <= @ THEN @ + 1 ELSE @],
           container |-> [xl.container EXCEPT ![x] = L],
           value     |-> xl.value]
  BY <1>8, Zenon DEF LinkAt
<1>10. QED
  BY <1>9, <1>7, <1>1 DEF ListsOK, XLists, Linked

-----------------------------------------------------------------------------
\* yl is well formed and is xl with item x moved to L, or off its list when L
\* is Null; x is on no list before or on none after.
Moved(xl, yl, Lists, Items, x, L) ==
  /\ ListsOK(yl, Lists, Items)
  /\ yl.container = [xl.container EXCEPT ![x] = L]
  /\ yl.value = xl.value
  /\ \A M \in Lists \ {L, xl.container[x]} : yl.ring[M] = xl.ring[M]
  /\ L \in Lists => Len(yl.ring[L]) = Len(xl.ring[L]) + 1
  /\ xl.container[x] \in Lists =>
       Len(yl.ring[xl.container[x]]) = Len(xl.ring[xl.container[x]]) - 1

\* The result is well formed again, wherever in the ring the item goes.
LEMMA LinkAtKeeps ==
  ASSUME NEW Lists, NEW Items, Null \notin Lists,
         NEW xl, ListsOK(xl, Lists, Items),
         NEW L \in Lists, NEW x \in Items, xl.container[x] = Null,
         NEW i \in 1 .. Len(xl.ring[L]) + 1
  PROVE  Moved(xl, LinkAt(xl, L, x, i), Lists, Items, x, L)
<1> DEFINE yl == LinkAt(xl, L, x, i)
           n  == Len(xl.ring[L])
<1>1. /\ yl \in XLists(Lists, Items)
      /\ yl.container = [xl.container EXCEPT ![x] = L]
      /\ yl.value = xl.value
      /\ \A M \in Lists \ {L} :
           /\ yl.ring[M] = xl.ring[M]
           /\ yl.index[M] = xl.index[M]
      /\ yl.index[L] = IF i <= xl.index[L] THEN xl.index[L] + 1 ELSE xl.index[L]
      /\ Len(yl.ring[L]) = n + 1
      /\ \A j \in 1 .. n + 1 :
           yl.ring[L][j] = IF j < i THEN xl.ring[L][j]
                           ELSE IF j = i THEN x ELSE xl.ring[L][j - 1]
  <2>1. yl \in XLists(Lists, Items) /\ Linked(xl, yl, Lists, L, x, i)
    BY LinkAtType
  <2> HIDE DEF yl
  <2>2. QED
    BY <2>1 DEF Linked
<1>2. /\ n \in Nat /\ i \in Nat /\ 1 <= i /\ i <= n + 1
      /\ xl.container \in [Items -> Lists \cup {Null}]
      /\ xl.index[L] \in Nat /\ xl.index[L] <= n
  BY LenProperties DEF ListsOK, XLists, IndexInRing
<1>3. /\ \A M \in Lists, y \in Items :
           xl.container[y] = M <=> \E j \in 1 .. Len(xl.ring[M]) : xl.ring[M][j] = y
      /\ \A M \in Lists : \A j, k \in 1 .. Len(xl.ring[M]) :
           xl.ring[M][j] = xl.ring[M][k] => j = k
      /\ \A M \in Lists : xl.index[M] <= Len(xl.ring[M])
  BY DEF ListsOK, ContainersAgree, OnList, NoDuplicates, IndexInRing
<1>4. \A M \in Lists : \A j \in 1 .. Len(xl.ring[M]) : xl.ring[M][j] # x
  BY <1>3
<1> HIDE DEF yl, n
<1>5. ASSUME NEW M \in Lists, NEW y \in Items
      PROVE  yl.container[y] = M <=> \E j \in 1 .. Len(yl.ring[M]) : yl.ring[M][j] = y
  <2>1. CASE M # L
    <3>1. yl.container[y] = M <=> xl.container[y] = M
      BY <2>1, <1>1, <1>2
    <3>2. yl.ring[M] = xl.ring[M]
      BY <2>1, <1>1
    <3>3. QED
      BY <3>1, <3>2, <1>3
  <2>2. CASE M = L /\ y = x
    <3>1. yl.ring[L][i] = x /\ i \in 1 .. Len(yl.ring[L])
      BY <1>1, <1>2
    <3>2. QED
      BY <3>1, <2>2, <1>1, <1>2
  <2>3. CASE M = L /\ y # x
    <3>1. yl.container[y] = L <=> \E j \in 1 .. n : xl.ring[L][j] = y
      BY <2>3, <1>1, <1>2, <1>3 DEF n
    <3>2. ASSUME NEW j \in 1 .. n, xl.ring[L][j] = y
          PROVE  \E k \in 1 .. n + 1 : yl.ring[L][k] = y
      <4>1. CASE j < i
        <5>1. j \in 1 .. n + 1 /\ yl.ring[L][j] = y
          BY <3>2, <4>1, <1>1, <1>2
        <5>2. QED
          BY <5>1
      <4>2. CASE ~ (j < i)
        <5>1. j + 1 \in 1 .. n + 1 /\ ~ (j + 1 < i) /\ j + 1 # i /\ (j + 1) - 1 = j
          BY <4>2, <1>2
        <5>2. yl.ring[L][j + 1] = y
          BY <3>2, <5>1, <1>1
        <5>3. QED
          BY <5>1, <5>2
      <4>3. QED
        BY <4>1, <4>2
    <3>3. ASSUME NEW k \in 1 .. n + 1, yl.ring[L][k] = y
          PROVE  \E j \in 1 .. n : xl.ring[L][j] = y
      <4>1. CASE k < i
        <5>1. k \in 1 .. n
          BY <4>1, <1>2
        <5>2. yl.ring[L][k] = xl.ring[L][k]
          BY <4>1, <1>1
        <5>3. QED
          BY <3>3, <5>1, <5>2
      <4>2. CASE ~ (k < i)
        <5>1. k # i
          BY <3>3, <2>3, <4>2, <1>1
        <5>2. k - 1 \in 1 .. n
          BY <4>2, <5>1, <1>2
        <5>3. yl.ring[L][k] = xl.ring[L][k - 1]
          BY <4>2, <5>1, <1>1
        <5>4. QED
          BY <3>3, <5>2, <5>3
      <4>3. QED
        BY <4>1, <4>2
    <3>4. QED
      BY <2>3, <3>1, <3>2, <3>3, <1>1
  <2>4. QED
    BY <2>1, <2>2, <2>3
<1>6. ASSUME NEW M \in Lists, NEW j \in 1 .. Len(yl.ring[M]),
             NEW k \in 1 .. Len(yl.ring[M]), yl.ring[M][j] = yl.ring[M][k]
      PROVE  j = k
  <2>1. CASE M # L
    <3>1. yl.ring[M] = xl.ring[M]
      BY <2>1, <1>1
    <3>2. QED
      BY <3>1, <1>6, <1>3
  <2>2. CASE M = L
    <3>1. /\ j \in 1 .. n + 1 /\ k \in 1 .. n + 1
          /\ (IF j < i THEN xl.ring[L][j] ELSE IF j = i THEN x ELSE xl.ring[L][j - 1])
               = (IF k < i THEN xl.ring[L][k] ELSE IF k = i THEN x ELSE xl.ring[L][k - 1])
      BY <2>2, <1>6, <1>1
    <3>2. /\ \A a \in 1 .. n : xl.ring[L][a] # x
          /\ \A a, b \in 1 .. n : xl.ring[L][a] = xl.ring[L][b] => a = b
      BY <1>3, <1>4 DEF n
    <3>3. /\ j < i => j \in 1 .. n
          /\ ~ (j < i) /\ j # i => j - 1 \in 1 .. n
          /\ k < i => k \in 1 .. n
          /\ ~ (k < i) /\ k # i => k - 1 \in 1 .. n
      BY <3>1, <1>2
    <3>4. CASE j < i
      BY <3>1, <3>2, <3>3, <3>4, <1>2
    <3>5. CASE j = i
      BY <3>1, <3>2, <3>3, <3>5, <1>2
    <3>6. CASE ~ (j < i) /\ j # i
      <4>1. CASE k < i
        BY <3>1, <3>2, <3>3, <3>6, <4>1, <1>2
      <4>2. CASE k = i
        BY <3>1, <3>2, <3>3, <3>6, <4>2, <1>2
      <4>3. CASE ~ (k < i) /\ k # i
        <5>1. j - 1 = k - 1
          BY <3>1, <3>2, <3>3, <3>6, <4>3
        <5>2. QED
          BY <5>1, <3>1, <1>2
      <4>4. QED
        BY <4>1, <4>2, <4>3
    <3>7. QED
      BY <3>4, <3>5, <3>6
  <2>3. QED
    BY <2>1, <2>2
<1>7. ASSUME NEW M \in Lists PROVE yl.index[M] <= Len(yl.ring[M])
  <2>1. CASE M = L
    <3>1. Len(yl.ring[L]) = n + 1
      BY <1>1
    <3>2. yl.index[L] = IF i <= xl.index[L] THEN xl.index[L] + 1 ELSE xl.index[L]
      BY <1>1
    <3>3. yl.index[L] <= n + 1
      BY <3>2, <1>2
    <3>4. QED
      BY <2>1, <3>1, <3>3
  <2>2. CASE M # L
    <3>1. yl.index[M] = xl.index[M] /\ yl.ring[M] = xl.ring[M]
      BY <2>2, <1>1
    <3>2. xl.index[M] <= Len(xl.ring[M])
      BY <1>3
    <3>3. QED
      BY <3>1, <3>2
  <2>3. QED
    BY <2>1, <2>2
<1>8. ListsOK(yl, Lists, Items)
  BY <1>1, <1>5, <1>6, <1>7
     DEF ListsOK, ContainersAgree, OnList, NoDuplicates, IndexInRing
<1>9. Moved(xl, yl, Lists, Items, x, L)
  BY <1>1, <1>8 DEF Moved, n
<1>10. QED
  BY <1>9 DEF yl

\* pxIndex may be set to any node of the ring.
LEMMA SetIndexOK ==
  ASSUME NEW Lists, NEW Items, NEW yl, ListsOK(yl, Lists, Items),
         NEW L \in Lists, NEW i \in Nat, i <= Len(yl.ring[L])
  PROVE  /\ ListsOK([yl EXCEPT !.index[L] = i], Lists, Items)
         /\ [yl EXCEPT !.index[L] = i].ring = yl.ring
         /\ [yl EXCEPT !.index[L] = i].container = yl.container
         /\ [yl EXCEPT !.index[L] = i].value = yl.value
         /\ [yl EXCEPT !.index[L] = i].index = [yl.index EXCEPT ![L] = i]
<1> DEFINE zl == [yl EXCEPT !.index[L] = i]
<1>1. yl \in XLists(Lists, Items) /\ yl.index \in [Lists -> Nat]
  BY DEF ListsOK, XLists
<1>2. /\ zl.ring = yl.ring /\ zl.container = yl.container /\ zl.value = yl.value
      /\ zl.index = [yl.index EXCEPT ![L] = i]
      /\ zl \in XLists(Lists, Items)
  BY <1>1 DEF XLists
<1> HIDE DEF zl
<1>3. ContainersAgree(zl, Lists, Items) /\ NoDuplicates(zl, Lists)
  BY <1>2 DEF ListsOK, ContainersAgree, OnList, NoDuplicates
<1>4. IndexInRing(zl, Lists)
  BY <1>1, <1>2 DEF ListsOK, IndexInRing
<1>5. ListsOK(zl, Lists, Items)
  BY <1>2, <1>3, <1>4 DEF ListsOK
<1>6. QED
  BY <1>2, <1>5 DEF zl

\* Moving pxIndex to another member keeps a list state well formed.
LEMMA SetIndexKeeps ==
  ASSUME NEW Lists, NEW Items, NEW xl, NEW yl, NEW x, NEW M,
         Moved(xl, yl, Lists, Items, x, M),
         NEW L \in Lists, NEW i \in Nat, i <= Len(yl.ring[L])
  PROVE  Moved(xl, [yl EXCEPT !.index[L] = i], Lists, Items, x, M)
<1> DEFINE zl == [yl EXCEPT !.index[L] = i]
<1>1. ListsOK(yl, Lists, Items)
  BY DEF Moved
<1>2. /\ ListsOK(zl, Lists, Items) /\ zl.ring = yl.ring
      /\ zl.container = yl.container /\ zl.value = yl.value
  BY <1>1, SetIndexOK
<1> HIDE DEF zl
<1>3. Moved(xl, zl, Lists, Items, x, M)
  BY <1>2 DEF Moved
<1>4. QED
  BY <1>3 DEF zl

\* vListInsertEnd links the item in right after pxIndex.
LEMMA InsertEndKeeps ==
  ASSUME NEW Lists, NEW Items, Null \notin Lists,
         NEW xl, ListsOK(xl, Lists, Items),
         NEW L \in Lists, NEW x \in Items, xl.container[x] = Null
  PROVE  Moved(xl, vListInsertEnd(xl, L, x), Lists, Items, x, L)
<1> DEFINE i  == xl.index[L] + 1
           yl == LinkAt(xl, L, x, i)
<1>1. /\ Len(xl.ring[L]) \in Nat /\ xl.index[L] \in Nat
      /\ xl.index[L] <= Len(xl.ring[L])
      /\ \A M \in Lists : Len(xl.ring[M]) \in Nat
  BY LenProperties DEF ListsOK, XLists, IndexInRing
<1>2. i \in 1 .. Len(xl.ring[L]) + 1
  BY <1>1
<1>3. Moved(xl, yl, Lists, Items, x, L)
  BY <1>2, LinkAtKeeps
<1>4. vListInsertEnd(xl, L, x) = [yl EXCEPT !.index[L] = i]
  BY DEF vListInsertEnd
<1> HIDE DEF yl, i
<1>5. Len(yl.ring[L]) = Len(xl.ring[L]) + 1
  BY <1>3 DEF Moved
<1>6. i <= Len(yl.ring[L]) /\ i \in Nat
  BY <1>1, <1>2, <1>5
<1>7. Moved(xl, [yl EXCEPT !.index[L] = i], Lists, Items, x, L)
  BY <1>3, <1>6, SetIndexKeeps
<1>8. QED
  BY <1>4, <1>7, Zenon

\* The loop of vListInsert stops within the ring, so there is a first place
\* where it can stop.
LEMMA InsertPositionInRing ==
  ASSUME NEW Lists, NEW Items, NEW xl, ListsOK(xl, Lists, Items),
         NEW L \in Lists, NEW v
  PROVE  InsertPosition(xl, L, v) \in 1 .. Len(xl.ring[L]) + 1
<1> DEFINE n == Len(xl.ring[L])
           T == StopsFor(xl, L, v)
<1>1. n \in Nat
  BY LenProperties DEF ListsOK, XLists
<1>2. n + 1 \in T /\ T \subseteq 1 .. n + 1
  BY <1>1 DEF StopsFor
<1>3. \E i \in T : \A j \in T : i <= j
  <2>1. T \subseteq Nat /\ T # {}
    BY <1>1, <1>2
  <2> HIDE DEF T
  <2>2. PICK i \in T : \A j \in T : ~ (<<j, i>> \in OpToRel(<, Nat))
    BY <2>1, NatLessThanWellFounded, WFMin
  <2>3. \A j \in T : ~ (j < i)
    BY <2>1, <2>2 DEF OpToRel
  <2>4. QED
    BY <2>1, <2>3
<1>4. CASE v = portMAX_DELAY
  BY <1>1, <1>4 DEF InsertPosition
<1>5. CASE v # portMAX_DELAY
  <2>1. InsertPosition(xl, L, v) \in T
    BY <1>3, <1>5 DEF InsertPosition
  <2>2. QED
    BY <2>1, <1>2
<1>6. QED
  BY <1>4, <1>5

\* vListInsert, into a list in any order.
LEMMA InsertKeeps ==
  ASSUME NEW Lists, NEW Items, Null \notin Lists,
         NEW xl, ListsOK(xl, Lists, Items),
         NEW L \in Lists, NEW x \in Items, xl.container[x] = Null
  PROVE  Moved(xl, vListInsert(xl, L, x), Lists, Items, x, L)
<1> DEFINE i  == InsertPosition(xl, L, xl.value[x])
<1>1. i \in 1 .. Len(xl.ring[L]) + 1
  BY InsertPositionInRing
<1> HIDE DEF i
<1>2. Moved(xl, LinkAt(xl, L, x, i), Lists, Items, x, L)
  BY <1>1, LinkAtKeeps
<1>3. QED
  BY <1>2 DEF vListInsert, i

\* Where vListRemove finds an item, and a list's first and next item.
LEMMA PositionInRing ==
  ASSUME NEW Lists, NEW Items, NEW xl, ListsOK(xl, Lists, Items),
         NEW x \in Items, xl.container[x] \in Lists
  PROVE  /\ PositionOf(xl, xl.container[x], x) \in 1 .. Len(xl.ring[xl.container[x]])
         /\ xl.ring[xl.container[x]][PositionOf(xl, xl.container[x], x)] = x
<1> DEFINE L == xl.container[x]
<1>1. \E i \in 1 .. Len(xl.ring[L]) : xl.ring[L][i] = x
  BY DEF ListsOK, ContainersAgree, OnList
<1> HIDE DEF L
<1>2. /\ PositionOf(xl, L, x) \in 1 .. Len(xl.ring[L])
      /\ xl.ring[L][PositionOf(xl, L, x)] = x
  BY <1>1 DEF PositionOf
<1>3. QED
  BY <1>2 DEF L

\* The members of a ring are items with that container.
LEMMA RingItem ==
  ASSUME NEW Lists, NEW Items, NEW xl, ListsOK(xl, Lists, Items),
         NEW L \in Lists, NEW i \in 1 .. Len(xl.ring[L])
  PROVE  xl.ring[L][i] \in Items /\ xl.container[xl.ring[L][i]] = L
<1>1. xl.ring[L] \in Seq(Items)
  BY DEF ListsOK, XLists
<1>2. xl.ring[L][i] \in Items
  BY <1>1, ElementOfSeq
<1>3. OnList(xl, L, xl.ring[L][i])
  BY DEF OnList
<1>4. QED
  BY <1>2, <1>3 DEF ListsOK, ContainersAgree

\* A list is empty exactly if its ring has no member.
LEMMA NotEmpty ==
  ASSUME NEW Lists, NEW Items, NEW xl, ListsOK(xl, Lists, Items),
         NEW L \in Lists
  PROVE  /\ Len(xl.ring[L]) \in Nat
         /\ listLIST_IS_EMPTY(xl, L) <=> Len(xl.ring[L]) = 0
         /\ \A x \in Items : xl.container[x] = L => ~ listLIST_IS_EMPTY(xl, L)
<1>1. xl.ring[L] \in Seq(Items)
  BY DEF ListsOK, XLists
<1>2. Len(xl.ring[L]) \in Nat /\ (xl.ring[L] = << >> <=> Len(xl.ring[L]) = 0)
  BY <1>1, LenProperties, EmptySeq
<1>3. ASSUME NEW x \in Items, xl.container[x] = L PROVE Len(xl.ring[L]) # 0
  <2>1. PICK i \in 1 .. Len(xl.ring[L]) : xl.ring[L][i] = x
    BY <1>3 DEF ListsOK, ContainersAgree, OnList
  <2>2. QED
    BY <2>1, <1>2
<1>4. QED
  BY <1>2, <1>3 DEF listLIST_IS_EMPTY

\* listGET_OWNER_OF_HEAD_ENTRY and listGET_OWNER_OF_NEXT_ENTRY return an item
\* of the list; the latter changes nothing but pxIndex.
LEMMA HeadOnList ==
  ASSUME NEW Lists, NEW Items, NEW xl, ListsOK(xl, Lists, Items),
         NEW L \in Lists, ~ listLIST_IS_EMPTY(xl, L)
  PROVE  HeadItem(xl, L) \in Items /\ xl.container[HeadItem(xl, L)] = L
<1>1. 1 \in 1 .. Len(xl.ring[L])
  BY NotEmpty
<1>2. QED
  BY <1>1, RingItem DEF HeadItem

\* yl has the same rings and containers as xl.
SameLists(xl, yl, Lists, Items) ==
  ListsOK(yl, Lists, Items) /\ yl.ring = xl.ring /\ yl.container = xl.container

\* listGET_OWNER_OF_NEXT_ENTRY moves pxIndex alone.
LEMMA AdvanceKeeps ==
  ASSUME NEW Lists, NEW Items, NEW xl, ListsOK(xl, Lists, Items),
         NEW L \in Lists, ~ listLIST_IS_EMPTY(xl, L)
  PROVE  /\ SameLists(xl, AdvanceIndex(xl, L), Lists, Items)
         /\ ItemAtIndex(AdvanceIndex(xl, L), L) \in Items
         /\ xl.container[ItemAtIndex(AdvanceIndex(xl, L), L)] = L
<1> DEFINE i  == IF xl.index[L] = Len(xl.ring[L]) THEN 1 ELSE xl.index[L] + 1
           zl == [xl EXCEPT !.index[L] = i]
<1>1. /\ Len(xl.ring[L]) \in Nat \ {0} /\ xl.index[L] \in Nat
      /\ xl.index[L] <= Len(xl.ring[L]) /\ xl.index \in [Lists -> Nat]
  BY NotEmpty DEF ListsOK, XLists, IndexInRing
<1>2. i \in 1 .. Len(xl.ring[L]) /\ i \in Nat /\ i <= Len(xl.ring[L])
  BY <1>1
<1>3. AdvanceIndex(xl, L) = zl
  BY DEF AdvanceIndex
<1> HIDE DEF i
<1>4. /\ ListsOK(zl, Lists, Items) /\ zl.ring = xl.ring
      /\ zl.container = xl.container /\ zl.value = xl.value
      /\ zl.index = [xl.index EXCEPT ![L] = i]
  BY <1>2, SetIndexOK
<1> HIDE DEF zl
<1>5. ItemAtIndex(zl, L) = xl.ring[L][i]
  BY <1>1, <1>4 DEF ItemAtIndex
<1>6. SameLists(xl, zl, Lists, Items)
  BY <1>4 DEF SameLists
<1>7. QED
  BY <1>2, <1>3, <1>5, <1>6, RingItem

\* Setting an item value keeps a list state well formed.
LEMMA SetValueKeeps ==
  ASSUME NEW Lists, NEW Items, NEW xl, ListsOK(xl, Lists, Items),
         NEW x \in Items, NEW v \in TickType
  PROVE  SameLists(xl, listSET_LIST_ITEM_VALUE(xl, x, v), Lists, Items)
<1> DEFINE zl == listSET_LIST_ITEM_VALUE(xl, x, v)
<1>1. xl \in XLists(Lists, Items) /\ xl.value \in [Items -> TickType]
  BY DEF ListsOK, XLists
<1>2. /\ zl.ring = xl.ring /\ zl.container = xl.container /\ zl.index = xl.index
      /\ zl.value = [xl.value EXCEPT ![x] = v]
      /\ zl \in XLists(Lists, Items)
  BY <1>1 DEF XLists, listSET_LIST_ITEM_VALUE
<1> HIDE DEF zl
<1>3. ListsOK(zl, Lists, Items)
  BY <1>2 DEF ListsOK, ContainersAgree, OnList, NoDuplicates, IndexInRing
<1>4. SameLists(xl, zl, Lists, Items)
  BY <1>2, <1>3 DEF SameLists
<1>5. QED
  BY <1>4 DEF zl

\* Freshly initialised lists are well formed and empty.
LEMMA InitialListsOK ==
  ASSUME NEW Lists, NEW Items, Null \notin Lists
  PROVE  /\ ListsOK(vListInitialise(Lists, Items), Lists, Items)
         /\ \A x \in Items : vListInitialise(Lists, Items).container[x] = Null
         /\ \A L \in Lists : vListInitialise(Lists, Items).ring[L] = << >>
<1> DEFINE zl == vListInitialise(Lists, Items)
<1>1. << >> \in Seq(Items) /\ Len(<< >>) = 0
  BY EmptySeq
<1>2. /\ zl.ring = [L \in Lists |-> << >>] /\ zl.index = [L \in Lists |-> 0]
      /\ zl.container = [x \in Items |-> Null]
      /\ zl \in XLists(Lists, Items)
  BY <1>1, MaxDelayAssumption DEF vListInitialise, XLists, TickType
<1> HIDE DEF zl
<1>3. ListsOK(zl, Lists, Items)
  BY <1>1, <1>2 DEF ListsOK, ContainersAgree, OnList, NoDuplicates, IndexInRing
<1>4. QED
  BY <1>2, <1>3 DEF zl

\* What is left of a sequence without its i-th element.
LEMMA RemoveAtProperties ==
  ASSUME NEW S, NEW s \in Seq(S), NEW i \in 1 .. Len(s)
  PROVE  /\ RemoveAt(s, i) \in Seq(S)
         /\ Len(RemoveAt(s, i)) = Len(s) - 1
         /\ \A j \in 1 .. Len(s) - 1 :
              RemoveAt(s, i)[j] = IF j < i THEN s[j] ELSE s[j + 1]
<1> DEFINE left  == SubSeq(s, 1, i - 1)
           right == SubSeq(s, i + 1, Len(s))
           t     == left \o right
<1>1. /\ Len(s) \in Nat /\ \A j \in 1 .. Len(s) : s[j] \in S
      /\ i \in Int /\ 1 <= i /\ i <= Len(s)
  BY ElementOfSeq, LenProperties
<1>2. /\ left \in Seq(S) /\ Len(left) = i - 1
      /\ \A j \in 1 .. i - 1 : left[j] = s[j]
  <2>1. \A j \in 1 .. i - 1 : s[j] \in S
    BY <1>1
  <2>2. /\ left \in Seq(S)
        /\ Len(left) = IF 1 <= i - 1 THEN (i - 1) - 1 + 1 ELSE 0
        /\ \A j \in 1 .. (i - 1) - 1 + 1 : left[j] = s[1 + j - 1]
    BY <1>1, <2>1, SubSeqProperties, i - 1 \in Int
  <2>3. QED
    BY <2>2, <1>1
<1>3. /\ right \in Seq(S) /\ Len(right) = Len(s) - i
      /\ \A j \in 1 .. Len(s) - i : right[j] = s[i + j]
  <2>1. \A j \in i + 1 .. Len(s) : s[j] \in S
    BY <1>1
  <2>2. /\ right \in Seq(S)
        /\ Len(right) = IF i + 1 <= Len(s) THEN Len(s) - (i + 1) + 1 ELSE 0
        /\ \A j \in 1 .. Len(s) - (i + 1) + 1 : right[j] = s[i + 1 + j - 1]
    BY <1>1, <2>1, SubSeqProperties, i + 1 \in Int, Len(s) \in Int
  <2>3. QED
    BY <2>2, <1>1
<1>4. /\ t \in Seq(S) /\ Len(t) = Len(left) + Len(right)
      /\ \A j \in 1 .. Len(left) + Len(right) :
           t[j] = IF j <= Len(left) THEN left[j] ELSE right[j - Len(left)]
  BY <1>2, <1>3, ConcatProperties
<1> HIDE DEF left, right, t
<1>5. ASSUME NEW j \in 1 .. Len(s) - 1
      PROVE  t[j] = IF j < i THEN s[j] ELSE s[j + 1]
  <2>1. CASE j < i
    BY <2>1, <1>1, <1>2, <1>3, <1>4
  <2>2. CASE ~ (j < i)
    <3>1. j - (i - 1) \in 1 .. Len(s) - i /\ i + (j - (i - 1)) = j + 1
      BY <2>2, <1>1
    <3>2. t[j] = right[j - (i - 1)]
      <4>1. j \in 1 .. Len(left) + Len(right) /\ ~ (j <= Len(left))
        BY <2>2, <1>1, <1>2, <1>3
      <4>2. QED
        BY <4>1, <1>2, <1>4
    <3>3. QED
      BY <2>2, <3>1, <3>2, <1>3
  <2>3. QED
    BY <2>1, <2>2
<1>6. t \in Seq(S) /\ Len(t) = Len(s) - 1
  BY <1>1, <1>2, <1>3, <1>4
<1>7. RemoveAt(s, i) = t
  BY DEF RemoveAt, t, left, right
<1>8. QED
  BY <1>5, <1>6, <1>7

\* vListRemove keeps a list state well formed.
LEMMA RemoveKeeps ==
  ASSUME NEW Lists, NEW Items, Null \notin Lists,
         NEW xl, ListsOK(xl, Lists, Items),
         NEW x \in Items, xl.container[x] \in Lists
  PROVE  Moved(xl, vListRemove(xl, x), Lists, Items, x, Null)
<1> DEFINE L  == xl.container[x]
           n  == Len(xl.ring[L])
           i  == PositionOf(xl, L, x)
           t  == RemoveAt(xl.ring[L], i)
           yl == vListRemove(xl, x)
<1>1. i \in 1 .. n /\ xl.ring[L][i] = x
  BY PositionInRing
<1>2. /\ xl.ring[L] \in Seq(Items) /\ n \in Nat
      /\ xl.ring \in [Lists -> Seq(Items)] /\ xl.index \in [Lists -> Nat]
      /\ xl.container \in [Items -> Lists \cup {Null}]
      /\ xl.value \in [Items -> TickType]
      /\ xl.index[L] <= n
  BY LenProperties DEF ListsOK, XLists, IndexInRing
<1> HIDE DEF i
<1>3. /\ t \in Seq(Items) /\ Len(t) = n - 1
      /\ \A j \in 1 .. n - 1 : t[j] = IF j < i THEN xl.ring[L][j] ELSE xl.ring[L][j + 1]
  BY <1>1, <1>2, RemoveAtProperties
<1>4. yl = [ring      |-> [xl.ring EXCEPT ![L] = t],
            index     |-> [xl.index EXCEPT ![L] = IF i <= @ THEN @ - 1 ELSE @],
            container |-> [xl.container EXCEPT ![x] = Null],
            value     |-> xl.value]
  BY Zenon DEF vListRemove, i
<1>5. /\ \A M \in Lists : xl.container[x] = M <=> M = L
      /\ \A M \in Lists, y \in Items :
           xl.container[y] = M <=> \E j \in 1 .. Len(xl.ring[M]) : xl.ring[M][j] = y
      /\ \A M \in Lists : \A j, k \in 1 .. Len(xl.ring[M]) :
           xl.ring[M][j] = xl.ring[M][k] => j = k
      /\ \A M \in Lists : xl.index[M] <= Len(xl.ring[M])
  BY DEF ListsOK, ContainersAgree, OnList, NoDuplicates, IndexInRing
<1>6. L \in Lists /\ i \in Nat /\ 1 <= i /\ i <= n
  BY <1>1, <1>2
<1>7. /\ \A M \in Lists \ {L} : yl.ring[M] = xl.ring[M] /\ yl.index[M] = xl.index[M]
      /\ yl.ring[L] = t /\ yl.container = [xl.container EXCEPT ![x] = Null]
      /\ yl.value = xl.value
      /\ yl.index[L] = IF i <= xl.index[L] THEN xl.index[L] - 1 ELSE xl.index[L]
  BY <1>2, <1>4, <1>6
<1>8. yl \in XLists(Lists, Items)
  <2>1. (IF i <= xl.index[L] THEN xl.index[L] - 1 ELSE xl.index[L]) \in Nat
    BY <1>2, <1>6
  <2> HIDE DEF t, n
  <2>2. QED
    BY <2>1, <1>2, <1>3, <1>4, <1>6 DEF XLists
<1>9. /\ \A j \in 1 .. n : xl.ring[L][j] = x <=> j = i
  BY <1>1, <1>5, <1>6
<1> DEFINE s == xl.ring[L]
<1> HIDE DEF yl, t, n, s
<1>10. ASSUME NEW M \in Lists, NEW y \in Items
       PROVE  yl.container[y] = M <=> \E j \in 1 .. Len(yl.ring[M]) : yl.ring[M][j] = y
  <2>1. CASE M # L
    <3>1. yl.container[y] = M <=> xl.container[y] = M
      BY <2>1, <1>2, <1>5, <1>7
    <3>2. yl.ring[M] = xl.ring[M]
      BY <2>1, <1>7
    <3>3. QED
      BY <3>1, <3>2, <1>5
  <2>2. CASE M = L /\ y = x
    <3>1. yl.container[y] # M
      BY <2>2, <1>2, <1>7
    <3>2. ASSUME NEW j \in 1 .. n - 1 PROVE t[j] # x
      <4>1. CASE j < i
        <5>1. j \in 1 .. n /\ j # i
          BY <4>1, <1>6, <1>2
        <5>2. QED
          BY <4>1, <5>1, <1>3, <1>9
      <4>2. CASE ~ (j < i)
        <5>1. j + 1 \in 1 .. n /\ j + 1 # i
          BY <4>2, <1>6, <1>2
        <5>2. QED
          BY <4>2, <5>1, <1>3, <1>9
      <4>3. QED
        BY <4>1, <4>2
    <3>3. QED
      BY <2>2, <3>1, <3>2, <1>3, <1>7
  <2>3. CASE M = L /\ y # x
    <3>1. yl.container[y] = L <=> \E j \in 1 .. n : s[j] = y
      BY <2>3, <1>2, <1>5, <1>6, <1>7 DEF n, s
    <3>2. ASSUME NEW j \in 1 .. n, s[j] = y
          PROVE  \E k \in 1 .. n - 1 : t[k] = y
      <4>1. j # i
        BY <3>2, <2>3, <1>1 DEF s
      <4>2. CASE j < i
        <5>1. j \in 1 .. n - 1 /\ t[j] = s[j]
          <6>1. j \in 1 .. n - 1
            BY <4>2, <1>2, <1>6
          <6>2. QED
            BY <6>1, <4>2, <1>3 DEF s
        <5>2. QED
          BY <5>1, <3>2
      <4>3. CASE ~ (j < i)
        <5>1. j - 1 \in 1 .. n - 1 /\ ~ (j - 1 < i) /\ (j - 1) + 1 = j
          BY <4>1, <4>3, <1>2, <1>6
        <5>2. t[j - 1] = s[j]
          BY <5>1, <1>3 DEF s
        <5>3. QED
          BY <5>1, <5>2, <3>2
      <4>4. QED
        BY <4>2, <4>3
    <3>3. ASSUME NEW k \in 1 .. n - 1, t[k] = y
          PROVE  \E j \in 1 .. n : s[j] = y
      <4>1. k \in 1 .. n /\ k + 1 \in 1 .. n
        BY <1>2
      <4>2. t[k] = s[k] \/ t[k] = s[k + 1]
        BY <1>3 DEF s
      <4>3. QED
        BY <4>1, <4>2, <3>3
    <3>4. QED
      BY <2>3, <3>1, <3>2, <3>3, <1>3, <1>7
  <2>4. QED
    BY <2>1, <2>2, <2>3
<1>11. ASSUME NEW M \in Lists, NEW j \in 1 .. Len(yl.ring[M]),
              NEW k \in 1 .. Len(yl.ring[M]), yl.ring[M][j] = yl.ring[M][k]
       PROVE  j = k
  <2>1. CASE M # L
    <3>1. yl.ring[M] = xl.ring[M]
      BY <2>1, <1>7
    <3>2. QED
      BY <3>1, <1>11, <1>5
  <2>2. CASE M = L
    <3>1. j \in 1 .. n - 1 /\ k \in 1 .. n - 1 /\ t[j] = t[k]
      BY <2>2, <1>3, <1>7, <1>11
    <3>2. \A a, b \in 1 .. n : s[a] = s[b] => a = b
      BY <1>5, <1>6 DEF s, n
    <3>3. /\ j \in 1 .. n /\ j + 1 \in 1 .. n /\ k \in 1 .. n /\ k + 1 \in 1 .. n
      BY <3>1, <1>2
    <3>4. /\ t[j] = IF j < i THEN s[j] ELSE s[j + 1]
          /\ t[k] = IF k < i THEN s[k] ELSE s[k + 1]
      BY <3>1, <1>3 DEF s
    <3>5. CASE j < i /\ k < i
      BY <3>1, <3>2, <3>3, <3>4, <3>5
    <3>6. CASE j < i /\ ~ (k < i)
      <4>1. j = k + 1
        BY <3>1, <3>2, <3>3, <3>4, <3>6
      <4>2. QED
        BY <4>1, <3>6, <3>1, <1>6
    <3>7. CASE ~ (j < i) /\ k < i
      <4>1. j + 1 = k
        BY <3>1, <3>2, <3>3, <3>4, <3>7
      <4>2. QED
        BY <4>1, <3>7, <3>1, <1>6
    <3>8. CASE ~ (j < i) /\ ~ (k < i)
      <4>1. j + 1 = k + 1
        BY <3>1, <3>2, <3>3, <3>4, <3>8
      <4>2. QED
        BY <4>1, <3>1
    <3>9. QED
      BY <3>5, <3>6, <3>7, <3>8
  <2>3. QED
    BY <2>1, <2>2
<1>12. ASSUME NEW M \in Lists PROVE yl.index[M] <= Len(yl.ring[M])
  <2>1. CASE M = L
    <3>1. /\ xl.index[L] \in Nat /\ xl.index[L] <= n /\ n \in Nat
          /\ i \in Nat /\ 1 <= i /\ i <= n
      BY <1>2, <1>6
    <3>2. yl.index[L] = IF i <= xl.index[L] THEN xl.index[L] - 1 ELSE xl.index[L]
      BY <1>7
    <3>3. yl.index[L] <= n - 1
      BY <3>1, <3>2
    <3>4. Len(yl.ring[L]) = n - 1
      BY <1>3, <1>7
    <3>5. QED
      BY <2>1, <3>3, <3>4
  <2>2. CASE M # L
    <3>1. yl.index[M] = xl.index[M] /\ yl.ring[M] = xl.ring[M]
      BY <2>2, <1>7
    <3>2. xl.index[M] <= Len(xl.ring[M])
      BY <1>5
    <3>3. QED
      BY <3>1, <3>2
  <2>3. QED
    BY <2>1, <2>2
<1>13. ListsOK(yl, Lists, Items)
  BY <1>8, <1>10, <1>11, <1>12
     DEF ListsOK, ContainersAgree, OnList, NoDuplicates, IndexInRing
<1>14. Moved(xl, yl, Lists, Items, x, Null)
  BY <1>3, <1>7, <1>13 DEF Moved, n
<1>15. QED
  BY <1>14 DEF yl

-----------------------------------------------------------------------------
(* Order by value                                                          *)

\* A non-empty set of numbers has a smallest one.
LEMMA SmallestExists ==
  ASSUME NEW T, T \subseteq Nat, T # {}
  PROVE  \E i \in T : \A j \in T : i <= j
<1>1. PICK i \in T : \A j \in T : ~ (<<j, i>> \in OpToRel(<, Nat))
  BY NatLessThanWellFounded, WFMin
<1>2. \A j \in T : ~ (j < i)
  BY <1>1 DEF OpToRel
<1>3. QED
  BY <1>2

\* yl's ring of L is xl's without item x.
Without(xl, yl, L, x) ==
  \E i \in 1 .. Len(xl.ring[L]) :
    /\ xl.ring[L][i] = x /\ Len(yl.ring[L]) = Len(xl.ring[L]) - 1
    /\ \A j \in 1 .. Len(xl.ring[L]) - 1 :
         yl.ring[L][j] = IF j < i THEN xl.ring[L][j] ELSE xl.ring[L][j + 1]

\* What vListRemove leaves of the ring an item is on.
LEMMA RemoveRing ==
  ASSUME NEW Lists, NEW Items, NEW xl, ListsOK(xl, Lists, Items),
         NEW x \in Items, xl.container[x] \in Lists
  PROVE  Without(xl, vListRemove(xl, x), xl.container[x], x)
<1> SUFFICES ASSUME NEW L, L = xl.container[x],
                    NEW yl, yl = vListRemove(xl, x)
             PROVE  Without(xl, yl, L, x)
  OBVIOUS
<1> DEFINE i == PositionOf(xl, L, x)
           t == RemoveAt(xl.ring[L], i)
<1>1. i \in 1 .. Len(xl.ring[L]) /\ xl.ring[L][i] = x
  BY PositionInRing
<1>2. /\ xl.ring[L] \in Seq(Items) /\ xl.ring \in [Lists -> Seq(Items)]
  BY DEF ListsOK, XLists
<1> HIDE DEF i
<1>3. /\ Len(t) = Len(xl.ring[L]) - 1
      /\ \A j \in 1 .. Len(xl.ring[L]) - 1 :
           t[j] = IF j < i THEN xl.ring[L][j] ELSE xl.ring[L][j + 1]
  BY <1>1, <1>2, RemoveAtProperties
<1>4. yl.ring = [xl.ring EXCEPT ![L] = t]
  BY DEF vListRemove, i
<1> HIDE DEF t
<1>5. yl.ring[L] = t
  BY <1>2, <1>4
<1>6. QED
  BY <1>1, <1>3, <1>5 DEF Without

\* A list without one of its items is still in order.
LEMMA RemoveSorted ==
  ASSUME NEW Lists, NEW Items, Null \notin Lists,
         NEW xl, ListsOK(xl, Lists, Items),
         NEW x \in Items, xl.container[x] \in Lists,
         NEW L \in Lists, SortedByValue(xl, L)
  PROVE  SortedByValue(vListRemove(xl, x), L)
<1> SUFFICES ASSUME NEW yl, yl = vListRemove(xl, x)
             PROVE  SortedByValue(yl, L)
  OBVIOUS
<1>1. Moved(xl, yl, Lists, Items, x, Null)
  BY RemoveKeeps
<1>2. yl.value = xl.value /\ xl.value \in [Items -> TickType]
  BY <1>1 DEF Moved, ListsOK, XLists
<1>3. CASE L # xl.container[x]
  BY <1>1, <1>2, <1>3 DEF Moved, SortedByValue
<1>4. CASE L = xl.container[x]
  <2>0. Without(xl, yl, L, x)
    BY <1>4, RemoveRing
  <2>1. PICK i \in 1 .. Len(xl.ring[L]) :
          /\ Len(yl.ring[L]) = Len(xl.ring[L]) - 1
          /\ \A j \in 1 .. Len(xl.ring[L]) - 1 :
               yl.ring[L][j] = IF j < i THEN xl.ring[L][j] ELSE xl.ring[L][j + 1]
    BY <2>0 DEF Without
  <2> DEFINE n == Len(xl.ring[L])
             at(k) == IF k < i THEN k ELSE k + 1
  <2>2. n \in Nat
    BY NotEmpty
  <2>3. ASSUME NEW j \in 1 .. n - 1, NEW k \in 1 .. n - 1, j < k
        PROVE  yl.value[yl.ring[L][j]] <= yl.value[yl.ring[L][k]]
    <3>1. /\ at(j) \in 1 .. n /\ at(k) \in 1 .. n /\ at(j) < at(k)
      BY <2>2, <2>3
    <3>2. xl.value[xl.ring[L][at(j)]] <= xl.value[xl.ring[L][at(k)]]
      BY <3>1 DEF SortedByValue
    <3>3. yl.ring[L][j] = xl.ring[L][at(j)] /\ yl.ring[L][k] = xl.ring[L][at(k)]
      BY <2>1, <2>3
    <3>4. QED
      BY <1>2, <3>2, <3>3
  <2>4. QED
    BY <2>1, <2>3 DEF SortedByValue
<1>5. QED
  BY <1>3, <1>4

\* The loop of vListInsert stops where the item belongs.
LEMMA InsertSorted ==
  ASSUME NEW Lists, NEW Items, Null \notin Lists,
         NEW xl, ListsOK(xl, Lists, Items),
         NEW L \in Lists, NEW x \in Items, xl.container[x] = Null,
         SortedByValue(xl, L)
  PROVE  SortedByValue(vListInsert(xl, L, x), L)
<1> DEFINE v  == xl.value[x]
           n  == Len(xl.ring[L])
           i  == InsertPosition(xl, L, v)
           yl == LinkAt(xl, L, x, i)
           s  == xl.ring[L]
<1>1. /\ xl.value \in [Items -> TickType] /\ v \in TickType /\ n \in Nat
      /\ \A j \in 1 .. n : s[j] \in Items
  BY RingItem, NotEmpty DEF ListsOK, XLists
<1>2. i \in 1 .. n + 1
  BY InsertPositionInRing
<1>a. /\ portMAX_DELAY \in Nat /\ n \in Nat /\ v \in Nat
      /\ \A j \in 1 .. n : /\ xl.value[s[j]] \in Nat
                            /\ xl.value[s[j]] <= portMAX_DELAY
  <2>1. \A w \in TickType : w \in Nat /\ w <= portMAX_DELAY
    BY MaxDelayAssumption DEF TickType
  <2>2. \A j \in 1 .. n : xl.value[s[j]] \in TickType
    BY <1>1
  <2>3. QED
    BY <1>1, <2>1, <2>2, MaxDelayAssumption
<1>3. /\ \A j \in 1 .. n : j < i => xl.value[s[j]] <= v
      /\ \A j \in 1 .. n : j >= i => v <= xl.value[s[j]]
  <2> HIDE DEF v
  <2>1. CASE v = portMAX_DELAY
    <3>1. i = n + 1
      BY <2>1 DEF InsertPosition
    <3> HIDE DEF i
    <3>2. ASSUME NEW j \in 1 .. n
          PROVE  ~ (j >= i) /\ xl.value[s[j]] <= v
      BY <1>a, <2>1, <3>1
    <3>3. QED
      BY <3>2
  <2>2. CASE v # portMAX_DELAY
    <3> DEFINE T == StopsFor(xl, L, v)
    <3>1. /\ T \subseteq 1 .. n + 1
          /\ \A j \in 1 .. n : j \in T <=> v < xl.value[s[j]]
          /\ n + 1 \in T
      <4>1. n + 1 \in 1 .. n + 1 /\ \A j \in 1 .. n : j \in 1 .. n + 1 /\ j <= n
        BY <1>1
      <4>2. QED
        BY <1>1, <4>1 DEF StopsFor
    <3>2. i = CHOOSE k \in T : \A j \in T : k <= j
      BY <2>2 DEF InsertPosition
    <3> HIDE DEF T, i
    <3>3. \E k \in T : \A j \in T : k <= j
      <4>1. T \subseteq Nat /\ T # {}
        BY <1>a, <3>1
      <4>2. QED
        BY <4>1, SmallestExists
    <3>4. i \in T /\ \A j \in T : i <= j
      BY <3>2, <3>3
    <3>5. ASSUME NEW j \in 1 .. n, j < i
          PROVE  xl.value[s[j]] <= v
      <4>1. i \in 1 .. n + 1 /\ ~ (i <= j)
        BY <1>a, <1>2, <3>5
      <4>2. ~ (v < xl.value[s[j]])
        BY <3>1, <3>4, <4>1
      <4>3. QED
        BY <1>a, <4>2
    <3>6. ASSUME NEW j \in 1 .. n, j >= i
          PROVE  v <= xl.value[s[j]]
      <4>1. i \in 1 .. n /\ v < xl.value[s[i]]
        BY <1>1, <1>2, <3>1, <3>4, <3>6
      <4>2. i < j => xl.value[s[i]] <= xl.value[s[j]]
        BY <3>6, <4>1 DEF SortedByValue
      <4>3. i = j \/ i < j
        BY <3>6, <4>1
      <4>4. QED
        BY <1>a, <4>1, <4>2, <4>3
    <3>7. QED
      BY <3>5, <3>6
  <2>3. QED
    BY <2>1, <2>2
<1> HIDE DEF i
<1>4. Linked(xl, yl, Lists, L, x, i)
  BY <1>2, LinkAtType
<1> HIDE DEF yl
<1>5. /\ yl.value = xl.value /\ Len(yl.ring[L]) = n + 1
      /\ \A j \in 1 .. n + 1 :
           yl.ring[L][j] = IF j < i THEN s[j] ELSE IF j = i THEN x ELSE s[j - 1]
  BY <1>4 DEF Linked
<1>6. ASSUME NEW j \in 1 .. n + 1, NEW k \in 1 .. n + 1, j < k
      PROVE  xl.value[yl.ring[L][j]] <= xl.value[yl.ring[L][k]]
  <2>1. CASE k < i
    <3>1. yl.ring[L][j] = s[j] /\ yl.ring[L][k] = s[k] /\ j \in 1 .. n /\ k \in 1 .. n
      BY <1>1, <1>2, <1>5, <1>6, <2>1
    <3>2. QED
      BY <1>6, <3>1 DEF SortedByValue
  <2>2. CASE j < i /\ k = i
    <3>1. yl.ring[L][j] = s[j] /\ yl.ring[L][k] = x /\ j \in 1 .. n
      BY <1>1, <1>2, <1>5, <1>6, <2>2
    <3>2. QED
      BY <1>3, <2>2, <3>1
  <2>3. CASE j < i /\ k > i
    <3>1. /\ yl.ring[L][j] = s[j] /\ yl.ring[L][k] = s[k - 1]
          /\ j \in 1 .. n /\ k - 1 \in 1 .. n /\ j < k - 1
      BY <1>1, <1>2, <1>5, <1>6, <2>3
    <3>2. QED
      BY <3>1 DEF SortedByValue
  <2>4. CASE j = i
    <3>1. /\ yl.ring[L][j] = x /\ yl.ring[L][k] = s[k - 1]
          /\ k - 1 \in 1 .. n /\ k - 1 >= i
      BY <1>1, <1>2, <1>5, <1>6, <2>4
    <3>2. QED
      BY <1>3, <3>1
  <2>5. CASE j > i
    <3>1. /\ yl.ring[L][j] = s[j - 1] /\ yl.ring[L][k] = s[k - 1]
          /\ j - 1 \in 1 .. n /\ k - 1 \in 1 .. n /\ j - 1 < k - 1
      BY <1>1, <1>2, <1>5, <1>6, <2>5
    <3>2. QED
      BY <3>1 DEF SortedByValue
  <2>6. QED
    BY <1>2, <1>6, <2>1, <2>2, <2>3, <2>4, <2>5
<1>7. SortedByValue(yl, L)
  BY <1>5, <1>6 DEF SortedByValue
<1>8. QED
  BY <1>7 DEF vListInsert, yl, i
=============================================================================
