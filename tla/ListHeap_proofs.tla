-------------------------- MODULE ListHeap_proofs --------------------------
(***************************************************************************)
(* Every list stays a well-formed ring, whatever the order of the calls    *)
(* and of the interrupts that run inside an ordered insertion, and the     *)
(* pointer manipulations implement the list calls of XListSpec.            *)
(***************************************************************************)
EXTENDS ListHeap, FiniteSetTheorems, SequenceTheorems, TLAPS

-----------------------------------------------------------------------------
(* Rings, as facts about pointer functions: nxt, prv and containers c.     *)

In(c, L, n) == n = L \/ (n \in Items /\ c[n] = L)

Links(nxt, prv, c) ==
  \A L \in Lists, n \in Nodes :
    In(c, L, n) =>
      /\ In(c, L, nxt[n]) /\ prv[nxt[n]] = n
      /\ In(c, L, prv[n]) /\ nxt[prv[n]] = n

\* The pointers after item x is linked in after node n, and after x is
\* unlinked.
NextLinked(nxt, x, n) == [nxt EXCEPT ![x] = nxt[n], ![n] = x]
PrevLinked(nxt, prv, x, n) == [prv EXCEPT ![x] = n, ![nxt[n]] = x]
NextUnlinked(nxt, prv, x) == [nxt EXCEPT ![prv[x]] = nxt[x]]
PrevUnlinked(nxt, prv, x) == [prv EXCEPT ![nxt[x]] = prv[x]]
Contained(c, x, L) == [c EXCEPT ![x] = L]

\* A node belongs to one list, and Null to none.
LEMMA OneList ==
  ASSUME NEW c \in [Items -> Lists \cup {Null}],
         NEW L \in Lists, NEW M \in Lists, NEW n, In(c, L, n)
  PROVE  n \in Nodes /\ n # Null /\ (In(c, M, n) => L = M)
BY HeapAssumption DEF In, Nodes

\* Both neighbours of a node of a list are nodes of that list.
LEMMA Neighbours ==
  ASSUME NEW nxt, NEW prv, NEW c \in [Items -> Lists \cup {Null}],
         Links(nxt, prv, c), NEW L \in Lists, NEW n, In(c, L, n)
  PROVE  /\ n \in Nodes
         /\ In(c, L, nxt[n]) /\ prv[nxt[n]] = n /\ nxt[n] \in Nodes
         /\ In(c, L, prv[n]) /\ nxt[prv[n]] = n /\ prv[n] \in Nodes
<1>1. n \in Nodes
  BY OneList
<1>2. /\ In(c, L, nxt[n]) /\ prv[nxt[n]] = n
      /\ In(c, L, prv[n]) /\ nxt[prv[n]] = n
  BY <1>1 DEF Links
<1>3. QED
  BY <1>1, <1>2, OneList

\* Linking an item that is on no list after a node of a list.
LEMMA LinkRing ==
  ASSUME NEW nxt \in [Nodes -> Nodes \cup {Null}],
         NEW prv \in [Nodes -> Nodes \cup {Null}],
         NEW c \in [Items -> Lists \cup {Null}], Links(nxt, prv, c),
         NEW L \in Lists, NEW x \in Items, c[x] = Null, NEW n, In(c, L, n)
  PROVE  /\ Links(NextLinked(nxt, x, n), PrevLinked(nxt, prv, x, n),
                  Contained(c, x, L))
         /\ NextLinked(nxt, x, n) \in [Nodes -> Nodes \cup {Null}]
         /\ PrevLinked(nxt, prv, x, n) \in [Nodes -> Nodes \cup {Null}]
         /\ n \in Nodes /\ nxt[n] \in Nodes /\ x # n /\ x # nxt[n]
         /\ NextLinked(nxt, x, n)[x] = nxt[n] /\ NextLinked(nxt, x, n)[n] = x
         /\ \A m \in Nodes \ {x, n} : NextLinked(nxt, x, n)[m] = nxt[m]
         /\ \A M \in Lists, m \in Nodes :
              In(Contained(c, x, L), M, m) <=> In(c, M, m) \/ (M = L /\ m = x)
<1> DEFINE nx   == nxt[n]
           nxt2 == NextLinked(nxt, x, n)
           prv2 == PrevLinked(nxt, prv, x, n)
           c2   == Contained(c, x, L)
<1>1. /\ n \in Nodes /\ nx \in Nodes /\ In(c, L, nx) /\ prv[nx] = n
  BY Neighbours
<1>2. x \in Nodes /\ x # n /\ x # nx /\ \A M \in Lists : ~ In(c, M, x)
  BY <1>1, HeapAssumption DEF In, Nodes
<1>3. \A m \in Nodes :
        /\ nxt2[m] = IF m = n THEN x ELSE IF m = x THEN nx ELSE nxt[m]
        /\ prv2[m] = IF m = nx THEN x ELSE IF m = x THEN n ELSE prv[m]
  BY <1>1, <1>2 DEF NextLinked, PrevLinked
<1>4. \A M \in Lists, m \in Nodes : In(c2, M, m) <=> In(c, M, m) \/ (M = L /\ m = x)
  BY <1>2, HeapAssumption DEF In, Contained
<1>5. ASSUME NEW M \in Lists, NEW m \in Nodes, In(c2, M, m)
      PROVE  /\ In(c2, M, nxt2[m]) /\ prv2[nxt2[m]] = m
             /\ In(c2, M, prv2[m]) /\ nxt2[prv2[m]] = m
  <2>1. CASE m = x
    <3>1. M = L /\ nxt2[m] = nx /\ prv2[m] = n
      BY <2>1, <1>2, <1>3, <1>4, <1>5
    <3>2. QED
      BY <3>1, <2>1, <1>1, <1>2, <1>3, <1>4
  <2>2. CASE m # x
    <3>1. In(c, M, m)
      BY <2>2, <1>4, <1>5
    <3>2. /\ In(c, M, nxt[m]) /\ prv[nxt[m]] = m /\ nxt[m] \in Nodes
          /\ In(c, M, prv[m]) /\ nxt[prv[m]] = m /\ prv[m] \in Nodes
      BY <3>1, Neighbours
    <3>3. nxt[m] # x /\ prv[m] # x
      BY <3>2, <1>2
    <3>4. In(c2, M, nxt2[m]) /\ prv2[nxt2[m]] = m
      <4>1. CASE m = n
        <5>1. M = L
          BY <4>1, <3>1, OneList
        <5>2. QED
          BY <4>1, <5>1, <1>1, <1>2, <1>3, <1>4
      <4>2. CASE m # n
        <5>1. nxt[m] # nx
          BY <4>2, <3>2, <1>1
        <5>2. QED
          BY <5>1, <4>2, <2>2, <3>2, <3>3, <1>3, <1>4
      <4>3. QED
        BY <4>1, <4>2
    <3>5. In(c2, M, prv2[m]) /\ nxt2[prv2[m]] = m
      <4>1. CASE m = nx
        <5>1. M = L
          BY <4>1, <3>1, <1>1, OneList
        <5>2. QED
          BY <4>1, <5>1, <1>1, <1>2, <1>3, <1>4
      <4>2. CASE m # nx
        <5>1. prv[m] # n
          BY <4>2, <3>2, <1>1
        <5>2. QED
          BY <5>1, <4>2, <2>2, <3>2, <3>3, <1>3, <1>4
      <4>3. QED
        BY <4>1, <4>2
    <3>6. QED
      BY <3>4, <3>5
  <2>3. QED
    BY <2>1, <2>2
<1> HIDE DEF nxt2, prv2, c2
<1>6. Links(nxt2, prv2, c2)
  BY <1>5 DEF Links
<1> USE DEF nxt2, prv2, c2
<1>7. /\ nxt2 \in [Nodes -> Nodes \cup {Null}]
      /\ prv2 \in [Nodes -> Nodes \cup {Null}]
  BY <1>1, <1>2 DEF NextLinked, PrevLinked
<1>8. QED
  BY <1>1, <1>2, <1>3, <1>4, <1>6, <1>7

\* Unlinking an item from its list.
LEMMA UnlinkRing ==
  ASSUME NEW nxt \in [Nodes -> Nodes \cup {Null}],
         NEW prv \in [Nodes -> Nodes \cup {Null}],
         NEW c \in [Items -> Lists \cup {Null}], Links(nxt, prv, c),
         NEW L \in Lists, NEW x \in Items, c[x] = L
  PROVE  /\ Links(NextUnlinked(nxt, prv, x), PrevUnlinked(nxt, prv, x),
                  Contained(c, x, Null))
         /\ NextUnlinked(nxt, prv, x) \in [Nodes -> Nodes \cup {Null}]
         /\ PrevUnlinked(nxt, prv, x) \in [Nodes -> Nodes \cup {Null}]
         /\ nxt[x] \in Nodes /\ prv[x] \in Nodes
         /\ In(c, L, nxt[x]) /\ In(c, L, prv[x]) /\ nxt[prv[x]] = x
         /\ NextUnlinked(nxt, prv, x)[prv[x]] = nxt[x]
         /\ \A m \in Nodes \ {prv[x]} : NextUnlinked(nxt, prv, x)[m] = nxt[m]
         /\ \A M \in Lists, m \in Nodes :
              In(Contained(c, x, Null), M, m) <=> In(c, M, m) /\ m # x
<1> DEFINE nx   == nxt[x]
           pv   == prv[x]
           nxt2 == NextUnlinked(nxt, prv, x)
           prv2 == PrevUnlinked(nxt, prv, x)
           c2   == Contained(c, x, Null)
<1>1. /\ x \in Nodes /\ In(c, L, x)
      /\ nx \in Nodes /\ In(c, L, nx) /\ prv[nx] = x
      /\ pv \in Nodes /\ In(c, L, pv) /\ nxt[pv] = x
  <2>1. In(c, L, x)
    BY DEF In
  <2>2. QED
    BY <2>1, Neighbours
<1>3. \A m \in Nodes :
        /\ nxt2[m] = IF m = pv THEN nx ELSE nxt[m]
        /\ prv2[m] = IF m = nx THEN pv ELSE prv[m]
  BY <1>1 DEF NextUnlinked, PrevUnlinked
<1>4. \A M \in Lists, m \in Nodes : In(c2, M, m) <=> In(c, M, m) /\ m # x
  BY HeapAssumption DEF In, Nodes, Contained
<1>5. ASSUME NEW M \in Lists, NEW m \in Nodes, In(c2, M, m)
      PROVE  /\ In(c2, M, nxt2[m]) /\ prv2[nxt2[m]] = m
             /\ In(c2, M, prv2[m]) /\ nxt2[prv2[m]] = m
  <2>1. m # x /\ In(c, M, m)
    BY <1>4, <1>5
  <2>2. /\ In(c, M, nxt[m]) /\ prv[nxt[m]] = m /\ nxt[m] \in Nodes
        /\ In(c, M, prv[m]) /\ nxt[prv[m]] = m /\ prv[m] \in Nodes
    BY <2>1, Neighbours
  <2>3. In(c2, M, nxt2[m]) /\ prv2[nxt2[m]] = m
    <3>1. CASE m = pv
      <4>1. M = L /\ nx # x
        BY <3>1, <2>1, <1>1, OneList
      <4>2. QED
        BY <4>1, <3>1, <1>1, <1>3, <1>4
    <3>2. CASE m # pv
      <4>1. nxt[m] # x /\ nxt[m] # nx
        BY <3>2, <2>1, <2>2, <1>1
      <4>2. QED
        BY <4>1, <3>2, <2>2, <1>3, <1>4
    <3>3. QED
      BY <3>1, <3>2
  <2>4. In(c2, M, prv2[m]) /\ nxt2[prv2[m]] = m
    <3>1. CASE m = nx
      <4>1. M = L /\ pv # x
        BY <3>1, <2>1, <1>1, OneList
      <4>2. QED
        BY <4>1, <3>1, <1>1, <1>3, <1>4
    <3>2. CASE m # nx
      <4>1. prv[m] # x /\ prv[m] # pv
        BY <3>2, <2>1, <2>2, <1>1
      <4>2. QED
        BY <4>1, <3>2, <2>2, <1>3, <1>4
    <3>3. QED
      BY <3>1, <3>2
  <2>5. QED
    BY <2>3, <2>4
<1> HIDE DEF nxt2, prv2, c2
<1>6. Links(nxt2, prv2, c2)
  BY <1>5 DEF Links
<1> USE DEF nxt2, prv2, c2
<1>7. /\ nxt2 \in [Nodes -> Nodes \cup {Null}]
      /\ prv2 \in [Nodes -> Nodes \cup {Null}]
  BY <1>1 DEF NextUnlinked, PrevUnlinked
<1>8. QED
  BY <1>1, <1>3, <1>4, <1>6, <1>7

\* A ring has no cycle that misses its xListEnd: positions can be given to
\* the nodes that grow along pxNext, up to xListEnd.
Ranked(r, nxt, c) ==
  \A L \in Lists, x \in Items :
    c[x] = L /\ nxt[x] # L => r[x] < r[nxt[x]]

Acyclic(nxt, c) == \E r \in [Nodes -> Int] : Ranked(r, nxt, c)

\* Linking an item into a ring makes no cycle that misses the end.
LEMMA LinkAcyclic ==
  ASSUME NEW nxt \in [Nodes -> Nodes \cup {Null}],
         NEW prv \in [Nodes -> Nodes \cup {Null}],
         NEW c \in [Items -> Lists \cup {Null}], Links(nxt, prv, c),
         Acyclic(nxt, c),
         NEW L \in Lists, NEW x \in Items, c[x] = Null, NEW n, In(c, L, n)
  PROVE  Acyclic(NextLinked(nxt, x, n), Contained(c, x, L))
<1> DEFINE nxt2 == NextLinked(nxt, x, n)
           c2   == Contained(c, x, L)
<1>1. PICK r \in [Nodes -> Int] : Ranked(r, nxt, c)
  BY DEF Acyclic
<1> DEFINE r2 == [m \in Nodes |->
                   IF m = x THEN IF n \in Items THEN 2 * r[n] + 1
                                 ELSE 2 * r[nxt[n]] - 1
                   ELSE 2 * r[m]]
<1>2. /\ n \in Nodes /\ nxt[n] \in Nodes /\ x # n /\ x # nxt[n]
      /\ nxt2[x] = nxt[n] /\ nxt2[n] = x
      /\ \A m \in Nodes \ {x, n} : nxt2[m] = nxt[m]
      /\ \A M \in Lists, m \in Nodes :
           In(c2, M, m) <=> In(c, M, m) \/ (M = L /\ m = x)
  BY LinkRing
<1>3. r2 \in [Nodes -> Int]
  BY <1>1, <1>2
<1>4. x \in Nodes /\ Items \subseteq Nodes /\ \A M \in Lists : M \in Nodes /\ M \notin Items
  BY HeapAssumption DEF Nodes
<1>5. ASSUME NEW M \in Lists, NEW y \in Items, c2[y] = M, nxt2[y] # M
      PROVE  r2[y] < r2[nxt2[y]]
  <2>1. CASE y = x
    <3>1. M = L /\ nxt2[y] = nxt[n] /\ nxt[n] # L
      BY <1>2, <1>5, <2>1 DEF Contained
    <3>2. r2[y] = (IF n \in Items THEN 2 * r[n] + 1 ELSE 2 * r[nxt[n]] - 1)
      BY <1>4, <2>1
    <3>3. r2[nxt2[y]] = 2 * r[nxt[n]]
      BY <1>2, <3>1
    <3>4. n \in Items => r[n] < r[nxt[n]]
      BY <1>1, <1>4, <3>1 DEF Ranked, In
    <3> HIDE DEF r2
    <3>5. QED
      BY <1>1, <1>2, <3>2, <3>3, <3>4
  <2>2. CASE y # x
    <3>1. c[y] = M
      BY <1>5, <2>2 DEF Contained
    <3>2. r2[y] = 2 * r[y]
      BY <1>4, <2>2
    <3>3. CASE y = n
      <4>1. r2[nxt2[y]] = 2 * r[y] + 1
        BY <1>2, <1>4, <3>3
      <4> HIDE DEF r2
      <4>2. QED
        BY <1>1, <1>4, <3>2, <4>1
    <3>4. CASE y # n
      <4>1. nxt2[y] = nxt[y]
        BY <1>2, <1>4, <2>2, <3>4
      <4>2. r[y] < r[nxt[y]]
        BY <1>1, <1>5, <3>1, <4>1 DEF Ranked
      <4>3. nxt[y] \in Nodes /\ nxt[y] # x
        <5>1. In(c, M, y)
          BY <3>1 DEF In
        <5>2. In(c, M, nxt[y]) /\ nxt[y] \in Nodes
          BY <5>1, Neighbours
        <5>3. ~ In(c, M, x)
          BY <1>4, HeapAssumption DEF In, Nodes
        <5>4. QED
          BY <5>2, <5>3
      <4>4. r2[nxt2[y]] = 2 * r[nxt[y]]
        BY <4>1, <4>3
      <4> HIDE DEF r2
      <4>5. QED
        BY <1>1, <1>4, <3>2, <4>2, <4>3, <4>4
    <3>5. QED
      BY <3>3, <3>4
  <2>3. QED
    BY <2>1, <2>2
<1> HIDE DEF r2, nxt2, c2
<1>6. Ranked(r2, nxt2, c2)
  BY <1>5 DEF Ranked
<1>7. QED
  BY <1>3, <1>6 DEF Acyclic, nxt2, c2

\* Unlinking an item makes none either.
LEMMA UnlinkAcyclic ==
  ASSUME NEW nxt \in [Nodes -> Nodes \cup {Null}],
         NEW prv \in [Nodes -> Nodes \cup {Null}],
         NEW c \in [Items -> Lists \cup {Null}], Links(nxt, prv, c),
         Acyclic(nxt, c), NEW L \in Lists, NEW x \in Items, c[x] = L
  PROVE  /\ Acyclic(NextUnlinked(nxt, prv, x), Contained(c, x, Null))
         /\ prv[x] # x
<1> DEFINE nxt2 == NextUnlinked(nxt, prv, x)
           c2   == Contained(c, x, Null)
<1>1. PICK r \in [Nodes -> Int] : Ranked(r, nxt, c)
  BY DEF Acyclic
<1>2. /\ nxt[x] \in Nodes /\ prv[x] \in Nodes
      /\ In(c, L, nxt[x]) /\ In(c, L, prv[x]) /\ nxt[prv[x]] = x
      /\ nxt2[prv[x]] = nxt[x]
      /\ \A m \in Nodes \ {prv[x]} : nxt2[m] = nxt[m]
  BY UnlinkRing
<1>3. x \in Nodes /\ Items \subseteq Nodes /\ Null \notin Lists
      /\ \A M \in Lists : M \in Nodes /\ M \notin Items
  BY HeapAssumption DEF Nodes
<1>4. ASSUME NEW M \in Lists, NEW y \in Items, c2[y] = M, nxt2[y] # M
      PROVE  r[y] < r[nxt2[y]]
  <2>1. y # x /\ c[y] = M
    BY <1>3, <1>4 DEF Contained
  <2>2. CASE y = prv[x]
    <3>1. M = L
      BY <1>2, <1>3, <2>1, <2>2 DEF In
    <3>2. r[y] < r[x] /\ r[x] < r[nxt[x]]
      BY <1>1, <1>2, <1>3, <1>4, <2>1, <2>2, <3>1 DEF Ranked
    <3>3. QED
      BY <1>1, <1>2, <1>3, <2>2, <3>2
  <2>3. CASE y # prv[x]
    BY <1>1, <1>2, <1>3, <1>4, <2>1, <2>3 DEF Ranked
  <2>4. QED
    BY <2>2, <2>3
<1> HIDE DEF nxt2, c2
<1>5. Ranked(r, nxt2, c2)
  BY <1>4 DEF Ranked
<1>6. prv[x] # x
  <2>1. SUFFICES ASSUME prv[x] = x PROVE FALSE
    OBVIOUS
  <2>2. nxt[x] = x /\ x # L
    BY <1>2, <1>3, <2>1
  <2>3. r[x] < r[x] /\ r[x] \in Int
    BY <1>1, <1>3, <2>2 DEF Ranked
  <2>4. QED
    BY <2>3
<1>7. QED
  BY <1>1, <1>5, <1>6 DEF Acyclic, nxt2, c2

\* How many items say they are on list L.
Members(c, L) == {y \in Items : c[y] = L}

\* Linking adds one member to a list, unlinking removes one.
LEMMA MembersCount ==
  ASSUME NEW c, c \in [Items -> Lists \cup {Null}],
         NEW L, L \in Lists, NEW x, x \in Items
  PROVE  /\ Cardinality(Members(c, L)) \in Nat
         /\ c[x] = Null => \A M \in Lists :
              Cardinality(Members(Contained(c, x, L), M))
                = IF M = L THEN Cardinality(Members(c, M)) + 1
                  ELSE Cardinality(Members(c, M))
         /\ c[x] = L => \A M \in Lists :
              Cardinality(Members(Contained(c, x, Null), M))
                = IF M = L THEN Cardinality(Members(c, M)) - 1
                  ELSE Cardinality(Members(c, M))
<1>1. \A M : IsFiniteSet(Members(c, M)) /\ Cardinality(Members(c, M)) \in Nat
  <2>1. \A M : Members(c, M) \subseteq Items
    BY DEF Members
  <2>2. QED
    BY <2>1, HeapAssumption, FS_Subset, FS_CardinalityType
<1>2. Null \notin Lists
  BY HeapAssumption DEF Nodes
<1>3. ASSUME c[x] = Null, NEW M \in Lists
      PROVE  Cardinality(Members(Contained(c, x, L), M))
               = IF M = L THEN Cardinality(Members(c, M)) + 1
                 ELSE Cardinality(Members(c, M))
  <2>1. CASE M = L
    <3>1. /\ Members(Contained(c, x, L), M) = Members(c, M) \cup {x}
          /\ x \notin Members(c, M)
      BY <1>2, <1>3, <2>1 DEF Members, Contained
    <3>2. QED
      BY <1>1, <2>1, <3>1, FS_AddElement
  <2>2. CASE M # L
    <3>1. Members(Contained(c, x, L), M) = Members(c, M)
      BY <1>2, <1>3, <2>2 DEF Members, Contained
    <3>2. QED
      BY <2>2, <3>1
  <2>3. QED
    BY <2>1, <2>2
<1>4. ASSUME c[x] = L, NEW M \in Lists
      PROVE  Cardinality(Members(Contained(c, x, Null), M))
               = IF M = L THEN Cardinality(Members(c, M)) - 1
                 ELSE Cardinality(Members(c, M))
  <2>1. CASE M = L
    <3>1. /\ Members(Contained(c, x, Null), M) = Members(c, M) \ {x}
          /\ x \in Members(c, M)
      BY <1>2, <1>4, <2>1 DEF Members, Contained
    <3>2. QED
      BY <1>1, <2>1, <3>1, FS_RemoveElement
  <2>2. CASE M # L
    <3>1. Members(Contained(c, x, Null), M) = Members(c, M)
      BY <1>2, <1>4, <2>2 DEF Members, Contained
    <3>2. QED
      BY <2>2, <3>1
  <2>3. QED
    BY <2>1, <2>2
<1>5. QED
  BY <1>1, <1>3, <1>4

-----------------------------------------------------------------------------
(* The inductive invariant                                                 *)

\* While an item of the largest value is being inserted the iterator stays
\* at the last node: the loop of vListInsert does not test that item.
EndIsNext ==
  inserting # Null /\ xItemValue[inserting] = portMAX_DELAY
    => pxNext[pxIterator] = into

\* No cycle of pxNext avoids the xListEnd of its list.
RingsAcyclic == Acyclic(pxNext, pvContainer)

IInv ==
  /\ TypeOK
  /\ LinksOK
  /\ CursorsOK
  /\ CountOK
  /\ SortedLinks
  /\ EndIsNext
  /\ RingsAcyclic

\* LinksOK and CountOK in terms of the operators above.
LEMMA Restated ==
  /\ LinksOK <=> Links(pxNext, pxPrevious, pvContainer)
  /\ LinksOK' <=> Links(pxNext', pxPrevious', pvContainer')
  /\ CountOK <=> \A L \in Lists :
                   uxNumberOfItems[L] = Cardinality(Members(pvContainer, L))
  /\ CountOK' <=> \A L \in Lists :
                   uxNumberOfItems'[L] = Cardinality(Members(pvContainer', L))
  /\ \A L, n : NodeOf(L, n) <=> In(pvContainer, L, n)
BY DEF LinksOK, CountOK, Links, Members, In, NodeOf

\* The inductive invariant holds initially.
LEMMA InitIInv == Init => IInv
<1> SUFFICES ASSUME Init PROVE IInv
  OBVIOUS
<1> USE HeapAssumption DEF Init, Nodes
<1>1. TypeOK
  BY DEF TypeOK, TickType
<1>2. LinksOK
  BY DEF LinksOK, NodeOf
<1>3. CursorsOK
  BY DEF CursorsOK, NodeOf
<1>4. CountOK
  <2>1. \A L \in Lists : {x \in Items : pvContainer[x] = L} = {}
    OBVIOUS
  <2>2. QED
    BY <2>1, FS_EmptySet DEF CountOK
<1>5. SortedLinks
  BY DEF SortedLinks
<1>6. EndIsNext
  BY DEF EndIsNext
<1>7. RingsAcyclic
  <2>1. \A L \in Lists, x \in Items : pvContainer[x] # L
    OBVIOUS
  <2>2. [m \in Nodes |-> 0] \in [Nodes -> Int]
    OBVIOUS
  <2>3. QED
    BY <2>1, <2>2 DEF RingsAcyclic, Acyclic, Ranked
<1>8. QED
  BY <1>1, <1>2, <1>3, <1>4, <1>5, <1>6, <1>7 DEF IInv

\* The part of the invariant that is about links, counts and order, when an
\* item is linked in where its value belongs.
LEMMA LinkAfterKeeps ==
  ASSUME TypeOK, LinksOK, CountOK, SortedLinks, RingsAcyclic,
         NEW L \in Lists, NEW x \in Items, pvContainer[x] = Null,
         NEW n, NodeOf(L, n), LinkAfter(L, x, n),
         L \in SortedLists =>
           /\ n \in Items => xItemValue[n] <= xItemValue[x]
           /\ xItemValue[x] <= xItemValue[pxNext[n]]
  PROVE  /\ pxNext' \in [Nodes -> Nodes \cup {Null}]
         /\ pxPrevious' \in [Nodes -> Nodes \cup {Null}]
         /\ pvContainer' = Contained(pvContainer, x, L)
         /\ uxNumberOfItems' \in [Lists -> Nat]
         /\ n \in Nodes /\ x # n
         /\ \A m \in Nodes \ {x, n} : pxNext'[m] = pxNext[m]
         /\ \A M \in Lists, m \in Nodes :
              In(pvContainer', M, m) <=> In(pvContainer, M, m) \/ (M = L /\ m = x)
         /\ LinksOK' /\ CountOK' /\ SortedLinks' /\ RingsAcyclic'
<1>1. /\ pxNext' = NextLinked(pxNext, x, n)
      /\ pxPrevious' = PrevLinked(pxNext, pxPrevious, x, n)
      /\ pvContainer' = Contained(pvContainer, x, L)
      /\ uxNumberOfItems' = [uxNumberOfItems EXCEPT ![L] = @ + 1]
      /\ xItemValue' = xItemValue
  BY DEF LinkAfter, NextLinked, PrevLinked, Contained
<1>2. /\ pxNext \in [Nodes -> Nodes \cup {Null}]
      /\ pxPrevious \in [Nodes -> Nodes \cup {Null}]
      /\ pvContainer \in [Items -> Lists \cup {Null}]
      /\ uxNumberOfItems \in [Lists -> Nat]
  BY DEF TypeOK
<1>3. Links(pxNext, pxPrevious, pvContainer) /\ In(pvContainer, L, n)
  BY Restated
<1>4. /\ Links(pxNext', pxPrevious', pvContainer')
      /\ pxNext' \in [Nodes -> Nodes \cup {Null}]
      /\ pxPrevious' \in [Nodes -> Nodes \cup {Null}]
      /\ n \in Nodes /\ pxNext[n] \in Nodes /\ x # n /\ x # pxNext[n]
      /\ pxNext'[x] = pxNext[n] /\ pxNext'[n] = x
      /\ \A m \in Nodes \ {x, n} : pxNext'[m] = pxNext[m]
      /\ \A M \in Lists, m \in Nodes :
           In(pvContainer', M, m) <=> In(pvContainer, M, m) \/ (M = L /\ m = x)
  BY <1>1, <1>2, <1>3, LinkRing
<1>5. uxNumberOfItems' \in [Lists -> Nat]
  BY <1>1, <1>2
<1>6. CountOK'
  <2>1. \A M \in Lists : uxNumberOfItems[M] = Cardinality(Members(pvContainer, M))
    BY Restated
  <2>2. \A M \in Lists :
          Cardinality(Members(pvContainer', M))
            = IF M = L THEN Cardinality(Members(pvContainer, M)) + 1
              ELSE Cardinality(Members(pvContainer, M))
    BY <1>1, <1>2, MembersCount
  <2>3. \A M \in Lists : uxNumberOfItems'[M] = Cardinality(Members(pvContainer', M))
    BY <1>1, <1>2, <2>1, <2>2
  <2>4. QED
    BY <2>3, Restated
<1>7. SortedLinks'
  <2>1. \A M \in Lists : xItemValue'[M] = portMAX_DELAY
    BY <1>1 DEF SortedLinks
  <2>2. ASSUME NEW M \in SortedLists, NEW y \in Items, pvContainer'[y] = M
        PROVE  xItemValue'[y] <= xItemValue'[pxNext'[y]]
    <3>1. y \in Nodes /\ M \in Lists
      BY HeapAssumption DEF Nodes
    <3>2. CASE y = x
      <4>1. M = L
        BY <1>1, <1>2, <2>2, <3>2 DEF Contained
      <4>2. QED
        BY <4>1, <3>2, <1>1, <1>4
    <3>3. CASE y = n
      <4>1. In(pvContainer', M, n)
        BY <2>2, <3>3 DEF In
      <4>2. M = L
        BY <4>1, <1>2, <1>3, <1>4, <3>1, OneList
      <4>3. QED
        BY <4>2, <3>3, <1>1, <1>4
    <3>4. CASE y # x /\ y # n
      <4>1. pvContainer[y] = M
        BY <1>1, <1>2, <2>2, <3>4 DEF Contained
      <4>2. QED
        BY <4>1, <3>1, <3>4, <1>1, <1>4 DEF SortedLinks
    <3>5. QED
      BY <3>2, <3>3, <3>4
  <2>3. QED
    BY <2>1, <2>2 DEF SortedLinks
<1>8. LinksOK'
  BY <1>4, Restated
<1>9. RingsAcyclic'
  BY <1>1, <1>2, <1>3, LinkAcyclic DEF RingsAcyclic
<1>10. QED
  BY <1>1, <1>4, <1>5, <1>6, <1>7, <1>8, <1>9

\* The same when vListRemove unlinks an item.
LEMMA RemoveKeeps ==
  ASSUME TypeOK, LinksOK, CountOK, SortedLinks, RingsAcyclic,
         NEW x \in Items, vListRemove(x)
  PROVE  /\ pxNext' \in [Nodes -> Nodes \cup {Null}]
         /\ pxPrevious' \in [Nodes -> Nodes \cup {Null}]
         /\ pvContainer[x] \in Lists /\ pvContainer' = Contained(pvContainer, x, Null)
         /\ uxNumberOfItems' \in [Lists -> Nat]
         /\ In(pvContainer, pvContainer[x], pxPrevious[x])
         /\ pxPrevious[x] \in Nodes /\ pxPrevious[x] # x
         /\ \A m \in Nodes \ {pxPrevious[x]} : pxNext'[m] = pxNext[m]
         /\ \A M \in Lists, m \in Nodes :
              In(pvContainer', M, m) <=> In(pvContainer, M, m) /\ m # x
         /\ LinksOK' /\ CountOK' /\ SortedLinks' /\ RingsAcyclic'
<1> DEFINE L == pvContainer[x]
           pv == pxPrevious[x]
<1>1. /\ pxNext' = NextUnlinked(pxNext, pxPrevious, x)
      /\ pxPrevious' = PrevUnlinked(pxNext, pxPrevious, x)
      /\ pvContainer' = Contained(pvContainer, x, Null)
      /\ uxNumberOfItems' = [uxNumberOfItems EXCEPT ![L] = @ - 1]
      /\ xItemValue' = xItemValue
      /\ L # Null
  BY DEF vListRemove, NextUnlinked, PrevUnlinked, Contained
<1>2. /\ pxNext \in [Nodes -> Nodes \cup {Null}]
      /\ pxPrevious \in [Nodes -> Nodes \cup {Null}]
      /\ pvContainer \in [Items -> Lists \cup {Null}]
      /\ uxNumberOfItems \in [Lists -> Nat]
      /\ \A m \in Nodes : xItemValue[m] \in Int
  BY HeapAssumption DEF TypeOK, TickType
<1>3. L \in Lists /\ Links(pxNext, pxPrevious, pvContainer)
  BY <1>1, <1>2, Restated
<1>4. /\ Links(pxNext', pxPrevious', pvContainer')
      /\ pxNext' \in [Nodes -> Nodes \cup {Null}]
      /\ pxPrevious' \in [Nodes -> Nodes \cup {Null}]
      /\ pxNext[x] \in Nodes /\ pv \in Nodes
      /\ In(pvContainer, L, pxNext[x]) /\ In(pvContainer, L, pv)
      /\ pxNext[pv] = x /\ pxNext'[pv] = pxNext[x]
      /\ \A m \in Nodes \ {pv} : pxNext'[m] = pxNext[m]
      /\ \A M \in Lists, m \in Nodes :
           In(pvContainer', M, m) <=> In(pvContainer, M, m) /\ m # x
  BY <1>1, <1>2, <1>3, UnlinkRing
<1>5. CountOK' /\ uxNumberOfItems' \in [Lists -> Nat]
  <2>1. \A M \in Lists : uxNumberOfItems[M] = Cardinality(Members(pvContainer, M))
    BY Restated
  <2>2. \A M \in Lists :
          Cardinality(Members(pvContainer', M))
            = IF M = L THEN Cardinality(Members(pvContainer, M)) - 1
              ELSE Cardinality(Members(pvContainer, M))
    BY <1>1, <1>2, <1>3, MembersCount
  <2>3. \A M \in Lists : uxNumberOfItems'[M] = Cardinality(Members(pvContainer', M))
    BY <1>1, <1>2, <2>1, <2>2
  <2>4. \A M \in Lists : Cardinality(Members(pvContainer', M)) \in Nat
    <3>1. pvContainer' \in [Items -> Lists \cup {Null}]
      BY <1>1, <1>2 DEF Contained
    <3>2. QED
      BY <3>1, MembersCount
  <2>5. CountOK'
    BY <2>3, Restated
  <2>6. QED
    BY <2>3, <2>4, <2>5, <1>1, <1>2
<1>6. SortedLinks'
  <2>1. \A M \in Lists : xItemValue'[M] = portMAX_DELAY
    BY <1>1 DEF SortedLinks
  <2>2. ASSUME NEW M \in SortedLists, NEW y \in Items, pvContainer'[y] = M
        PROVE  xItemValue'[y] <= xItemValue'[pxNext'[y]]
    <3>1. y \in Nodes /\ M \in Lists /\ M # Null /\ x \in Nodes
      BY HeapAssumption DEF Nodes
    <3>2. y # x /\ pvContainer[y] = M
      BY <1>1, <1>2, <2>2, <3>1 DEF Contained
    <3>3. xItemValue[y] <= xItemValue[pxNext[y]]
      BY <3>1, <3>2 DEF SortedLinks
    <3>4. CASE y = pv
      <4>1. M = L
        <5>1. In(pvContainer, M, y)
          BY <3>2 DEF In
        <5>2. QED
          BY <5>1, <3>1, <3>4, <1>2, <1>3, <1>4, OneList
      <4>2. xItemValue[x] <= xItemValue[pxNext[x]]
        BY <4>1, <3>1 DEF SortedLinks
      <4>3. pxNext[y] = x /\ pxNext'[y] = pxNext[x]
        BY <3>4, <1>4
      <4>4. QED
        BY <4>2, <4>3, <3>1, <3>3, <1>1, <1>2, <1>4
    <3>5. CASE y # pv
      BY <3>1, <3>3, <3>5, <1>1, <1>4
    <3>6. QED
      BY <3>4, <3>5
  <2>3. QED
    BY <2>1, <2>2 DEF SortedLinks
<1>7. LinksOK'
  BY <1>4, Restated
<1>8. RingsAcyclic' /\ pxPrevious[x] # x
  BY <1>1, <1>2, <1>3, UnlinkAcyclic DEF RingsAcyclic
<1>9. QED
  BY <1>1, <1>3, <1>4, <1>5, <1>6, <1>7, <1>8

\* Every step keeps the invariant.
LEMMA NextIInv == IInv /\ [Next]_vars => IInv'
<1> SUFFICES ASSUME IInv, [Next]_vars PROVE IInv'
  OBVIOUS
<1>t. /\ TypeOK /\ LinksOK /\ CursorsOK /\ CountOK /\ SortedLinks
      /\ EndIsNext /\ RingsAcyclic
      /\ pxNext \in [Nodes -> Nodes \cup {Null}]
      /\ pxPrevious \in [Nodes -> Nodes \cup {Null}]
      /\ xItemValue \in [Nodes -> TickType]
      /\ pvContainer \in [Items -> Lists \cup {Null}]
      /\ pxIndex \in [Lists -> Nodes]
      /\ inserting \in Items \cup {Null}
      /\ into \in SortedLists \cup {Null}
      /\ pxIterator \in Nodes \cup {Null}
  BY DEF IInv, TypeOK
<1>a. /\ Null \notin Nodes /\ Items \subseteq Nodes /\ Lists \subseteq Nodes
      /\ Lists \cap Items = {} /\ SortedLists \subseteq Lists
      /\ portMAX_DELAY \in Nat /\ TickType \subseteq Int
      /\ \A v \in TickType : v <= portMAX_DELAY
  BY HeapAssumption DEF Nodes, TickType
<1>l. Links(pxNext, pxPrevious, pvContainer)
  BY <1>t, Restated
<1>c. /\ \A L \in Lists : In(pvContainer, L, pxIndex[L])
      /\ inserting # Null =>
           /\ pvContainer[inserting] = Null
           /\ into \in Lists /\ In(pvContainer, into, pxIterator)
           /\ pxIterator \in Nodes
           /\ pxIterator \in Items => xItemValue[pxIterator] <= xItemValue[inserting]
  BY <1>t, <1>a, Restated, OneList DEF CursorsOK
<1>1. ASSUME NEW x \in Items, NEW v \in TickType, SetItemValue(x, v)
      PROVE  IInv'
  <2>1. /\ pvContainer[x] = Null /\ x # inserting
        /\ xItemValue' = [xItemValue EXCEPT ![x] = v]
        /\ UNCHANGED <<pxNext, pxPrevious, pvContainer, pxIndex,
                       uxNumberOfItems, inserting, into, pxIterator>>
    BY <1>1 DEF SetItemValue, Free, walkVars
  <2>2. TypeOK'
    BY <2>1, <1>t DEF TypeOK
  <2>3. LinksOK' /\ CountOK' /\ RingsAcyclic'
    BY <2>1, <1>t DEF LinksOK, CountOK, NodeOf, RingsAcyclic
  <2>4. \A L \in Lists : ~ In(pvContainer, L, x)
    BY <2>1, <1>a DEF In
  <2>5. CursorsOK' /\ EndIsNext'
    BY <2>1, <2>4, <1>t, <1>a, <1>c DEF CursorsOK, EndIsNext, NodeOf, In
  <2>6. SortedLinks'
    <3>1. ASSUME NEW L \in SortedLists, NEW y \in Items, pvContainer[y] = L
          PROVE  xItemValue'[y] <= xItemValue'[pxNext[y]]
      <4>1. In(pvContainer, L, y) /\ L \in Lists
        BY <3>1, <1>a DEF In
      <4>2. In(pvContainer, L, pxNext[y]) /\ pxNext[y] \in Nodes
        BY <4>1, <1>t, <1>l, Neighbours
      <4>3. y # x /\ pxNext[y] # x
        BY <4>1, <4>2, <2>4
      <4>4. QED
        BY <4>2, <4>3, <3>1, <2>1, <1>t, <1>a DEF SortedLinks
    <3>2. QED
      BY <3>1, <2>1, <1>t, <1>a DEF SortedLinks
  <2>7. QED
    BY <2>2, <2>3, <2>5, <2>6 DEF IInv
<1>2. ASSUME NEW x \in Items, NEW L \in Lists \ SortedLists, vListInsertEnd(L, x)
      PROVE  IInv'
  <2> DEFINE n == pxIndex[L]
  <2>1. /\ pvContainer[x] = Null /\ x # inserting /\ L # into
        /\ LinkAfter(L, x, n) /\ xItemValue' = xItemValue
        /\ pxIndex' = [pxIndex EXCEPT ![L] = x]
        /\ inserting' = inserting /\ into' = into /\ pxIterator' = pxIterator
    BY <1>2 DEF vListInsertEnd, LinkAfter, Free, walkVars
  <2>2. In(pvContainer, L, n) /\ NodeOf(L, n)
    BY <1>c, Restated
  <2> HIDE DEF n
  <2>3. /\ pxNext' \in [Nodes -> Nodes \cup {Null}]
        /\ pxPrevious' \in [Nodes -> Nodes \cup {Null}]
        /\ pvContainer' = Contained(pvContainer, x, L)
        /\ uxNumberOfItems' \in [Lists -> Nat]
        /\ n \in Nodes
        /\ \A m \in Nodes \ {x, n} : pxNext'[m] = pxNext[m]
        /\ \A M \in Lists, m \in Nodes :
             In(pvContainer', M, m) <=> In(pvContainer, M, m) \/ (M = L /\ m = x)
        /\ LinksOK' /\ CountOK' /\ SortedLinks' /\ RingsAcyclic'
    BY <2>1, <2>2, <1>t, LinkAfterKeeps
  <2>4. TypeOK'
    BY <2>1, <2>3, <1>t, <1>a DEF TypeOK, Contained
  <2>5. inserting # Null =>
          /\ pvContainer'[inserting] = Null /\ In(pvContainer', into, pxIterator)
          /\ pxNext'[pxIterator] = pxNext[pxIterator]
    <3> SUFFICES ASSUME inserting # Null PROVE <2>5!2
      OBVIOUS
    <3>1. pvContainer'[inserting] = Null /\ In(pvContainer', into, pxIterator)
      BY <2>1, <2>3, <1>t, <1>c DEF Contained
    <3>2. pxIterator # n
      BY <2>1, <2>2, <1>t, <1>c, OneList
    <3>3. pxIterator # x
      BY <2>1, <1>a, <1>c DEF In
    <3>4. QED
      BY <3>1, <3>2, <3>3, <2>3, <1>c
  <2>6. \A M \in Lists : In(pvContainer', M, pxIndex'[M])
    BY <2>1, <2>3, <1>t, <1>a, <1>c
  <2>7. CursorsOK' /\ EndIsNext'
    BY <2>1, <2>5, <2>6, <1>t, <1>c DEF CursorsOK, EndIsNext, NodeOf, In
  <2>8. QED
    BY <2>3, <2>4, <2>7 DEF IInv
<1>3. ASSUME NEW x \in Items, NEW L \in SortedLists, InsertBegin(L, x)
      PROVE  IInv'
  <2>1. /\ pvContainer[x] = Null /\ inserting' = x /\ into' = L
        /\ pxIterator' = IF xItemValue[x] = portMAX_DELAY THEN pxPrevious[L] ELSE L
        /\ UNCHANGED <<pxNext, pxPrevious, xItemValue, pvContainer, pxIndex,
                       uxNumberOfItems>>
    BY <1>3 DEF InsertBegin
  <2>2. /\ In(pvContainer, L, L)
        /\ In(pvContainer, L, pxPrevious[L]) /\ pxNext[pxPrevious[L]] = L
        /\ pxPrevious[L] \in Nodes
    <3>1. In(pvContainer, L, L) /\ L \in Lists
      BY <1>a DEF In
    <3>2. QED
      BY <3>1, <1>t, <1>l, Neighbours
  <2>3. TypeOK'
    BY <2>1, <2>2, <1>t, <1>a DEF TypeOK
  <2>4. LinksOK' /\ CountOK' /\ SortedLinks' /\ RingsAcyclic'
    BY <2>1, <1>t DEF LinksOK, CountOK, SortedLinks, NodeOf, RingsAcyclic
  <2>5. CursorsOK' /\ EndIsNext'
    <3>1. xItemValue[x] = portMAX_DELAY =>
            (pxPrevious[L] \in Items => xItemValue[pxPrevious[L]] <= xItemValue[x])
      BY <1>t, <1>a
    <3>2. QED
      BY <3>1, <2>1, <2>2, <1>t, <1>a, <1>c DEF CursorsOK, EndIsNext, NodeOf, In
  <2>6. QED
    BY <2>3, <2>4, <2>5 DEF IInv
<1>4. CASE InsertStep
  <2>1. /\ inserting # Null /\ xItemValue[inserting] # portMAX_DELAY
        /\ xItemValue[pxNext[pxIterator]] <= xItemValue[inserting]
        /\ pxIterator' = pxNext[pxIterator]
        /\ UNCHANGED <<pxNext, pxPrevious, xItemValue, pvContainer, pxIndex,
                       uxNumberOfItems, inserting, into>>
    BY <1>4 DEF InsertStep, WalkOn
  <2>2. In(pvContainer, into, pxNext[pxIterator]) /\ pxNext[pxIterator] \in Nodes
    BY <2>1, <1>t, <1>c, <1>l, Neighbours
  <2>3. TypeOK'
    BY <2>1, <2>2, <1>t DEF TypeOK
  <2>4. LinksOK' /\ CountOK' /\ SortedLinks' /\ RingsAcyclic'
    BY <2>1, <1>t DEF LinksOK, CountOK, SortedLinks, NodeOf, RingsAcyclic
  <2>5. CursorsOK' /\ EndIsNext'
    BY <2>1, <2>2, <1>t, <1>c DEF CursorsOK, EndIsNext, NodeOf, In
  <2>6. QED
    BY <2>3, <2>4, <2>5 DEF IInv
<1>5. CASE InsertLink
  <2> DEFINE x == inserting
             n == pxIterator
  <2>1. /\ x # Null /\ ~ WalkOn
        /\ LinkAfter(into, x, n) /\ xItemValue' = xItemValue
        /\ inserting' = Null /\ into' = Null /\ pxIterator' = Null
        /\ pxIndex' = pxIndex
    BY <1>5 DEF InsertLink, LinkAfter
  <2>2. /\ x \in Items /\ pvContainer[x] = Null /\ into \in Lists
        /\ NodeOf(into, n) /\ n \in Nodes
        /\ n \in Items => xItemValue[n] <= xItemValue[x]
    BY <2>1, <1>t, <1>c, Restated
  <2>3. xItemValue[x] <= xItemValue[pxNext[n]]
    <3>1. pxNext[n] \in Nodes
      BY <2>1, <2>2, <1>t, <1>l, <1>c, Neighbours
    <3>2. CASE xItemValue[x] = portMAX_DELAY
      <4>1. pxNext[n] = into
        BY <2>1, <3>2, <1>t DEF EndIsNext
      <4>2. QED
        <5>1. xItemValue[pxNext[n]] = portMAX_DELAY
          BY <4>1, <2>2, <1>t DEF SortedLinks
        <5> HIDE DEF x, n
        <5>2. QED
          BY <5>1, <3>2, <1>a
    <3>3. CASE xItemValue[x] # portMAX_DELAY
      <4>1. ~ (xItemValue[pxNext[n]] <= xItemValue[x])
        BY <3>3, <2>1 DEF WalkOn
      <4>2. xItemValue[pxNext[n]] \in Int /\ xItemValue[x] \in Int
        BY <3>1, <2>2, <1>t, <1>a
      <4> HIDE DEF x, n
      <4>3. QED
        BY <4>1, <4>2
    <3>4. QED
      BY <3>2, <3>3
  <2>4. /\ pxNext' \in [Nodes -> Nodes \cup {Null}]
        /\ pxPrevious' \in [Nodes -> Nodes \cup {Null}]
        /\ pvContainer' = Contained(pvContainer, x, into)
        /\ uxNumberOfItems' \in [Lists -> Nat]
        /\ \A M \in Lists, m \in Nodes :
             In(pvContainer', M, m) <=> In(pvContainer, M, m) \/ (M = into /\ m = x)
        /\ LinksOK' /\ CountOK' /\ SortedLinks' /\ RingsAcyclic'
    BY <2>1, <2>2, <2>3, <1>t, LinkAfterKeeps
  <2>5. TypeOK'
    BY <2>1, <2>2, <2>4, <1>t, <1>a DEF TypeOK, Contained
  <2>6. CursorsOK' /\ EndIsNext'
    BY <2>1, <2>4, <1>t, <1>c DEF CursorsOK, EndIsNext, NodeOf, In
  <2>7. QED
    BY <2>4, <2>5, <2>6 DEF IInv
<1>6. ASSUME NEW x \in Items, vListRemove(x)
      PROVE  IInv'
  <2> DEFINE L == pvContainer[x]
             pv == pxPrevious[x]
  <2>1. /\ L # into /\ pxIndex' = IndexWithout(x) /\ xItemValue' = xItemValue
        /\ inserting' = inserting /\ into' = into /\ pxIterator' = pxIterator
    BY <1>6 DEF vListRemove, walkVars
  <2>2. /\ pxNext' \in [Nodes -> Nodes \cup {Null}]
        /\ pxPrevious' \in [Nodes -> Nodes \cup {Null}]
        /\ L \in Lists /\ pvContainer' = Contained(pvContainer, x, Null)
        /\ uxNumberOfItems' \in [Lists -> Nat]
        /\ In(pvContainer, L, pv) /\ pv \in Nodes /\ pv # x
        /\ \A m \in Nodes \ {pv} : pxNext'[m] = pxNext[m]
        /\ \A M \in Lists, m \in Nodes :
             In(pvContainer', M, m) <=> In(pvContainer, M, m) /\ m # x
        /\ LinksOK' /\ CountOK' /\ SortedLinks' /\ RingsAcyclic'
    BY <1>6, <1>t, RemoveKeeps
  <2>3. In(pvContainer, L, x)
    BY DEF In
  <2>4. TypeOK'
    BY <2>1, <2>2, <1>t, <1>a DEF TypeOK, Contained, IndexWithout
  <2>5. inserting # Null =>
          /\ pvContainer'[inserting] = Null /\ In(pvContainer', into, pxIterator)
          /\ pxNext'[pxIterator] = pxNext[pxIterator]
    <3> SUFFICES ASSUME inserting # Null PROVE <2>5!2
      OBVIOUS
    <3>1. pxIterator # pv /\ pxIterator # x
      BY <2>1, <2>2, <2>3, <1>t, <1>c, OneList
    <3>2. QED
      BY <3>1, <2>1, <2>2, <1>t, <1>c DEF Contained
  <2>6. \A M \in Lists : In(pvContainer', M, pxIndex'[M])
    <3>1. ASSUME NEW M \in Lists PROVE pxIndex'[M] # x
      <4>1. pxIndex[M] = x => M = L
        BY <2>2, <2>3, <1>t, <1>c, OneList
      <4>2. CASE pxIndex[L] = x
        <5>1. pxIndex' = [pxIndex EXCEPT ![L] = pv]
          BY <2>1, <4>2 DEF IndexWithout
        <5>2. QED
          BY <5>1, <4>1, <2>2, <1>t
      <4>3. CASE pxIndex[L] # x
        BY <4>1, <4>3, <2>1 DEF IndexWithout
      <4>4. QED
        BY <4>2, <4>3
    <3>2. ASSUME NEW M \in Lists PROVE In(pvContainer', M, pxIndex'[M])
      <4>1. pxIndex'[M] \in Nodes /\ In(pvContainer, M, pxIndex'[M])
        BY <2>1, <2>2, <1>t, <1>c DEF IndexWithout
      <4>2. pxIndex'[M] # x
        BY <3>1, <2>2
      <4>3. QED
        BY <4>1, <4>2, <2>2
    <3>3. QED
      BY <3>2
  <2>7. CursorsOK' /\ EndIsNext'
    BY <2>1, <2>5, <2>6, <1>t, <1>c DEF CursorsOK, EndIsNext, NodeOf, In
  <2>8. QED
    BY <2>2, <2>4, <2>7 DEF IInv
<1>7. ASSUME NEW L \in Lists, GetOwnerOfNextEntry(L)
      PROVE  IInv'
  <2>1. /\ pxIndex' = [pxIndex EXCEPT ![L] = IF pxNext[@] = L THEN pxNext[L]
                                             ELSE pxNext[@]]
        /\ UNCHANGED <<pxNext, pxPrevious, xItemValue, pvContainer,
                       uxNumberOfItems, inserting, into, pxIterator>>
    BY <1>7 DEF GetOwnerOfNextEntry, walkVars
  <2>2. /\ In(pvContainer, L, pxNext[pxIndex[L]]) /\ pxNext[pxIndex[L]] \in Nodes
        /\ In(pvContainer, L, pxNext[L]) /\ pxNext[L] \in Nodes
    <3>1. In(pvContainer, L, L)
      BY DEF In
    <3>2. QED
      BY <3>1, <1>t, <1>l, <1>c, Neighbours
  <2>3. TypeOK'
    BY <2>1, <2>2, <1>t DEF TypeOK
  <2>4. LinksOK' /\ CountOK' /\ SortedLinks' /\ EndIsNext' /\ RingsAcyclic'
    BY <2>1, <1>t DEF LinksOK, CountOK, SortedLinks, EndIsNext, NodeOf, RingsAcyclic
  <2>5. CursorsOK'
    BY <2>1, <2>2, <1>t, <1>c DEF CursorsOK, NodeOf, In
  <2>6. QED
    BY <2>3, <2>4, <2>5 DEF IInv
<1>8. CASE UNCHANGED vars
  BY <1>8, <1>t DEF vars, IInv, TypeOK, LinksOK, CursorsOK, CountOK, SortedLinks,
                    EndIsNext, NodeOf, RingsAcyclic
<1>9. QED
  BY <1>1, <1>2, <1>3, <1>4, <1>5, <1>6, <1>7, <1>8 DEF Next

-----------------------------------------------------------------------------
(* The theorems, for any number of lists and items and any tick width.     *)

\* The inductive invariant of the pointer level holds in every reachable state.
THEOREM InvariantHolds == Spec => []IInv
BY InitIInv, NextIInv, PTL DEF Spec

\* The variables of list.c keep their types.
THEOREM TypeCorrect == Spec => []TypeOK
BY InvariantHolds, PTL DEF IInv

\* After any sequence of insertions and removals, with interrupts using the
\* other lists between two iterations of vListInsert, next and previous
\* pointers are inverse to each other and stay within one list.
THEOREM RingsIntact == Spec => []LinksOK
BY InvariantHolds, PTL DEF IInv

\* pxIndex is never left at an item that vListRemove took away, and the
\* iterator of vListInsert is always at a node of the list it inserts into.
THEOREM CursorsStay == Spec => []CursorsOK
BY InvariantHolds, PTL DEF IInv

\* uxNumberOfItems is exact, so listLIST_IS_EMPTY can be trusted.
THEOREM CountExact == Spec => []CountOK
BY InvariantHolds, PTL DEF IInv

\* A list filled by vListInsert is sorted, so that its head is the item with
\* the smallest value: the task to wake first.
THEOREM OrderKept == Spec => []SortedLinks
BY InvariantHolds, PTL DEF IInv

\* No item is cut off from the xListEnd of its list on a cycle of its own:
\* following pxNext from any item, as vListInsert does, arrives there.
THEOREM NoCycleMissesTheEnd == Spec => []RingsAcyclic
BY InvariantHolds, PTL DEF IInv

-----------------------------------------------------------------------------
(* The refinement: the pointers read as a list state xl of module XList,   *)
(* whose lemmas are used at the constants of this module.                  *)

XL == INSTANCE XList_proofs

\* The i-th node of list L with ring r: xListEnd before and after the items.
NodeAt(r, L, i) == IF i \in 1 .. Len(r) THEN r[i] ELSE L

\* Following nxt from the xListEnd of L passes the ring of L in xl, and the
\* other pointers and counters say the same as xl.
Reads(xl, nxt, c, v, idx, num) ==
  /\ XL!ListsOK(xl, Lists, Items)
  /\ xl.container = c
  /\ xl.value = [x \in Items |-> v[x]]
  /\ \A L \in Lists :
       /\ num[L] = Len(xl.ring[L])
       /\ idx[L] = NodeAt(xl.ring[L], L, xl.index[L])
       /\ \A i \in 0 .. Len(xl.ring[L]) :
            nxt[NodeAt(xl.ring[L], L, i)] = NodeAt(xl.ring[L], L, i + 1)

\* Types of the parts of a well-formed list state.
LEMMA ListStateType ==
  ASSUME NEW xl, XL!ListsOK(xl, Lists, Items)
  PROVE  /\ xl.ring \in [Lists -> Seq(Items)] /\ xl.index \in [Lists -> Nat]
         /\ xl.container \in [Items -> Lists \cup {Null}]
         /\ xl.value \in [Items -> TickType]
         /\ xl = [ring |-> xl.ring, index |-> xl.index,
                  container |-> xl.container, value |-> xl.value]
         /\ \A L \in Lists :
              /\ xl.ring[L] \in Seq(Items) /\ Len(xl.ring[L]) \in Nat
              /\ xl.index[L] \in 0 .. Len(xl.ring[L])
<1>1. /\ xl.ring \in [Lists -> Seq(Items)] /\ xl.index \in [Lists -> Nat]
      /\ xl.container \in [Items -> Lists \cup {Null}]
      /\ xl.value \in [Items -> TickType]
      /\ xl = [ring |-> xl.ring, index |-> xl.index,
               container |-> xl.container, value |-> xl.value]
  BY DEF XL!ListsOK, XL!XLists, XL!TickType, TickType
<1>2. \A L \in Lists : xl.index[L] <= Len(xl.ring[L])
  BY DEF XL!ListsOK, XL!IndexInRing
<1>3. \A L \in Lists : xl.ring[L] \in Seq(Items) /\ Len(xl.ring[L]) \in Nat
  BY <1>1, LenProperties
<1>4. QED
  BY <1>1, <1>2, <1>3

\* The nodes of a ring belong to its list, and none is passed twice.
LEMMA NodesOfRing ==
  ASSUME NEW xl, XL!ListsOK(xl, Lists, Items), NEW L \in Lists
  PROVE  /\ \A i \in Int : In(xl.container, L, NodeAt(xl.ring[L], L, i))
         /\ \A i, j \in 0 .. Len(xl.ring[L]) :
              NodeAt(xl.ring[L], L, i) = NodeAt(xl.ring[L], L, j) => i = j
<1> DEFINE r == xl.ring[L]
<1>1. \A i \in 1 .. Len(r) : r[i] \in Items /\ xl.container[r[i]] = L
  BY XL!RingItem, HeapAssumption
<1>2. \A i, j \in 1 .. Len(r) : r[i] = r[j] => i = j
  BY DEF XL!ListsOK, XL!NoDuplicates
<1>3. L \notin Items
  BY HeapAssumption
<1>4. Len(r) \in Nat
  BY ListStateType
<1> HIDE DEF r
<1>5. \A i, j \in 0 .. Len(r) : NodeAt(r, L, i) = NodeAt(r, L, j) => i = j
  BY <1>1, <1>2, <1>3, <1>4 DEF NodeAt
<1>6. \A i \in Int : In(xl.container, L, NodeAt(r, L, i))
  BY <1>1 DEF NodeAt, In
<1>7. QED
  BY <1>5, <1>6 DEF r

-----------------------------------------------------------------------------
(* What the mapping computes: Hop is a function, and it passes the ring.   *)

Hops(nxt, L) ==
  LET node[i \in 0 .. Cardinality(Items)] ==
        IF i = 0 THEN L ELSE nxt[node[i - 1]]
  IN  node

\* The path from xListEnd exists for every number of steps: the set of
\* the numbers of steps for which it does has no smallest number outside.
LEMMA HopsExist ==
  ASSUME NEW nxt, NEW L
  PROVE  Hops(nxt, L) = [i \in 0 .. Cardinality(Items) |->
                           IF i = 0 THEN L ELSE nxt[Hops(nxt, L)[i - 1]]]
<1> DEFINE Path(m, f) == f = [i \in 0 .. m |-> IF i = 0 THEN L ELSE nxt[f[i - 1]]]
           Missing == {m \in Nat : ~ \E f : Path(m, f)}
<1>1. \E f : Path(0, f)
  <2>1. Path(0, [i \in 0 .. 0 |-> L])
    OBVIOUS
  <2>2. QED
    BY <2>1
<1>2. ASSUME NEW m \in Nat, NEW f, Path(m, f)
      PROVE  \E g : Path(m + 1, g)
  <2> DEFINE g == [i \in 0 .. m + 1 |-> IF i = 0 THEN L ELSE nxt[f[i - 1]]]
  <2>1. ASSUME NEW i \in 0 .. m PROVE g[i] = f[i]
    <3> DEFINE F == [k \in 0 .. m |-> IF k = 0 THEN L ELSE nxt[f[k - 1]]]
    <3>1. f = F
      BY <1>2
    <3>2. F[i] = IF i = 0 THEN L ELSE nxt[f[i - 1]]
      OBVIOUS
    <3>3. g[i] = IF i = 0 THEN L ELSE nxt[f[i - 1]]
      OBVIOUS
    <3> HIDE DEF F, g
    <3>4. QED
      BY <3>1, <3>2, <3>3
  <2>2. \A i \in 1 .. m + 1 : i - 1 \in 0 .. m
    OBVIOUS
  <2>3. g = [i \in 0 .. m + 1 |-> IF i = 0 THEN L ELSE nxt[g[i - 1]]]
    <3> HIDE DEF Path
    <3>1. \A i \in 0 .. m + 1 : i # 0 => g[i - 1] = f[i - 1]
      BY <2>1, <2>2
    <3> HIDE DEF g
    <3>2. \A i \in 0 .. m + 1 :
            (IF i = 0 THEN L ELSE nxt[f[i - 1]])
              = (IF i = 0 THEN L ELSE nxt[g[i - 1]])
      BY <3>1
    <3>3. QED
      BY <3>2 DEF g
  <2>4. QED
    BY <2>3
<1>3. Missing = {}
  <2>1. SUFFICES ASSUME Missing # {} PROVE FALSE
    OBVIOUS
  <2>2. Missing \subseteq Nat
    OBVIOUS
  <2> HIDE DEF Missing
  <2>3. PICK m \in Missing : \A k \in Missing : m <= k
    BY <2>1, <2>2, XL!SmallestExists, HeapAssumption
  <2> USE DEF Missing
  <2> HIDE DEF Path
  <2>4. m \in Nat /\ ~ \E f : Path(m, f)
    OBVIOUS
  <2>5. m # 0
    BY <1>1, <2>4
  <2>6. m - 1 \in Nat /\ m - 1 \notin Missing
    BY <2>3, <2>4, <2>5
  <2>7. PICK f : Path(m - 1, f)
    BY <2>6
  <2>8. \E g : Path((m - 1) + 1, g)
    BY <1>2, <2>6, <2>7
  <2>9. QED
    BY <2>4, <2>8, (m - 1) + 1 = m
<1>4. Cardinality(Items) \in Nat
  BY HeapAssumption, FS_CardinalityType
<1>5. PICK f : Path(Cardinality(Items), f)
  BY <1>3, <1>4
<1>6. f = [i \in 0 .. Cardinality(Items) |-> IF i = 0 THEN L ELSE nxt[f[i - 1]]]
  BY <1>5
<1>7. QED
  BY <1>6 DEF Hops

\* On the way round a list of at most Cardinality(Items) items, Hops passes
\* the nodes of the ring in order.
LEMMA HopsPassRing ==
  ASSUME NEW xl, NEW nxt, NEW c, NEW v, NEW idx, NEW num,
         Reads(xl, nxt, c, v, idx, num), NEW L \in Lists,
         Len(xl.ring[L]) <= Cardinality(Items)
  PROVE  \A i \in 0 .. Len(xl.ring[L]) :
           Hops(nxt, L)[i] = NodeAt(xl.ring[L], L, i)
<1> DEFINE r == xl.ring[L]
           H == Hops(nxt, L)
           Off == {i \in 0 .. Len(r) : H[i] # NodeAt(r, L, i)}
<1>1. /\ Len(r) \in Nat /\ Cardinality(Items) \in Nat
      /\ Len(r) <= Cardinality(Items)
  BY ListStateType, HeapAssumption, FS_CardinalityType DEF Reads
<1>2. \A i \in 0 .. Len(r) : nxt[NodeAt(r, L, i)] = NodeAt(r, L, i + 1)
  BY DEF Reads
<1> HIDE DEF r
<1>3. \A i \in 0 .. Cardinality(Items) : H[i] = IF i = 0 THEN L ELSE nxt[H[i - 1]]
  <2> DEFINE F == [i \in 0 .. Cardinality(Items) |->
                     IF i = 0 THEN L ELSE nxt[H[i - 1]]]
  <2>1. H = F
    BY HopsExist
  <2>2. \A i \in 0 .. Cardinality(Items) : F[i] = IF i = 0 THEN L ELSE nxt[H[i - 1]]
    OBVIOUS
  <2> HIDE DEF F, H
  <2>3. QED
    BY <2>1, <2>2
<1> HIDE DEF H
<1>4. NodeAt(r, L, 0) = L
  BY DEF NodeAt
<1>5. Off = {}
  <2>1. SUFFICES ASSUME Off # {} PROVE FALSE
    OBVIOUS
  <2>2. Off \subseteq Nat
    BY <1>1
  <2> HIDE DEF Off
  <2>3. PICK i \in Off : \A k \in Off : i <= k
    BY <2>1, <2>2, XL!SmallestExists, HeapAssumption
  <2> USE DEF Off
  <2>4. i \in 0 .. Len(r) /\ H[i] # NodeAt(r, L, i)
    OBVIOUS
  <2>5. i # 0
    BY <1>1, <1>3, <1>4, <2>4
  <2>6. i - 1 \in 0 .. Len(r) /\ i - 1 \notin Off
    BY <1>1, <2>2, <2>3, <2>4, <2>5
  <2>7. H[i - 1] = NodeAt(r, L, i - 1)
    BY <2>6
  <2>8. H[i] = nxt[H[i - 1]]
    BY <1>1, <1>3, <2>4, <2>5
  <2>9. (i - 1) + 1 = i
    BY <2>4, <1>1
  <2>10. QED
    BY <1>2, <2>4, <2>6, <2>7, <2>8, <2>9
<1>6. QED
  BY <1>5 DEF Off, r, H

\* The mapping AbstractXL, of any pointers and counters.
ReadOff(nxt, c, v, idx, num) ==
  [ring      |-> [L \in Lists |-> [i \in 1 .. num[L] |-> Hops(nxt, L)[i]]],
   index     |-> [L \in Lists |-> CHOOSE i \in 0 .. num[L] :
                                    Hops(nxt, L)[i] = idx[L]],
   container |-> c,
   value     |-> [x \in Items |-> v[x]]]

\* The mapping reads the list state that the pointers stand for.
LEMMA ReadOffIsRead ==
  ASSUME NEW xl, NEW nxt, NEW c, NEW v, NEW idx, NEW num,
         Reads(xl, nxt, c, v, idx, num),
         \A L \in Lists : num[L] = Cardinality(Members(c, L))
  PROVE  ReadOff(nxt, c, v, idx, num) = xl
<1>1. /\ XL!ListsOK(xl, Lists, Items)
      /\ xl.container = c
      /\ xl.value = [x \in Items |-> v[x]]
      /\ \A L \in Lists : num[L] = Len(xl.ring[L])
      /\ \A L \in Lists : idx[L] = NodeAt(xl.ring[L], L, xl.index[L])
  BY DEF Reads
<1>2. /\ xl.ring \in [Lists -> Seq(Items)] /\ xl.index \in [Lists -> Nat]
      /\ xl = [ring |-> xl.ring, index |-> xl.index,
               container |-> xl.container, value |-> xl.value]
      /\ \A L \in Lists :
           /\ xl.ring[L] \in Seq(Items) /\ Len(xl.ring[L]) \in Nat
           /\ xl.index[L] \in 0 .. Len(xl.ring[L])
  BY <1>1, ListStateType
<1>3. ASSUME NEW L \in Lists
      PROVE  /\ [i \in 1 .. num[L] |-> Hops(nxt, L)[i]] = xl.ring[L]
             /\ (CHOOSE i \in 0 .. num[L] : Hops(nxt, L)[i] = idx[L]) = xl.index[L]
  <2> DEFINE r == xl.ring[L]
             n == Len(r)
  <2>1. n = num[L] /\ n \in Nat /\ r \in Seq(Items)
    BY <1>1, <1>2
  <2>2. n <= Cardinality(Items)
    <3>1. Members(c, L) \subseteq Items
      BY DEF Members
    <3>2. Cardinality(Members(c, L)) <= Cardinality(Items)
      BY <3>1, HeapAssumption, FS_Subset
    <3>3. QED
      BY <2>1, <3>2
  <2>3. \A i \in 0 .. n : Hops(nxt, L)[i] = NodeAt(r, L, i)
    BY <2>2, HopsPassRing
  <2>4. r = [i \in 1 .. n |-> r[i]]
    BY <2>1, LenProperties
  <2>5. \A i, j \in 0 .. n : NodeAt(r, L, i) = NodeAt(r, L, j) => i = j
    BY <1>1, NodesOfRing
  <2>6. xl.index[L] \in 0 .. n /\ idx[L] = NodeAt(r, L, xl.index[L])
    BY <1>1, <1>2
  <2> HIDE DEF r
  <2>7. \A i \in 1 .. n : i \in 0 .. n /\ NodeAt(r, L, i) = r[i]
    BY <2>1 DEF NodeAt
  <2> HIDE DEF n
  <2>8. [i \in 1 .. n |-> Hops(nxt, L)[i]] = r
    <3>1. \A i \in 1 .. n : Hops(nxt, L)[i] = r[i]
      BY <2>3, <2>7
    <3>2. [i \in 1 .. n |-> Hops(nxt, L)[i]] = [i \in 1 .. n |-> r[i]]
      BY <3>1, Zenon
    <3>3. QED
      BY <3>2, <2>4, Zenon
  <2>9. (CHOOSE i \in 0 .. n : Hops(nxt, L)[i] = idx[L]) = xl.index[L]
    <3>1. Hops(nxt, L)[xl.index[L]] = idx[L]
      BY <2>3, <2>6
    <3>2. \A i \in 0 .. n : Hops(nxt, L)[i] = idx[L] => i = xl.index[L]
      BY <2>3, <2>5, <2>6
    <3>3. QED
      BY <3>1, <3>2, <2>6
  <2>10. QED
    BY <2>1, <2>8, <2>9, Zenon DEF r
<1>4. [L \in Lists |-> [i \in 1 .. num[L] |-> Hops(nxt, L)[i]]] = xl.ring
  <2> DEFINE R == [L \in Lists |-> [i \in 1 .. num[L] |-> Hops(nxt, L)[i]]]
  <2>1. \A L \in Lists : R[L] = xl.ring[L]
    BY <1>3
  <2>2. R = [L \in Lists |-> R[L]] /\ xl.ring = [L \in Lists |-> xl.ring[L]]
    BY <1>2
  <2> HIDE DEF R
  <2>3. QED
    BY <2>1, <2>2 DEF R
<1>5. [L \in Lists |-> CHOOSE i \in 0 .. num[L] : Hops(nxt, L)[i] = idx[L]]
        = xl.index
  <2> DEFINE R == [L \in Lists |-> CHOOSE i \in 0 .. num[L] :
                                     Hops(nxt, L)[i] = idx[L]]
  <2>1. \A L \in Lists : R[L] = xl.index[L]
    BY <1>3
  <2>2. R = [L \in Lists |-> R[L]] /\ xl.index = [L \in Lists |-> xl.index[L]]
    BY <1>2
  <2> HIDE DEF R
  <2>3. QED
    BY <2>1, <2>2 DEF R
<1>6. QED
  BY <1>1, <1>2, <1>4, <1>5, Zenon DEF ReadOff

-----------------------------------------------------------------------------
(* Each call of the package, on the pointers and on the list state.        *)

\* Moving pxIndex to another node of its list.
LEMMA SetIndexReads ==
  ASSUME NEW xl, NEW nxt, NEW c, NEW v, NEW idx \in [Lists -> Nodes], NEW num,
         Reads(xl, nxt, c, v, idx, num), NEW L \in Lists,
         NEW i \in 0 .. Len(xl.ring[L])
  PROVE  Reads([xl EXCEPT !.index[L] = i], nxt, c, v,
               [idx EXCEPT ![L] = NodeAt(xl.ring[L], L, i)], num)
<1> DEFINE yl == [xl EXCEPT !.index[L] = i]
<1>1. /\ XL!ListsOK(xl, Lists, Items)
      /\ xl.container = c
      /\ xl.value = [x \in Items |-> v[x]]
      /\ \A M \in Lists :
           /\ num[M] = Len(xl.ring[M])
           /\ idx[M] = NodeAt(xl.ring[M], M, xl.index[M])
           /\ \A j \in 0 .. Len(xl.ring[M]) :
                nxt[NodeAt(xl.ring[M], M, j)] = NodeAt(xl.ring[M], M, j + 1)
  BY DEF Reads
<1>2. Len(xl.ring[L]) \in Nat /\ xl.index \in [Lists -> Nat]
  BY <1>1, ListStateType
<1>3. i \in Nat /\ i <= Len(xl.ring[L])
  BY <1>2
<1>4. /\ XL!ListsOK(yl, Lists, Items)
      /\ yl.ring = xl.ring /\ yl.container = xl.container /\ yl.value = xl.value
      /\ yl.index = [xl.index EXCEPT ![L] = i]
  BY <1>1, <1>3, XL!SetIndexOK, HeapAssumption
<1> HIDE DEF yl
<1>5. \A M \in Lists :
        [idx EXCEPT ![L] = NodeAt(xl.ring[L], L, i)][M]
          = NodeAt(yl.ring[M], M, yl.index[M])
  BY <1>1, <1>2, <1>4
<1>6. Reads(yl, nxt, c, v, [idx EXCEPT ![L] = NodeAt(xl.ring[L], L, i)], num)
  BY <1>1, <1>4, <1>5 DEF Reads
<1>7. QED
  BY <1>6 DEF yl

\* Linking an item in as the i-th of a list goes after its node i - 1.
LEMMA LinkReads ==
  ASSUME NEW xl, NEW nxt \in [Nodes -> Nodes \cup {Null}], NEW c, NEW v,
         NEW idx, NEW num \in [Lists -> Nat],
         Reads(xl, nxt, c, v, idx, num),
         NEW L \in Lists, NEW x \in Items, c[x] = Null,
         NEW i \in 1 .. Len(xl.ring[L]) + 1,
         NEW n, n = NodeAt(xl.ring[L], L, i - 1)
  PROVE  Reads(XL!LinkAt(xl, L, x, i), NextLinked(nxt, x, n),
               Contained(c, x, L), v, idx, [num EXCEPT ![L] = @ + 1])
<1> DEFINE yl == XL!LinkAt(xl, L, x, i)
           s == xl.ring[L]
           t == yl.ring[L]
           nxt2 == NextLinked(nxt, x, n)
           num2 == [num EXCEPT ![L] = @ + 1]
<1>1. /\ XL!ListsOK(xl, Lists, Items)
      /\ xl.container = c
      /\ xl.value = [y \in Items |-> v[y]]
      /\ \A M \in Lists :
           /\ num[M] = Len(xl.ring[M])
           /\ idx[M] = NodeAt(xl.ring[M], M, xl.index[M])
           /\ \A j \in 0 .. Len(xl.ring[M]) :
                nxt[NodeAt(xl.ring[M], M, j)] = NodeAt(xl.ring[M], M, j + 1)
  BY DEF Reads
<1>2. /\ Len(s) \in Nat /\ i \in 1 .. Len(s) + 1
      /\ c \in [Items -> Lists \cup {Null}]
      /\ \A M \in Lists : /\ Len(xl.ring[M]) \in Nat
                          /\ xl.index[M] \in 0 .. Len(xl.ring[M])
  BY <1>1, ListStateType
<1>a. Null \notin Lists /\ L \notin Items /\ x \in Nodes
  BY HeapAssumption DEF Nodes
<1>3. XL!Moved(xl, yl, Lists, Items, x, L)
  BY <1>1, <1>a, XL!LinkAtKeeps, HeapAssumption
<1>4. XL!Linked(xl, yl, Lists, L, x, i)
  BY <1>1, <1>a, XL!LinkAtType, HeapAssumption
<1> HIDE DEF yl
<1>5. /\ XL!ListsOK(yl, Lists, Items)
      /\ yl.container = Contained(c, x, L) /\ yl.value = xl.value
      /\ \A M \in Lists \ {L} : yl.ring[M] = xl.ring[M] /\ yl.index[M] = xl.index[M]
      /\ yl.index[L] = IF i <= xl.index[L] THEN xl.index[L] + 1 ELSE xl.index[L]
      /\ Len(t) = Len(s) + 1
      /\ \A j \in 1 .. Len(s) + 1 :
           t[j] = IF j < i THEN s[j] ELSE IF j = i THEN x ELSE s[j - 1]
  BY <1>1, <1>3, <1>4 DEF XL!Moved, XL!Linked, Contained
<1>6. /\ In(c, L, n) /\ n \in Nodes /\ x # n
      /\ \A M \in Lists, j \in Int : In(c, M, NodeAt(xl.ring[M], M, j))
      /\ \A M \in Lists : \A m : In(c, M, m) => m # x /\ m \in Nodes
      /\ \A M \in Lists : \A m : In(c, M, m) /\ m = n => M = L
  <2>1. \A M \in Lists, j \in Int : In(c, M, NodeAt(xl.ring[M], M, j))
    BY <1>1, NodesOfRing
  <2>2. In(c, L, n)
    BY <2>1, <1>2
  <2>3. \A M \in Lists : \A m : In(c, M, m) => m # x
    BY <1>a, HeapAssumption DEF In
  <2>4. QED
    BY <1>2, <2>1, <2>2, <2>3, OneList
<1>7. /\ nxt2[x] = nxt[n] /\ nxt2[n] = x
      /\ \A m \in Nodes : m # x /\ m # n => nxt2[m] = nxt[m]
  BY <1>a, <1>6 DEF NextLinked
<1> HIDE DEF nxt2, s, t
<1>8. \A j \in 0 .. Len(s) + 2 :
        NodeAt(t, L, j) = IF j < i THEN NodeAt(s, L, j)
                          ELSE IF j = i THEN x ELSE NodeAt(s, L, j - 1)
  BY <1>2, <1>5 DEF NodeAt
<1>9. ASSUME NEW j \in 0 .. Len(t)
      PROVE  nxt2[NodeAt(t, L, j)] = NodeAt(t, L, j + 1)
  <2>1. /\ j \in 0 .. Len(s) + 2 /\ j + 1 \in 0 .. Len(s) + 2 /\ j \in Int
        /\ (j + 1) - 1 = j /\ (j - 1) + 1 = j
    BY <1>2, <1>5
  <2>2. \A k \in 0 .. Len(s) : k # i - 1 => nxt2[NodeAt(s, L, k)] = NodeAt(s, L, k + 1)
    <3>1. TAKE k \in 0 .. Len(s)
    <3>2. HAVE k # i - 1
    <3>3. NodeAt(s, L, k) # n
      BY <1>1, <1>2, <3>2, NodesOfRing DEF s
    <3>4. In(c, L, NodeAt(s, L, k))
      BY <1>2, <1>6 DEF s
    <3>5. nxt[NodeAt(s, L, k)] = NodeAt(s, L, k + 1)
      BY <1>1 DEF s
    <3>6. QED
      BY <3>3, <3>4, <3>5, <1>6, <1>7
  <2>3. nxt[n] = NodeAt(s, L, i)
    <3>1. i - 1 \in 0 .. Len(s) /\ (i - 1) + 1 = i
      BY <1>2
    <3>2. QED
      BY <3>1, <1>1 DEF s
  <2>4. CASE j + 1 < i
    BY <2>4, <2>1, <2>2, <1>2, <1>8
  <2>5. CASE j + 1 = i
    <3>1. NodeAt(t, L, j) = n
      BY <2>5, <2>1, <1>2, <1>8 DEF s
    <3>2. NodeAt(t, L, j + 1) = x
      BY <2>5, <2>1, <1>8
    <3>3. QED
      BY <3>1, <3>2, <1>7
  <2>6. CASE j = i
    <3>1. NodeAt(t, L, j) = x
      BY <2>6, <2>1, <1>8
    <3>2. NodeAt(t, L, j + 1) = NodeAt(s, L, i)
      BY <2>6, <2>1, <1>2, <1>8
    <3>3. QED
      BY <3>1, <3>2, <2>3, <1>7
  <2>7. CASE j > i
    <3>1. j - 1 \in 0 .. Len(s) /\ j - 1 # i - 1
      BY <2>7, <1>2, <1>5
    <3>2. NodeAt(t, L, j) = NodeAt(s, L, j - 1)
      BY <2>7, <2>1, <1>2, <1>8
    <3>3. NodeAt(t, L, j + 1) = NodeAt(s, L, j)
      BY <2>7, <2>1, <1>2, <1>8
    <3>4. QED
      BY <3>1, <3>2, <3>3, <2>1, <2>2
  <2>8. QED
    BY <2>1, <2>4, <2>5, <2>6, <2>7, <1>2
<1>10. idx[L] = NodeAt(t, L, yl.index[L])
  <2>1. /\ xl.index[L] \in 0 .. Len(s) /\ idx[L] = NodeAt(s, L, xl.index[L])
    BY <1>1, <1>2 DEF s
  <2>2. CASE i <= xl.index[L]
    <3>1. /\ yl.index[L] = xl.index[L] + 1 /\ xl.index[L] + 1 \in 0 .. Len(s) + 2
          /\ ~ (xl.index[L] + 1 < i) /\ xl.index[L] + 1 # i
          /\ (xl.index[L] + 1) - 1 = xl.index[L]
      BY <2>1, <2>2, <1>2, <1>5
    <3>2. QED
      BY <2>1, <3>1, <1>8
  <2>3. CASE ~ (i <= xl.index[L])
    <3>1. /\ yl.index[L] = xl.index[L] /\ xl.index[L] \in 0 .. Len(s) + 2
          /\ xl.index[L] < i
      BY <2>1, <2>3, <1>2, <1>5
    <3>2. QED
      BY <2>1, <3>1, <1>8
  <2>4. QED
    BY <2>2, <2>3
<1>11. ASSUME NEW M \in Lists
       PROVE  /\ num2[M] = Len(yl.ring[M])
              /\ idx[M] = NodeAt(yl.ring[M], M, yl.index[M])
              /\ \A j \in 0 .. Len(yl.ring[M]) :
                   nxt2[NodeAt(yl.ring[M], M, j)] = NodeAt(yl.ring[M], M, j + 1)
  <2>1. CASE M = L
    <3>1. num2[L] = Len(t)
      BY <1>1, <1>2, <1>5 DEF s
    <3>2. QED
      BY <2>1, <3>1, <1>9, <1>10, Zenon DEF t
  <2>2. CASE M # L
    <3>1. yl.ring[M] = xl.ring[M] /\ yl.index[M] = xl.index[M] /\ num2[M] = num[M]
      BY <2>2, <1>5
    <3>2. ASSUME NEW j \in 0 .. Len(xl.ring[M])
          PROVE  nxt2[NodeAt(xl.ring[M], M, j)] = NodeAt(xl.ring[M], M, j + 1)
      <4>1. In(c, M, NodeAt(xl.ring[M], M, j))
        BY <1>2, <1>6
      <4>2. nxt2[NodeAt(xl.ring[M], M, j)] = nxt[NodeAt(xl.ring[M], M, j)]
        BY <4>1, <2>2, <1>6, <1>7
      <4>3. QED
        BY <4>2, <1>1
    <3>3. QED
      BY <3>1, <3>2, <1>1
  <2>3. QED
    BY <2>1, <2>2
<1>12. Reads(yl, nxt2, Contained(c, x, L), v, idx, num2)
  <2> HIDE DEF num2
  <2>1. QED
    BY <1>1, <1>5, <1>11 DEF Reads
<1>13. QED
  BY <1>12 DEF yl, nxt2

\* Unlinking an item of a list takes it out of the ring, and a pxIndex that
\* points to it goes to the node before.
LEMMA UnlinkReads ==
  ASSUME NEW xl, NEW nxt \in [Nodes -> Nodes \cup {Null}], NEW prv,
         NEW c, NEW v, NEW idx \in [Lists -> Nodes], NEW num \in [Lists -> Nat],
         Reads(xl, nxt, c, v, idx, num), Links(nxt, prv, c),
         NEW x \in Items, c[x] \in Lists,
         NEW idx2, idx2 = IF idx[c[x]] = x THEN [idx EXCEPT ![c[x]] = prv[x]]
                          ELSE idx,
         NEW num2, num2 = [num EXCEPT ![c[x]] = @ - 1]
  PROVE  Reads(XL!vListRemove(xl, x), NextUnlinked(nxt, prv, x),
               Contained(c, x, Null), v, idx2, num2)
<1> DEFINE L == c[x]
           i == XL!PositionOf(xl, L, x)
           yl == XL!vListRemove(xl, x)
           s == xl.ring[L]
           t == yl.ring[L]
           nxt2 == NextUnlinked(nxt, prv, x)
<1>1. /\ XL!ListsOK(xl, Lists, Items)
      /\ xl.container = c
      /\ xl.value = [y \in Items |-> v[y]]
      /\ \A M \in Lists :
           /\ num[M] = Len(xl.ring[M])
           /\ idx[M] = NodeAt(xl.ring[M], M, xl.index[M])
           /\ \A j \in 0 .. Len(xl.ring[M]) :
                nxt[NodeAt(xl.ring[M], M, j)] = NodeAt(xl.ring[M], M, j + 1)
  BY DEF Reads
<1>2. /\ s \in Seq(Items) /\ Len(s) \in Nat
      /\ xl.ring \in [Lists -> Seq(Items)]
      /\ xl.index \in [Lists -> Nat]
      /\ c \in [Items -> Lists \cup {Null}]
      /\ \A M \in Lists : /\ Len(xl.ring[M]) \in Nat
                          /\ xl.index[M] \in 0 .. Len(xl.ring[M])
  BY <1>1, ListStateType
<1>a. Null \notin Lists /\ L \notin Items /\ x \in Nodes /\ L \in Lists
  BY HeapAssumption DEF Nodes
<1>3. XL!Moved(xl, yl, Lists, Items, x, Null)
  BY <1>1, <1>a, XL!RemoveKeeps, HeapAssumption
<1>4. i \in 1 .. Len(s) /\ s[i] = x
  BY <1>1, <1>a, XL!PositionInRing, HeapAssumption
<1>5. /\ yl.ring = [xl.ring EXCEPT ![L] = XL!RemoveAt(s, i)]
      /\ yl.index = [xl.index EXCEPT ![L] = IF i <= @ THEN @ - 1 ELSE @]
  BY <1>1 DEF XL!vListRemove
<1> HIDE DEF yl, i
<1>6. /\ Len(XL!RemoveAt(s, i)) = Len(s) - 1
      /\ \A j \in 1 .. Len(s) - 1 :
           XL!RemoveAt(s, i)[j] = IF j < i THEN s[j] ELSE s[j + 1]
  <2> HIDE DEF s
  <2>1. QED
    BY <1>2, <1>4, XL!RemoveAtProperties, HeapAssumption
<1>7. /\ XL!ListsOK(yl, Lists, Items)
      /\ yl.container = Contained(c, x, Null) /\ yl.value = xl.value
      /\ \A M \in Lists \ {L} : yl.ring[M] = xl.ring[M] /\ yl.index[M] = xl.index[M]
      /\ yl.index[L] = IF i <= xl.index[L] THEN xl.index[L] - 1 ELSE xl.index[L]
      /\ Len(t) = Len(s) - 1
      /\ \A j \in 1 .. Len(s) - 1 : t[j] = IF j < i THEN s[j] ELSE s[j + 1]
  BY <1>1, <1>2, <1>3, <1>5, <1>6 DEF XL!Moved, Contained
<1> DEFINE p == NodeAt(s, L, i - 1)
<1>8. /\ NodeAt(s, L, i) = x /\ nxt[p] = x /\ nxt[x] = NodeAt(s, L, i + 1)
      /\ In(c, L, p) /\ p \in Nodes /\ prv[x] = p
      /\ \A M \in Lists, j \in Int : In(c, M, NodeAt(xl.ring[M], M, j))
      /\ \A M \in Lists : \A m : In(c, M, m) =>
           /\ m \in Nodes
           /\ m = p => M = L
           /\ m = x => M = L
  <2>1. \A M \in Lists, j \in Int : In(c, M, NodeAt(xl.ring[M], M, j))
    BY <1>1, NodesOfRing
  <2>2. In(c, L, p)
    BY <2>1, <1>a, <1>2, <1>4
  <2>3. NodeAt(s, L, i) = x
    BY <1>4 DEF NodeAt
  <2>4. i - 1 \in 0 .. Len(s) /\ i \in 0 .. Len(s) /\ (i - 1) + 1 = i
    BY <1>2, <1>4
  <2>5. nxt[p] = x /\ nxt[x] = NodeAt(s, L, i + 1)
    <3>1. \A k \in 0 .. Len(s) : nxt[NodeAt(s, L, k)] = NodeAt(s, L, k + 1)
      BY <1>1, <1>a
    <3> HIDE DEF s, L
    <3>2. QED
      BY <3>1, <2>3, <2>4
  <2> HIDE DEF p, s, L
  <2>6. p \in Nodes /\ prv[nxt[p]] = p
    <3>1. p \in Nodes
      BY <2>2, <1>a, <1>2, OneList
    <3>2. QED
      BY <3>1, <2>2, <1>a DEF Links
  <2>7. In(c, L, x)
    BY DEF In, L
  <2>8. ASSUME NEW M \in Lists, NEW m, In(c, M, m)
        PROVE  /\ m \in Nodes
               /\ m = p => M = L
               /\ m = x => M = L
    <3>1. m \in Nodes /\ (In(c, L, m) => M = L)
      BY <2>8, <1>a, <1>2, OneList
    <3>2. QED
      BY <3>1, <2>2, <2>7
  <2>9. QED
    BY <2>1, <2>2, <2>3, <2>5, <2>6, <2>8
<1>9. nxt2[p] = nxt[x] /\ \A m \in Nodes : m # p => nxt2[m] = nxt[m]
  BY <1>8 DEF NextUnlinked
<1>b. \A k, m \in 0 .. Len(s) : NodeAt(s, L, k) = NodeAt(s, L, m) => k = m
  BY <1>1, <1>a, NodesOfRing
<1> HIDE DEF nxt2
<1>10. \A j \in 0 .. Len(s) :
         NodeAt(t, L, j) = IF j < i THEN NodeAt(s, L, j) ELSE NodeAt(s, L, j + 1)
  <2> HIDE DEF s, t, L
  <2>1. i \in Int /\ Len(s) \in Nat /\ Len(t) = Len(s) - 1 /\ 1 <= i /\ i <= Len(s)
    BY <1>2, <1>4, <1>7
  <2>2. ASSUME NEW j \in 0 .. Len(s), j < i
        PROVE  NodeAt(t, L, j) = NodeAt(s, L, j)
    <3>1. j \in 1 .. Len(s) => j \in 1 .. Len(s) - 1
      BY <2>1, <2>2
    <3>2. j \in 1 .. Len(s) => t[j] = s[j]
      BY <3>1, <2>2, <1>7
    <3>3. QED
      BY <3>1, <3>2, <2>1 DEF NodeAt
  <2>3. ASSUME NEW j \in 0 .. Len(s), ~ (j < i)
        PROVE  NodeAt(t, L, j) = NodeAt(s, L, j + 1)
    <3>1. /\ j \in 1 .. Len(s) - 1 <=> j + 1 \in 1 .. Len(s)
      BY <2>1, <2>3
    <3>2. j \in 1 .. Len(s) - 1 => t[j] = s[j + 1]
      BY <2>3, <1>7
    <3>3. QED
      BY <3>1, <3>2, <2>1 DEF NodeAt
  <2>4. QED
    BY <2>2, <2>3
<1>11. ASSUME NEW j \in 0 .. Len(t)
       PROVE  nxt2[NodeAt(t, L, j)] = NodeAt(t, L, j + 1)
  <2>1. /\ j \in 0 .. Len(s) /\ j + 1 \in 0 .. Len(s) /\ j \in Int
    BY <1>2, <1>4, <1>7
  <2>2. \A k \in 0 .. Len(s) : k # i - 1 => nxt2[NodeAt(s, L, k)] = NodeAt(s, L, k + 1)
    <3>1. TAKE k \in 0 .. Len(s)
    <3>2. HAVE k # i - 1
    <3>3. NodeAt(s, L, k) # p
      <4>1. i - 1 \in 0 .. Len(s)
        BY <1>2, <1>4
      <4> HIDE DEF s, L
      <4>2. QED
        BY <4>1, <1>b, <3>2
    <3>4. NodeAt(s, L, k) \in Nodes
      BY <1>2, <1>8, <1>a
    <3>5. nxt[NodeAt(s, L, k)] = NodeAt(s, L, k + 1)
      BY <1>1, <1>a
    <3>6. QED
      BY <3>3, <3>4, <3>5, <1>9
  <2> HIDE DEF s, t, L, p
  <2>3. CASE j + 1 < i
    <3>1. NodeAt(t, L, j) = NodeAt(s, L, j) /\ NodeAt(t, L, j + 1) = NodeAt(s, L, j + 1)
      BY <2>3, <2>1, <1>4, <1>10
    <3>2. j # i - 1
      BY <2>3, <2>1, <1>4
    <3>3. QED
      BY <3>1, <3>2, <2>1, <2>2
  <2>4. CASE j + 1 = i
    <3>1. NodeAt(t, L, j) = p
      BY <2>4, <2>1, <1>4, <1>10 DEF p
    <3>2. NodeAt(t, L, j + 1) = NodeAt(s, L, i + 1)
      BY <2>4, <2>1, <1>4, <1>10
    <3>3. QED
      BY <3>1, <3>2, <1>8, <1>9
  <2>5. CASE j >= i
    <3>1. NodeAt(t, L, j) = NodeAt(s, L, j + 1)
          /\ NodeAt(t, L, j + 1) = NodeAt(s, L, (j + 1) + 1)
      <4>1. ~ (j < i) /\ ~ (j + 1 < i)
        BY <2>5, <2>1, <1>2, <1>4
      <4>2. QED
        BY <4>1, <2>1, <1>10
    <3>2. j + 1 # i - 1
      BY <2>5, <2>1, <1>4
    <3>3. QED
      BY <3>1, <3>2, <2>1, <2>2
  <2>6. QED
    BY <2>1, <2>3, <2>4, <2>5, <1>4
<1>12. idx2[L] = NodeAt(t, L, yl.index[L])
  <2>1. xl.index[L] \in 0 .. Len(s) /\ idx[L] = NodeAt(s, L, xl.index[L])
    BY <1>1, <1>2, <1>a
  <2>2. idx[L] = x <=> xl.index[L] = i
    BY <2>1, <1>b, <1>2, <1>4, <1>8
  <2>3. idx2[L] = IF idx[L] = x THEN prv[x] ELSE idx[L]
    BY <1>a
  <2> HIDE DEF s, t, L, p
  <2>4. CASE xl.index[L] = i
    <3>1. yl.index[L] = i - 1 /\ i - 1 \in 0 .. Len(s) /\ i - 1 < i
      BY <2>4, <1>2, <1>4, <1>7
    <3>2. NodeAt(t, L, i - 1) = p
      BY <3>1, <1>10 DEF p
    <3>3. QED
      BY <3>1, <3>2, <2>2, <2>3, <2>4, <1>8
  <2>5. CASE xl.index[L] < i
    <3>1. yl.index[L] = xl.index[L]
      BY <2>1, <2>5, <1>4, <1>7
    <3>2. xl.index[L] # i
      BY <2>1, <2>5, <1>4
    <3>3. QED
      BY <3>1, <3>2, <2>1, <2>2, <2>3, <2>5, <1>10
  <2>6. CASE i < xl.index[L]
    <3>1. /\ yl.index[L] = xl.index[L] - 1 /\ xl.index[L] # i
          /\ xl.index[L] - 1 \in 0 .. Len(s) /\ ~ (xl.index[L] - 1 < i)
          /\ (xl.index[L] - 1) + 1 = xl.index[L]
      BY <2>1, <2>6, <1>4, <1>7
    <3>2. QED
      BY <3>1, <2>1, <2>2, <2>3, <1>10
  <2>7. QED
    BY <2>1, <2>4, <2>5, <2>6, <1>4
<1>13. ASSUME NEW M \in Lists
       PROVE  /\ num2[M] = Len(yl.ring[M])
              /\ idx2[M] = NodeAt(yl.ring[M], M, yl.index[M])
              /\ \A j \in 0 .. Len(yl.ring[M]) :
                   nxt2[NodeAt(yl.ring[M], M, j)] = NodeAt(yl.ring[M], M, j + 1)
  <2>1. CASE M = L
    <3>1. num2[L] = Len(t)
      BY <1>1, <1>a, <1>2, <1>7
    <3> HIDE DEF L
    <3>2. QED
      BY <2>1, <3>1, <1>11, <1>12, Zenon
  <2>2. CASE M # L
    <3>1. /\ yl.ring[M] = xl.ring[M] /\ yl.index[M] = xl.index[M]
          /\ num2[M] = num[M] /\ idx2[M] = idx[M]
      BY <2>2, <1>7
    <3>2. ASSUME NEW j \in 0 .. Len(xl.ring[M])
          PROVE  nxt2[NodeAt(xl.ring[M], M, j)] = NodeAt(xl.ring[M], M, j + 1)
      <4> HIDE DEF s, t, L, p
      <4>1. In(c, M, NodeAt(xl.ring[M], M, j))
        BY <1>2, <1>8
      <4>2. nxt2[NodeAt(xl.ring[M], M, j)] = nxt[NodeAt(xl.ring[M], M, j)]
        BY <4>1, <2>2, <1>8, <1>9
      <4>3. QED
        BY <4>2, <1>1
    <3>3. QED
      BY <3>1, <3>2, <1>1
  <2>3. QED
    BY <2>1, <2>2
<1>14. Reads(yl, nxt2, Contained(c, x, Null), v, idx2, num2)
  BY <1>1, <1>7, <1>13 DEF Reads
<1>15. QED
  BY <1>14 DEF yl, nxt2

\* The loop of vListInsert, stopped after the j-th node of a sorted list,
\* is where the list state has the item's place.
LEMMA StopsInPlace ==
  ASSUME NEW xl, NEW nxt, NEW c, NEW v \in [Nodes -> TickType], NEW idx, NEW num,
         Reads(xl, nxt, c, v, idx, num), NEW L \in Lists,
         v[L] = portMAX_DELAY,
         \A y \in Items : c[y] = L => v[y] <= v[nxt[y]],
         NEW w \in TickType, NEW j \in 0 .. Len(xl.ring[L]),
         w = portMAX_DELAY => nxt[NodeAt(xl.ring[L], L, j)] = L,
         w # portMAX_DELAY => w < v[nxt[NodeAt(xl.ring[L], L, j)]],
         NodeAt(xl.ring[L], L, j) \in Items => v[NodeAt(xl.ring[L], L, j)] <= w
  PROVE  XL!InsertPosition(xl, L, w) = j + 1
<1> DEFINE s == xl.ring[L]
           n == Len(s)
           Stops == XL!StopsFor(xl, L, w)
<1>1. /\ XL!ListsOK(xl, Lists, Items)
      /\ xl.container = c
      /\ xl.value = [y \in Items |-> v[y]]
      /\ \A k \in 0 .. n : nxt[NodeAt(s, L, k)] = NodeAt(s, L, k + 1)
  BY DEF Reads
<1>2. n \in Nat /\ j \in 0 .. n
  BY <1>1, ListStateType
<1>3. /\ \A k \in 1 .. n : s[k] \in Items /\ c[s[k]] = L
      /\ \A k \in 1 .. n : xl.value[s[k]] = v[s[k]]
      /\ L \notin Items
  BY <1>1, XL!RingItem, HeapAssumption
<1>4. /\ portMAX_DELAY \in Nat
      /\ \A m \in Nodes : v[m] \in Nat /\ v[m] <= portMAX_DELAY
      /\ w \in Nat /\ w <= portMAX_DELAY
      /\ \A k \in 1 .. n : s[k] \in Nodes
  BY <1>3, HeapAssumption DEF TickType, Nodes
<1> HIDE DEF s, n
<1>5. nxt[NodeAt(s, L, j)] = NodeAt(s, L, j + 1)
  BY <1>1, <1>2
<1>6. CASE w = portMAX_DELAY
  <2>1. NodeAt(s, L, j + 1) = L
    BY <1>5, <1>6 DEF s
  <2>2. j + 1 \notin 1 .. n
    BY <2>1, <1>3 DEF NodeAt, n
  <2>3. j = n
    BY <2>2, <1>2
  <2>4. QED
    BY <1>6, <2>3 DEF XL!InsertPosition, n, s
<1>7. CASE w # portMAX_DELAY
  <2>1. Stops = {i \in 1 .. n + 1 : i <= n => w < v[s[i]]}
    <3>1. Stops = {i \in 1 .. n + 1 : i <= n => w < xl.value[s[i]]}
      BY DEF XL!StopsFor, n, s
    <3>2. \A i \in 1 .. n + 1 : i <= n => xl.value[s[i]] = v[s[i]]
      BY <1>2, <1>3
    <3>3. QED
      BY <3>1, <3>2
  <2> HIDE DEF Stops
  <2>2. j + 1 \in Stops
    <3>1. j + 1 <= n => NodeAt(s, L, j + 1) = s[j + 1]
      BY <1>2 DEF NodeAt, n
    <3>2. w < v[NodeAt(s, L, j + 1)]
      BY <1>5, <1>7 DEF s
    <3>3. QED
      BY <2>1, <3>1, <3>2, <1>2
  <2>3. ASSUME NEW k \in Stops PROVE j + 1 <= k
    <3>1. SUFFICES ASSUME k <= j PROVE FALSE
      BY <1>2, <2>1
    <3>2. k \in 1 .. n /\ w < v[s[k]] /\ j \in 1 .. n
      BY <3>1, <2>1, <1>2
    <3> DEFINE Low == {m \in k .. j : v[s[m]] <= w}
    <3>3. j \in Low
      <4>1. NodeAt(s, L, j) = s[j]
        BY <3>2 DEF NodeAt, n
      <4>2. v[s[j]] <= w
        BY <4>1, <3>2, <1>3 DEF s
      <4>3. QED
        BY <4>2, <3>1, <3>2
    <3>4. Low \subseteq Nat /\ Low # {}
      BY <3>2, <3>3
    <3> HIDE DEF Low
    <3>5. PICK m \in Low : \A i \in Low : m <= i
      BY <3>4, XL!SmallestExists, HeapAssumption
    <3>6. m \in k .. j /\ v[s[m]] <= w
      BY DEF Low
    <3>7. m # k
      BY <3>2, <3>6, <1>4
    <3>8. m - 1 \in k .. j /\ m - 1 \in 1 .. n /\ m \in 1 .. n /\ (m - 1) + 1 = m
      BY <3>6, <3>7, <3>2, <1>2
    <3>9. ~ (v[s[m - 1]] <= w)
      BY <3>5, <3>8 DEF Low
    <3>10. v[s[m - 1]] <= v[s[m]]
      <4>1. NodeAt(s, L, m - 1) = s[m - 1] /\ NodeAt(s, L, m) = s[m]
        BY <3>8 DEF NodeAt, n
      <4>2. nxt[s[m - 1]] = s[m]
        BY <4>1, <3>8, <1>1, <1>2
      <4>3. QED
        BY <4>2, <3>8, <1>3
    <3>11. v[s[m - 1]] \in Nat /\ v[s[m]] \in Nat
      BY <3>8, <1>4
    <3>12. QED
      BY <3>6, <3>9, <3>10, <3>11, <1>4
  <2>4. \A i \in Stops : (\A k \in Stops : i <= k) => i = j + 1
    BY <2>1, <2>2, <2>3, <1>2
  <2>5. XL!InsertPosition(xl, L, w)
          = CHOOSE i \in Stops : \A k \in Stops : i <= k
    BY <1>7 DEF XL!InsertPosition, Stops
  <2>6. (CHOOSE i \in Stops : \A k \in Stops : i <= k) = j + 1
    BY <2>2, <2>3, <2>4
  <2>7. QED
    BY <2>5, <2>6
<1>8. QED
  BY <1>6, <1>7

\* The calls of the two instances of module XList are the same.
LEMMA SameCalls ==
  ASSUME NEW xl, NEW L, NEW x, NEW v
  PROVE  /\ Abstract!listSET_LIST_ITEM_VALUE(xl, x, v)
              = XL!listSET_LIST_ITEM_VALUE(xl, x, v)
         /\ Abstract!vListInsertEnd(xl, L, x) = XL!vListInsertEnd(xl, L, x)
         /\ Abstract!vListInsert(xl, L, x) = XL!vListInsert(xl, L, x)
         /\ Abstract!vListRemove(xl, x) = XL!vListRemove(xl, x)
         /\ Abstract!AdvanceIndex(xl, L) = XL!AdvanceIndex(xl, L)
<1>1. \A i : Abstract!LinkAt(xl, L, x, i) = XL!LinkAt(xl, L, x, i)
  BY DEF Abstract!LinkAt, XL!LinkAt, Abstract!InsertAt, XL!InsertAt
<1>2. Abstract!vListInsertEnd(xl, L, x) = XL!vListInsertEnd(xl, L, x)
  BY <1>1, Zenon DEF Abstract!vListInsertEnd, XL!vListInsertEnd
<1>3. Abstract!InsertPosition(xl, L, xl.value[x]) = XL!InsertPosition(xl, L, xl.value[x])
  BY DEF Abstract!InsertPosition, XL!InsertPosition, Abstract!StopsFor, XL!StopsFor
<1>4. Abstract!vListInsert(xl, L, x) = XL!vListInsert(xl, L, x)
  BY <1>1, <1>3, Zenon DEF Abstract!vListInsert, XL!vListInsert
<1>5. Abstract!vListRemove(xl, x) = XL!vListRemove(xl, x)
  BY DEF Abstract!vListRemove, XL!vListRemove, Abstract!PositionOf, XL!PositionOf,
         Abstract!RemoveAt, XL!RemoveAt
<1>6. QED
  BY <1>2, <1>4, <1>5, Zenon
     DEF Abstract!listSET_LIST_ITEM_VALUE, XL!listSET_LIST_ITEM_VALUE,
         Abstract!AdvanceIndex, XL!AdvanceIndex

-----------------------------------------------------------------------------
(* The steps of list.c, as steps of XListSpec                              *)

\* The pointers and counters of a state, read off, are a list state.
PointersRead ==
  Reads(AbstractXL, pxNext, pvContainer, xItemValue, pxIndex, uxNumberOfItems)

\* The mapping in this state and in the next, in terms of the operators above.
LEMMA MappingRestated ==
  /\ AbstractXL = ReadOff(pxNext, pvContainer, xItemValue, pxIndex, uxNumberOfItems)
  /\ AbstractXL' = ReadOff(pxNext', pvContainer', xItemValue', pxIndex', uxNumberOfItems')
  /\ PointersRead' <=> Reads(AbstractXL', pxNext', pvContainer', xItemValue',
                             pxIndex', uxNumberOfItems')
BY Zenon DEF AbstractXL, ReadOff, Hop, Hops, PointersRead

\* A list state that the pointers of the next state stand for is the one the
\* mapping gives there.
LEMMA NextReads ==
  ASSUME NEW yl, CountOK',
         Reads(yl, pxNext', pvContainer', xItemValue', pxIndex', uxNumberOfItems')
  PROVE  AbstractXL' = yl /\ PointersRead'
<1>1. \A L \in Lists : uxNumberOfItems'[L] = Cardinality(Members(pvContainer', L))
  BY Restated
<1>2. ReadOff(pxNext', pvContainer', xItemValue', pxIndex', uxNumberOfItems') = yl
  BY <1>1, ReadOffIsRead
<1>3. AbstractXL' = yl
  BY <1>2, MappingRestated
<1>4. QED
  BY <1>3, MappingRestated

\* Initialised lists read as empty lists.
LEMMA InitReads == Init => Abstract!Init /\ PointersRead
<1> SUFFICES ASSUME Init PROVE Abstract!Init /\ PointersRead
  OBVIOUS
<1>1. PICK w \in [Items -> TickType] :
        xItemValue = [n \in Nodes |-> IF n \in Lists THEN portMAX_DELAY ELSE w[n]]
  BY DEF Init
<1> DEFINE e == XL!vListInitialise(Lists, Items)
           yl == [e EXCEPT !.value = w]
<1>2. /\ XL!ListsOK(e, Lists, Items)
      /\ e.ring = [L \in Lists |-> << >>] /\ e.index = [L \in Lists |-> 0]
      /\ e.container = [x \in Items |-> Null]
  <2>1. Null \notin Lists
    BY HeapAssumption DEF Nodes
  <2>2. QED
    BY <2>1, XL!InitialListsOK, HeapAssumption DEF XL!vListInitialise
<1>3. e = [ring |-> e.ring, index |-> e.index, container |-> e.container,
           value |-> e.value]
  BY <1>2, ListStateType
<1> HIDE DEF e
<1>4. /\ yl.ring = e.ring /\ yl.index = e.index /\ yl.container = e.container
      /\ yl.value = w
  BY <1>3
<1>5. yl \in XL!XLists(Lists, Items)
  BY <1>2, <1>3 DEF XL!ListsOK, XL!XLists, XL!TickType, TickType
<1> HIDE DEF yl
<1>6. XL!ListsOK(yl, Lists, Items)
  BY <1>2, <1>4, <1>5
     DEF XL!ListsOK, XL!ContainersAgree, XL!OnList, XL!NoDuplicates, XL!IndexInRing
<1>7. w = [x \in Items |-> xItemValue[x]]
  <2>1. \A x \in Items : xItemValue[x] = w[x]
    BY <1>1, HeapAssumption DEF Nodes
  <2>2. QED
    BY <2>1
<1>8. \A L \in Lists : Len(yl.ring[L]) = 0 /\ yl.index[L] = 0
  BY <1>2, <1>4
<1>9. /\ \A L \in Lists : pxNext[L] = L /\ pxIndex[L] = L /\ uxNumberOfItems[L] = 0
      /\ pvContainer = [x \in Items |-> Null]
  BY DEF Init, Nodes
<1>10. Reads(yl, pxNext, pvContainer, xItemValue, pxIndex, uxNumberOfItems)
  <2>1. \A L \in Lists, i \in 0 .. 1 : NodeAt(yl.ring[L], L, i) = L
    BY <1>8 DEF NodeAt
  <2>2. QED
    BY <2>1, <1>2, <1>4, <1>6, <1>7, <1>8, <1>9 DEF Reads
<1>11. CountOK
  BY InitIInv DEF IInv
<1>12. AbstractXL = yl
  <2>1. \A L \in Lists : uxNumberOfItems[L] = Cardinality(Members(pvContainer, L))
    BY <1>11, Restated
  <2>2. QED
    BY <2>1, <1>10, ReadOffIsRead, MappingRestated
<1>13. PointersRead
  BY <1>10, <1>12 DEF PointersRead
<1>14. Abstract!Init
  <2>1. Abstract!vListInitialise(Lists, Items) = e
    BY DEF Abstract!vListInitialise, XL!vListInitialise, e
  <2>2. AbstractXL = [Abstract!vListInitialise(Lists, Items) EXCEPT !.value = w]
    BY <1>12, <2>1 DEF yl
  <2>3. w \in [Items -> Abstract!TickType]
    BY DEF Abstract!TickType, TickType
  <2>4. QED
    BY <2>2, <2>3, Zenon DEF Abstract!Init
<1>15. QED
  BY <1>13, <1>14

\* LinkAfter, after the node before the i-th, is LinkAt of the list state.
LEMMA LinkAfterReads ==
  ASSUME IInv, PointersRead, NEW L \in Lists, NEW x \in Items,
         pvContainer[x] = Null,
         NEW i \in 1 .. Len(AbstractXL.ring[L]) + 1,
         NEW n, n = NodeAt(AbstractXL.ring[L], L, i - 1), LinkAfter(L, x, n)
  PROVE  Reads(XL!LinkAt(AbstractXL, L, x, i), pxNext', pvContainer', xItemValue',
               pxIndex, uxNumberOfItems')
<1>1. /\ pxNext' = NextLinked(pxNext, x, n)
      /\ pvContainer' = Contained(pvContainer, x, L)
      /\ uxNumberOfItems' = [uxNumberOfItems EXCEPT ![L] = @ + 1]
      /\ xItemValue' = xItemValue
  BY DEF LinkAfter, NextLinked, Contained
<1>2. /\ pxNext \in [Nodes -> Nodes \cup {Null}]
      /\ uxNumberOfItems \in [Lists -> Nat]
      /\ Reads(AbstractXL, pxNext, pvContainer, xItemValue, pxIndex, uxNumberOfItems)
  BY DEF IInv, TypeOK, PointersRead
<1> DEFINE xl == AbstractXL
<1> HIDE DEF xl
<1>3. Reads(XL!LinkAt(xl, L, x, i), NextLinked(pxNext, x, n),
            Contained(pvContainer, x, L), xItemValue, pxIndex,
            [uxNumberOfItems EXCEPT ![L] = @ + 1])
  BY <1>2, LinkReads DEF xl
<1>4. QED
  BY <1>1, <1>3, Zenon DEF xl

\* Every step of list.c is one call of the list state, or none.
LEMMA StepRefines ==
  IInv /\ PointersRead /\ [Next]_vars
    => PointersRead' /\ [Abstract!Next]_AbstractXL
<1> SUFFICES ASSUME IInv, PointersRead, [Next]_vars
             PROVE  PointersRead' /\ [Abstract!Next]_AbstractXL
  OBVIOUS
<1> DEFINE xl == AbstractXL
<1>1. /\ Reads(xl, pxNext, pvContainer, xItemValue, pxIndex, uxNumberOfItems)
      /\ XL!ListsOK(xl, Lists, Items)
      /\ xl.container = pvContainer
      /\ xl.value = [x \in Items |-> xItemValue[x]]
      /\ \A L \in Lists :
           /\ uxNumberOfItems[L] = Len(xl.ring[L])
           /\ pxIndex[L] = NodeAt(xl.ring[L], L, xl.index[L])
           /\ \A i \in 0 .. Len(xl.ring[L]) :
                pxNext[NodeAt(xl.ring[L], L, i)] = NodeAt(xl.ring[L], L, i + 1)
  BY DEF PointersRead, Reads
<1>2. /\ pxNext \in [Nodes -> Nodes \cup {Null}]
      /\ xItemValue \in [Nodes -> TickType]
      /\ pvContainer \in [Items -> Lists \cup {Null}]
      /\ pxIndex \in [Lists -> Nodes]
      /\ uxNumberOfItems \in [Lists -> Nat]
      /\ inserting \in Items \cup {Null} /\ into \in SortedLists \cup {Null}
      /\ Links(pxNext, pxPrevious, pvContainer)
  BY Restated DEF IInv, TypeOK
<1>3. CountOK'
  BY NextIInv DEF IInv
<1>4. \A L \in Lists : /\ Len(xl.ring[L]) \in Nat
                       /\ xl.index[L] \in 0 .. Len(xl.ring[L])
  BY <1>1, ListStateType
<1>5. /\ Null \notin Lists /\ Null \notin Items /\ Lists \cap Items = {}
      /\ SortedLists \subseteq Lists /\ Items \subseteq Nodes /\ Lists \subseteq Nodes
  BY HeapAssumption DEF Nodes
<1> HIDE DEF xl
<1>6. ASSUME NEW x \in Items, NEW v \in TickType, SetItemValue(x, v)
      PROVE  PointersRead' /\ Abstract!SetItemValue(x, v)
  <2> DEFINE yl == XL!listSET_LIST_ITEM_VALUE(xl, x, v)
  <2>1. /\ pvContainer[x] = Null
        /\ xItemValue' = [xItemValue EXCEPT ![x] = v]
        /\ UNCHANGED <<pxNext, pvContainer, pxIndex, uxNumberOfItems>>
    BY <1>6 DEF SetItemValue, Free
  <2>2. XL!SameLists(xl, yl, Lists, Items)
    <3>1. v \in XL!TickType
      BY DEF XL!TickType, TickType
    <3>2. QED
      BY <3>1, <1>1, XL!SetValueKeeps, HeapAssumption
  <2>3. yl = [xl EXCEPT !.value[x] = v]
    BY DEF XL!listSET_LIST_ITEM_VALUE
  <2>4. xl = [ring |-> xl.ring, index |-> xl.index,
              container |-> xl.container, value |-> xl.value]
    BY <1>1, ListStateType
  <2> HIDE DEF yl
  <2>5. /\ yl.ring = xl.ring /\ yl.index = xl.index /\ yl.container = xl.container
        /\ yl.value = [xl.value EXCEPT ![x] = v]
        /\ XL!ListsOK(yl, Lists, Items)
    BY <2>2, <2>3, <2>4 DEF XL!SameLists
  <2>6. yl.value = [y \in Items |-> xItemValue'[y]]
    BY <2>1, <2>5, <1>1, <1>2, <1>5
  <2>7. Reads(yl, pxNext', pvContainer', xItemValue', pxIndex', uxNumberOfItems')
    BY <2>1, <2>5, <2>6, <1>1 DEF Reads
  <2>8. xl' = yl /\ PointersRead'
    BY <2>7, <1>3, NextReads DEF xl
  <2>9. Abstract!listSET_LIST_ITEM_VALUE(xl, x, v) = yl
    BY SameCalls DEF yl
  <2>10. QED
    BY <2>1, <2>8, <2>9, <1>1 DEF Abstract!SetItemValue, xl
<1>7. ASSUME NEW x \in Items, NEW L \in Lists \ SortedLists, vListInsertEnd(L, x)
      PROVE  PointersRead' /\ Abstract!InsertEnd(L, x)
  <2> DEFINE i == xl.index[L] + 1
             zl == XL!LinkAt(xl, L, x, i)
             yl == XL!vListInsertEnd(xl, L, x)
  <2>1. /\ pvContainer[x] = Null
        /\ LinkAfter(L, x, pxIndex[L])
        /\ pxIndex' = [pxIndex EXCEPT ![L] = x]
    BY <1>7 DEF vListInsertEnd, Free
  <2>2. /\ L \in Lists /\ i \in 1 .. Len(xl.ring[L]) + 1 /\ i - 1 = xl.index[L]
        /\ pxIndex[L] = NodeAt(xl.ring[L], L, i - 1)
    BY <1>1, <1>4
  <2>3. yl = [zl EXCEPT !.index[L] = i]
    BY DEF XL!vListInsertEnd
  <2> HIDE DEF i
  <2>4. XL!Linked(xl, zl, Lists, L, x, i)
    BY <2>1, <2>2, <1>1, <1>5, XL!LinkAtType, HeapAssumption
  <2>5. Reads(zl, pxNext', pvContainer', xItemValue', pxIndex, uxNumberOfItems')
    BY <2>1, <2>2, LinkAfterReads DEF xl
  <2> HIDE DEF zl, yl
  <2>6. NodeAt(zl.ring[L], L, i) = x /\ i \in 0 .. Len(zl.ring[L])
    BY <2>2, <2>4, <1>4 DEF XL!Linked, NodeAt
  <2>7. Reads(yl, pxNext', pvContainer', xItemValue', pxIndex', uxNumberOfItems')
    <3>1. Reads([zl EXCEPT !.index[L] = i], pxNext', pvContainer', xItemValue',
                [pxIndex EXCEPT ![L] = NodeAt(zl.ring[L], L, i)], uxNumberOfItems')
      BY <2>2, <2>5, <2>6, <1>2, SetIndexReads
    <3>2. QED
      BY <3>1, <2>1, <2>3, <2>6, Zenon
  <2>8. xl' = yl /\ PointersRead'
    BY <2>7, <1>3, NextReads DEF xl
  <2>9. Abstract!vListInsertEnd(xl, L, x) = yl
    BY SameCalls DEF yl
  <2>10. QED
    BY <2>1, <2>8, <2>9, <1>1 DEF Abstract!InsertEnd, xl
<1>8. ASSUME UNCHANGED <<pxNext, xItemValue, pvContainer, pxIndex, uxNumberOfItems>>
      PROVE  PointersRead' /\ AbstractXL' = AbstractXL
  <2>1. AbstractXL' = AbstractXL
    BY <1>8, MappingRestated
  <2>2. QED
    BY <1>8, <2>1, MappingRestated DEF PointersRead
<1>9. ASSUME InsertLink
      PROVE  /\ PointersRead'
             /\ \E x \in Items, L \in SortedLists : Abstract!InsertInOrder(L, x)
  <2> DEFINE L == into
             x == inserting
             w == xItemValue[x]
             s == xl.ring[L]
             yl == XL!vListInsert(xl, L, x)
  <2>1. /\ x # Null /\ ~ WalkOn /\ LinkAfter(L, x, pxIterator)
        /\ pxIndex' = pxIndex
    BY <1>9 DEF InsertLink
  <2>2. /\ x \in Items /\ L \in SortedLists /\ L \in Lists /\ x \in Nodes
        /\ pvContainer[x] = Null
        /\ In(pvContainer, L, pxIterator)
        /\ pxIterator \in Items => xItemValue[pxIterator] <= w
        /\ w = portMAX_DELAY => pxNext[pxIterator] = L
    BY <2>1, <1>2, <1>5, Restated DEF IInv, CursorsOK, EndIsNext
  <2>3. PICK j \in 0 .. Len(s) : pxIterator = NodeAt(s, L, j)
    <3>1. CASE pxIterator = L
      BY <3>1, <2>2, <1>4 DEF NodeAt
    <3>2. CASE pxIterator # L
      <4>1. pxIterator \in Items /\ xl.container[pxIterator] = L
        BY <3>2, <2>2, <1>1 DEF In
      <4>2. PICK j \in 1 .. Len(s) : s[j] = pxIterator
        BY <4>1, <2>2, <1>1 DEF XL!ListsOK, XL!ContainersAgree, XL!OnList
      <4>3. pxIterator = NodeAt(s, L, j) /\ j \in 0 .. Len(s)
        BY <4>2, <2>2, <1>4 DEF NodeAt
      <4>4. QED
        BY <4>3
    <3>3. QED
      BY <3>1, <3>2
  <2>4. w # portMAX_DELAY => w < xItemValue[pxNext[pxIterator]]
    <3>1. pxNext[pxIterator] \in Nodes
      BY <2>2, <1>2, Neighbours
    <3>2. xItemValue[pxNext[pxIterator]] \in Int /\ w \in Int
      BY <3>1, <2>2, <1>2, HeapAssumption DEF TickType
    <3>3. QED
      BY <3>2, <2>1 DEF WalkOn
  <2>5. /\ xItemValue[L] = portMAX_DELAY /\ w \in TickType
        /\ \A y \in Items : pvContainer[y] = L => xItemValue[y] <= xItemValue[pxNext[y]]
    BY <2>2, <1>2 DEF IInv, SortedLinks
  <2> HIDE DEF w, s, L, x
  <2>6. XL!InsertPosition(xl, L, w) = j + 1
    <3> DEFINE it == NodeAt(xl.ring[L], L, j)
    <3>1. /\ j \in 0 .. Len(xl.ring[L])
          /\ w = portMAX_DELAY => pxNext[it] = L
          /\ w # portMAX_DELAY => w < xItemValue[pxNext[it]]
          /\ it \in Items => xItemValue[it] <= w
      BY <2>2, <2>3, <2>4 DEF s
    <3>2. QED
      BY <3>1, <2>2, <2>5, <1>1, <1>2, StopsInPlace
  <2>7. yl = XL!LinkAt(xl, L, x, j + 1)
    <3>1. xl.value[x] = w
      BY <2>2, <1>1 DEF w
    <3>2. QED
      BY <3>1, <2>6 DEF XL!vListInsert
  <2>8. Reads(yl, pxNext', pvContainer', xItemValue', pxIndex', uxNumberOfItems')
    <3>1. j + 1 \in 1 .. Len(s) + 1 /\ (j + 1) - 1 = j
      BY <2>2, <1>4 DEF s
    <3>2. LinkAfter(L, x, pxIterator)
      BY <2>1 DEF L, x
    <3>3. Reads(XL!LinkAt(xl, L, x, j + 1), pxNext', pvContainer', xItemValue',
                pxIndex, uxNumberOfItems')
      BY <3>1, <3>2, <2>2, <2>3, LinkAfterReads DEF xl, s
    <3>4. QED
      BY <3>3, <2>1, <2>7, Zenon
  <2> HIDE DEF yl
  <2>9. xl' = yl /\ PointersRead'
    BY <2>8, <1>3, NextReads DEF xl
  <2>10. Abstract!vListInsert(xl, L, x) = yl
    BY SameCalls DEF yl
  <2>11. Abstract!InsertInOrder(L, x)
    BY <2>2, <2>9, <2>10, <1>1 DEF Abstract!InsertInOrder, xl
  <2>12. QED
    BY <2>2, <2>9, <2>11
<1>10. ASSUME NEW x \in Items, vListRemove(x)
       PROVE  PointersRead' /\ Abstract!RemoveItem(x)
  <2> DEFINE L == pvContainer[x]
             yl == XL!vListRemove(xl, x)
  <2>1. /\ L # Null /\ L \in Lists
        /\ pxNext' = NextUnlinked(pxNext, pxPrevious, x)
        /\ pvContainer' = Contained(pvContainer, x, Null)
        /\ pxIndex' = IF pxIndex[L] = x THEN [pxIndex EXCEPT ![L] = pxPrevious[x]]
                      ELSE pxIndex
        /\ uxNumberOfItems' = [uxNumberOfItems EXCEPT ![L] = @ - 1]
        /\ xItemValue' = xItemValue
    BY <1>10, <1>2 DEF vListRemove, IndexWithout, NextUnlinked, Contained
  <2>2. Reads(yl, NextUnlinked(pxNext, pxPrevious, x), Contained(pvContainer, x, Null),
              xItemValue, pxIndex', uxNumberOfItems')
    <3>1. /\ pvContainer[x] \in Lists
          /\ pxIndex' = IF pxIndex[pvContainer[x]] = x
                       THEN [pxIndex EXCEPT ![pvContainer[x]] = pxPrevious[x]]
                       ELSE pxIndex
          /\ uxNumberOfItems' = [uxNumberOfItems EXCEPT ![pvContainer[x]] = @ - 1]
      BY <2>1
    <3>2. /\ Reads(xl, pxNext, pvContainer, xItemValue, pxIndex, uxNumberOfItems)
          /\ Links(pxNext, pxPrevious, pvContainer)
          /\ pxNext \in [Nodes -> Nodes \cup {Null}]
          /\ pxIndex \in [Lists -> Nodes] /\ uxNumberOfItems \in [Lists -> Nat]
      BY <1>1, <1>2
    <3> HIDE DEF yl, L
    <3>3. Reads(XL!vListRemove(xl, x), NextUnlinked(pxNext, pxPrevious, x),
                Contained(pvContainer, x, Null), xItemValue, pxIndex',
                uxNumberOfItems')
      BY <3>1, <3>2, UnlinkReads
    <3>4. QED
      BY <3>3 DEF yl
  <2> HIDE DEF yl
  <2>3. Reads(yl, pxNext', pvContainer', xItemValue', pxIndex', uxNumberOfItems')
    BY <2>1, <2>2, Zenon
  <2>4. xl' = yl /\ PointersRead'
    BY <2>3, <1>3, NextReads DEF xl
  <2>5. Abstract!vListRemove(xl, x) = yl
    BY SameCalls DEF yl
  <2>6. QED
    BY <2>1, <2>4, <2>5, <1>1 DEF Abstract!RemoveItem, xl
<1>11. ASSUME NEW L \in Lists, GetOwnerOfNextEntry(L)
       PROVE  PointersRead' /\ Abstract!GetOwnerOfNextEntry(L)
  <2> DEFINE s == xl.ring[L]
             i == IF xl.index[L] = Len(s) THEN 1 ELSE xl.index[L] + 1
             yl == XL!AdvanceIndex(xl, L)
  <2>1. /\ uxNumberOfItems[L] # 0
        /\ pxIndex' = [pxIndex EXCEPT ![L] = IF pxNext[@] = L THEN pxNext[L]
                                             ELSE pxNext[@]]
        /\ UNCHANGED <<pxNext, pvContainer, xItemValue, uxNumberOfItems>>
    BY <1>11 DEF GetOwnerOfNextEntry
  <2>2. Len(s) \in Nat \ {0} /\ xl.index[L] \in 0 .. Len(s)
    BY <2>1, <1>1, <1>4
  <2>3. yl = [xl EXCEPT !.index[L] = i]
    BY DEF XL!AdvanceIndex
  <2> HIDE DEF yl, s
  <2>4. i \in 0 .. Len(s) /\ i \in 1 .. Len(s)
    BY <2>2
  <2>5. pxIndex' = [pxIndex EXCEPT ![L] = NodeAt(s, L, i)]
    <3>1. /\ pxNext[pxIndex[L]] = NodeAt(s, L, xl.index[L] + 1)
          /\ pxNext[L] = NodeAt(s, L, 1)
      <4>1. NodeAt(s, L, 0) = L
        BY DEF NodeAt
      <4>2. 0 \in 0 .. Len(s)
        BY <2>2
      <4>3. QED
        BY <4>1, <4>2, <2>2, <1>1 DEF s
    <3>2. \A k \in 1 .. Len(s) : NodeAt(s, L, k) # L
      <4>1. \A k \in 1 .. Len(s) : s[k] \in Items
        BY <1>1, XL!RingItem, HeapAssumption DEF s
      <4>2. QED
        BY <4>1, <1>5 DEF NodeAt
    <3>3. CASE xl.index[L] = Len(s)
      <4>1. NodeAt(s, L, xl.index[L] + 1) = L
        BY <3>3, <2>2 DEF NodeAt
      <4>2. QED
        BY <4>1, <3>1, <3>3, <2>1
    <3>4. CASE xl.index[L] # Len(s)
      <4>1. xl.index[L] + 1 \in 1 .. Len(s)
        BY <3>4, <2>2
      <4>2. QED
        BY <4>1, <3>1, <3>2, <3>4, <2>1
    <3>5. QED
      BY <3>3, <3>4
  <2> HIDE DEF i
  <2>6. Reads(yl, pxNext', pvContainer', xItemValue', pxIndex', uxNumberOfItems')
    <3>1. Reads([xl EXCEPT !.index[L] = i], pxNext, pvContainer, xItemValue,
                [pxIndex EXCEPT ![L] = NodeAt(s, L, i)], uxNumberOfItems)
      BY <2>4, <1>1, <1>2, SetIndexReads DEF s
    <3>2. QED
      BY <3>1, <2>1, <2>3, <2>5, Zenon
  <2>7. xl' = yl /\ PointersRead'
    BY <2>6, <1>3, NextReads DEF xl
  <2>8. Abstract!AdvanceIndex(xl, L) = yl
    BY SameCalls DEF yl
  <2>9. ~ Abstract!listLIST_IS_EMPTY(xl, L)
    <3>1. s # << >>
      BY <2>2, EmptySeq
    <3>2. QED
      BY <3>1 DEF Abstract!listLIST_IS_EMPTY, s
  <2>10. QED
    BY <2>7, <2>8, <2>9 DEF Abstract!GetOwnerOfNextEntry, xl
<1>12. CASE \E x \in Items, v \in TickType : SetItemValue(x, v)
  <2>1. TickType = Abstract!TickType
    BY DEF TickType, Abstract!TickType
  <2>2. QED
    BY <2>1, <1>6, <1>12 DEF Abstract!Next
<1>13. CASE \E x \in Items, L \in Lists \ SortedLists : vListInsertEnd(L, x)
  BY <1>7, <1>13 DEF Abstract!Next
<1>14. CASE (\E x \in Items, L \in SortedLists : InsertBegin(L, x)) \/ InsertStep
            \/ UNCHANGED vars
  BY <1>8, <1>14 DEF InsertBegin, InsertStep, vars
<1>15. CASE InsertLink
  BY <1>9, <1>15 DEF Abstract!Next
<1>16. CASE \E x \in Items : vListRemove(x)
  BY <1>10, <1>16 DEF Abstract!Next
<1>17. CASE \E L \in Lists : GetOwnerOfNextEntry(L)
  BY <1>11, <1>17 DEF Abstract!Next
<1>18. QED
  BY <1>12, <1>13, <1>14, <1>15, <1>16, <1>17 DEF Next

\* The pointer manipulations of list.c, one iteration of the loop of
\* vListInsert at a time, implement the list calls as single steps: what
\* the rest of the kernel is modelled and proved with.
THEOREM ListsImplemented == Spec => ImplementsXListSpec
<1>1. Init => Abstract!Init /\ PointersRead
  BY InitReads
<1>2. IInv /\ PointersRead /\ [Next]_vars
        => PointersRead' /\ [Abstract!Next]_AbstractXL
  BY StepRefines
<1>3. QED
  BY <1>1, <1>2, InvariantHolds, PTL DEF Spec, ImplementsXListSpec, Abstract!Spec
=============================================================================
