--------------------------- MODULE MinHeapProofs ---------------------------
(***************************************************************************)
(* The heap of cmd/heapx/heapx.go is a heap between calls, for every set of *)
(* integers and every bound.  HeapOrder, the order with a hole at the index *)
(* of the loop, is what the loops keep; with it the slice implements the    *)
(* queue, a bag of which a smallest value is taken.                         *)
(***************************************************************************)
EXTENDS MinHeap, FiniteSetTheorems, WellFoundedInduction, TLAPS

\* Every index but the root is a child of its parent, and of nothing else.
LEMMA ParentOfChild ==
  /\ \A i \in Nat : Parent(LeftChild(i)) = i /\ Parent(RightChild(i)) = i
  /\ \A j \in Nat \ {0} : /\ Parent(j) \in Nat /\ Parent(j) < j
                          /\ j = LeftChild(Parent(j)) \/ j = RightChild(Parent(j))
BY DEF Parent, LeftChild, RightChild

\* Types: the slice keeps its length in step, and the index stays inside it.
LEMMA HeapTypeInit == HeapInit => HeapTypeOK
BY SizeAssumption DEF HeapInit, HeapTypeOK

\* No iteration of a loop leaves them.
LEMMA HeapTypeStep == HeapTypeOK /\ [HeapNext]_heapVars => HeapTypeOK'
<1> SUFFICES ASSUME HeapTypeOK, [HeapNext]_heapVars PROVE HeapTypeOK'
  OBVIOUS
<1> USE ValuesAssumption, SizeAssumption DEF HeapTypeOK
<1>1. ASSUME NEW v \in Values, Insert(v) PROVE HeapTypeOK'
  BY <1>1 DEF Insert
<1>2. CASE BubbleUp
  <2>1. CASE index > 0 /\ data[Parent(index)] > data[index]
    <3>1. Parent(index) \in 0 .. size - 1 /\ index \in 0 .. size - 1
      BY <1>2, <2>1, ParentOfChild DEF BubbleUp
    <3> QED BY <1>2, <2>1, <3>1 DEF BubbleUp, Swap
  <2>2. CASE ~(index > 0 /\ data[Parent(index)] > data[index])
    BY <1>2, <2>2 DEF BubbleUp
  <2> QED BY <2>1, <2>2
<1>3. CASE ExtractMin
  BY <1>3 DEF ExtractMin
<1>4. CASE BubbleDown
  <2>1. CASE Smallest # index
    <3>1. Smallest \in 0 .. size - 1 /\ index \in 0 .. size - 1
      BY <1>4, <2>1 DEF BubbleDown, Smallest, SmallerLeft, LeftChild, RightChild
    <3> QED BY <1>4, <2>1, <3>1 DEF BubbleDown, Swap
  <2>2. CASE Smallest = index
    BY <1>4, <2>2 DEF BubbleDown
  <2> QED BY <2>1, <2>2
<1>5. CASE UNCHANGED heapVars
  BY <1>5 DEF heapVars
<1> QED BY <1>1, <1>2, <1>3, <1>4, <1>5 DEF HeapNext

\* In every reachable state the variables have their types.
THEOREM HeapTypes == HeapSpec => []HeapTypeOK
BY HeapTypeInit, HeapTypeStep, PTL DEF HeapSpec

\* HeapOrder is inductive: an exchange moves the hole and mends the order where
\* it was.
LEMMA HeapOrderInit == HeapInit => HeapOrder
BY DEF HeapInit, HeapOrder, Ordered, LeftChild, RightChild

\* Every step mends the order it disturbs.
LEMMA HeapOrderStep ==
  HeapTypeOK /\ HeapTypeOK' /\ HeapOrder /\ [HeapNext]_heapVars => HeapOrder'
<1> USE ValuesAssumption, SizeAssumption
<1> SUFFICES ASSUME HeapTypeOK, HeapTypeOK', HeapOrder, [HeapNext]_heapVars
             PROVE HeapOrder'
  OBVIOUS
<1>t. /\ size \in Nat /\ index \in Nat /\ \A k \in 0 .. size - 1 : data[k] \in Int
      /\ size' \in Nat /\ index' \in Nat /\ \A k \in 0 .. size' - 1 : data'[k] \in Int
  <2>1. size \in Nat /\ index \in Nat
    BY DEF HeapTypeOK
  <2>4. ASSUME NEW k \in 0 .. size - 1 PROVE data[k] \in Int
    <3>1. data \in [0 .. size - 1 -> Values]
      BY DEF HeapTypeOK
    <3> QED BY <3>1, <2>4
  <2>2. size' \in Nat /\ index' \in Nat
    BY DEF HeapTypeOK
  <2>3. ASSUME NEW k \in 0 .. size' - 1 PROVE data'[k] \in Int
    <3>1. data' \in [0 .. size' - 1 -> Values]
      BY DEF HeapTypeOK
    <3> QED BY <3>1, <2>3
  <2> QED BY <2>1, <2>2, <2>3, <2>4
<1>o. ASSUME NEW i \in 0 .. size - 1, NEW j \in {LeftChild(i), RightChild(i)}, j < size
      PROVE  /\ j \in 1 .. size - 1 /\ Parent(j) = i
             /\ \/ data[i] <= data[j]
                \/ sifting = "up" /\ j = index
                \/ sifting = "down" /\ i = index
  <2>1. i \in Nat /\ j \in 1 .. size - 1
    BY <1>t, <1>o DEF LeftChild, RightChild
  <2>2. Parent(j) = i
    BY <2>1, ParentOfChild
  <2> QED BY <2>1, <2>2, <1>o DEF HeapOrder, Ordered
<1>h. ASSUME sifting \in {"up", "down"}, index > 0,
             NEW j \in {LeftChild(index), RightChild(index)}, j < size
      PROVE  data[Parent(index)] <= data[j]
  BY <1>h DEF HeapOrder, Ordered
<1>1. ASSUME NEW v \in Values, Insert(v) PROVE HeapOrder'
  <2>1. size' = size + 1 /\ index' = size /\ sifting' = "up" /\ sifting = "no"
    BY <1>1 DEF Insert
  <2>2. \A i \in 0 .. size - 1 : data'[i] = data[i]
    BY <1>1, <1>t DEF Insert
  <2>3. ASSUME NEW i \in 0 .. size, NEW j \in {LeftChild(i), RightChild(i)}, j < size + 1
        PROVE  data'[i] <= data'[j] \/ j = size
    <3>1. CASE j < size
      <4>1. i \in 0 .. size - 1 /\ j \in 0 .. size - 1
        BY <1>t, <2>3, <3>1 DEF LeftChild, RightChild
      <4> QED BY <4>1, <3>1, <2>1, <2>2, <1>o
    <3> QED BY <3>1, <2>3, <1>t DEF LeftChild, RightChild
  <2>4. ASSUME NEW j \in {LeftChild(size), RightChild(size)} PROVE ~(j < size + 1)
    BY <1>t DEF LeftChild, RightChild
  <2>5. 0 .. size' - 1 = 0 .. size
    BY <2>1, <1>t
  <2>6. \A i \in 0 .. size : \A j \in {LeftChild(i), RightChild(i)} :
           j < size + 1 => (data'[i] <= data'[j] \/ j = size)
    BY <2>3
  <2>7. ~(LeftChild(size) < size + 1) /\ ~(RightChild(size) < size + 1)
    BY <2>4
  <2> QED BY <2>1, <2>5, <2>6, <2>7 DEF HeapOrder, Ordered, LeftChild, RightChild
<1>2. CASE BubbleUp
  <2>1. CASE index > 0 /\ data[Parent(index)] > data[index]
    <3> DEFINE p == Parent(index)
    <3>1. /\ p \in 0 .. size - 1 /\ p < index /\ index \in 0 .. size - 1
          /\ index = LeftChild(p) \/ index = RightChild(p)
      BY <1>2, <2>1, <1>t, ParentOfChild DEF BubbleUp, HeapTypeOK
    <3>2. /\ data'[p] = data[index] /\ data'[index] = data[p]
          /\ \A k \in 0 .. size - 1 : k # p /\ k # index => data'[k] = data[k]
      BY <1>2, <2>1, <3>1 DEF BubbleUp, Swap, HeapTypeOK
    <3>3. size' = size /\ index' = p /\ sifting' = "up" /\ sifting = "up"
      BY <1>2, <2>1 DEF BubbleUp
    <3>4. data[p] > data[index] /\ data[p] \in Int /\ data[index] \in Int
      BY <2>1, <3>1, <1>t
    <3> HIDE DEF p
    <3>5. ASSUME NEW i \in 0 .. size - 1, NEW j \in {LeftChild(i), RightChild(i)}, j < size, j # p
          PROVE  data'[i] <= data'[j]
      <4>1. j \in 1 .. size - 1 /\ Parent(j) = i /\ (data[i] <= data[j] \/ j = index)
        BY <3>3, <3>5, <1>o
      <4>2. data[i] \in Int /\ data[j] \in Int
        BY <4>1, <1>t
      <4>3. CASE j = index
        BY <4>1, <4>3, <3>2, <3>4 DEF p
      <4>4. CASE j # index /\ i = p
        BY <4>1, <4>2, <4>4, <3>2, <3>4, <3>5
      <4>5. CASE j # index /\ i = index
        <5>1. data[p] <= data[j]
          BY <4>5, <3>3, <3>5, <2>1, <1>h DEF p
        <5> QED BY <5>1, <4>1, <4>5, <3>2, <3>5
      <4>6. CASE j # index /\ i # p /\ i # index
        BY <4>1, <4>6, <3>2, <3>5
      <4> QED BY <4>3, <4>4, <4>5, <4>6
    <3>6. ASSUME p > 0, NEW j \in {LeftChild(p), RightChild(p)}, j < size
          PROVE  data'[Parent(p)] <= data'[j]
      <4> DEFINE g == Parent(p)
      <4>1. g \in 0 .. size - 1 /\ g < p /\ p \in {LeftChild(g), RightChild(g)}
        BY <3>1, <3>6, <1>t, ParentOfChild
      <4>2. data[g] <= data[p] /\ data'[g] = data[g] /\ data[g] \in Int
        BY <4>1, <3>1, <3>2, <3>3, <1>o, <1>t
      <4>3. j \in 1 .. size - 1 /\ Parent(j) = p /\ (data[p] <= data[j] \/ j = index)
        BY <3>1, <3>3, <3>6, <1>o
      <4>4. j # p /\ data[j] \in Int
        BY <4>3, <3>1, <3>6, <1>t DEF LeftChild, RightChild
      <4> QED BY <4>2, <4>3, <4>4, <3>2, <3>4
    <3>9. LeftChild(index)' = LeftChild(p) /\ RightChild(index)' = RightChild(p) /\ Parent(index)' = Parent(p)
      BY <3>3 DEF LeftChild, RightChild, Parent
    <3>10. \A j \in {LeftChild(p), RightChild(p)} : p > 0 => (j < size => data'[Parent(p)] <= data'[j])
      BY <3>6
    <3> QED BY <3>3, <3>5, <3>9, <3>10 DEF HeapOrder, Ordered, LeftChild, RightChild
  <2>2. CASE ~(index > 0 /\ data[Parent(index)] > data[index])
    <3>1. UNCHANGED <<data, size, index>> /\ sifting' = "no" /\ sifting = "up"
      BY <1>2, <2>2 DEF BubbleUp
    <3>2. ASSUME NEW i \in 0 .. size - 1, NEW j \in {LeftChild(i), RightChild(i)}, j < size
          PROVE  data[i] <= data[j]
      <4>1. j \in 1 .. size - 1 /\ Parent(j) = i /\ (data[i] <= data[j] \/ j = index)
        BY <3>1, <3>2, <1>o
      <4> QED BY <4>1, <2>2, <1>t
    <3> QED BY <3>1, <3>2 DEF HeapOrder, Ordered, LeftChild, RightChild
  <2> QED BY <2>1, <2>2
<1>3. CASE ExtractMin
  <2>1. CASE size = 0
    <3>1. UNCHANGED <<data, size, index>> /\ sifting' = "panicked"
      BY <1>3, <2>1 DEF ExtractMin
    <3> QED BY <3>1, <2>1 DEF HeapOrder, Ordered
  <2>2. CASE size # 0
    <3>1. /\ size' = size - 1 /\ index' = 0 /\ sifting' = "down" /\ sifting = "no"
          /\ \A i \in 1 .. size - 2 : data'[i] = data[i]
      BY <1>3, <2>2, <1>t DEF ExtractMin
    <3>2. ASSUME NEW i \in 0 .. size - 2, NEW j \in {LeftChild(i), RightChild(i)},
                 j < size - 1, i # 0
          PROVE  data'[i] <= data'[j]
      <4>1. i \in 1 .. size - 2 /\ j \in 1 .. size - 2
        BY <3>2, <1>t DEF LeftChild, RightChild
      <4>2. i \in 0 .. size - 1 /\ j < size
        BY <4>1, <1>t
      <4>3. data[i] <= data[j]
        BY <4>2, <3>1, <3>2, <1>o
      <4> QED BY <4>1, <4>3, <3>1
    <3>3. ~(index > 0)'
      BY <3>1
    <3>4. ASSUME NEW i \in 0 .. size - 2, NEW j \in {LeftChild(i), RightChild(i)}, i # 0
          PROVE  j < size - 1 => data'[i] <= data'[j]
      BY <3>2, <3>4
    <3>5. 0 .. size' - 1 = 0 .. size - 2 /\ size' = size - 1
      BY <3>1, <1>t
    <3> QED BY <3>1, <3>3, <3>4, <3>5 DEF HeapOrder, Ordered, LeftChild, RightChild
  <2> QED BY <2>1, <2>2
<1>4. CASE BubbleDown
  <2>1. CASE Smallest # index
    <3> DEFINE s == Smallest
    <3>1. index < size
      BY <1>4, <2>1, <1>t DEF Smallest, SmallerLeft, LeftChild, RightChild
    <3>2. /\ s \in 1 .. size - 1 /\ index \in 0 .. size - 1
          /\ s \in {LeftChild(index), RightChild(index)}
          /\ data[s] < data[index]
          /\ \A j \in {LeftChild(index), RightChild(index)} : j < size => data[s] <= data[j]
      BY <2>1, <3>1, <1>t DEF Smallest, SmallerLeft, LeftChild, RightChild
    <3>3. Parent(s) = index /\ s # index /\ data[s] \in Int /\ data[index] \in Int
      <4>1. Parent(s) = index
        BY <3>2, ParentOfChild
      <4>2. s # index
        BY <3>2 DEF LeftChild, RightChild
      <4> QED BY <4>1, <4>2, <3>2, <1>t
    <3>4. /\ data'[s] = data[index] /\ data'[index] = data[s]
          /\ \A k \in 0 .. size - 1 : k # s /\ k # index => data'[k] = data[k]
      BY <1>4, <2>1, <3>2 DEF BubbleDown, Swap, HeapTypeOK
    <3>5. size' = size /\ index' = s /\ sifting' = "down" /\ sifting = "down"
      BY <1>4, <2>1 DEF BubbleDown
    <3> HIDE DEF s
    <3>6. ASSUME NEW i \in 0 .. size - 1, NEW j \in {LeftChild(i), RightChild(i)}, j < size, i # s
          PROVE  data'[i] <= data'[j]
      <4>1. j \in 1 .. size - 1 /\ Parent(j) = i /\ (data[i] <= data[j] \/ i = index)
        BY <3>5, <3>6, <1>o
      <4>2. data[i] \in Int /\ data[j] \in Int
        BY <4>1, <1>t
      <4>3. CASE i = index
        <5>1. j # index /\ data[s] <= data[j]
          BY <4>1, <4>3, <3>2, <3>6, <1>t DEF LeftChild, RightChild
        <5>2. CASE j = s
          BY <5>2, <4>3, <3>2, <3>3, <3>4
        <5>3. CASE j # s
          BY <5>1, <5>3, <4>1, <4>3, <3>4
        <5> QED BY <5>2, <5>3
      <4>4. CASE i # index /\ j = index
        <5>1. data[i] <= data[s]
          <6>1. index > 0 /\ s < size /\ Parent(index) = i
            BY <4>1, <4>4, <3>2, <1>t
          <6>2. data[Parent(index)] <= data[s]
            BY <6>1, <3>2, <3>5, <1>h
          <6> QED BY <6>1, <6>2
        <5> QED BY <5>1, <4>4, <3>4, <3>6
      <4>5. CASE i # index /\ j # index
        <5>1. j # s
          BY <4>1, <4>5, <3>3
        <5> QED BY <5>1, <4>1, <4>5, <3>4, <3>6
      <4> QED BY <4>3, <4>4, <4>5
    <3>7. ASSUME NEW j \in {LeftChild(s), RightChild(s)}, j < size
          PROVE  data'[Parent(s)] <= data'[j]
      <4>1. j \in 1 .. size - 1 /\ Parent(j) = s /\ data[s] <= data[j]
        BY <3>2, <3>3, <3>5, <3>7, <1>o
      <4>2. j # s /\ j # index
        BY <4>1, <3>2, <3>7, <1>t DEF LeftChild, RightChild
      <4> QED BY <4>1, <4>2, <3>3, <3>4
    <3>8. LeftChild(index)' = LeftChild(s) /\ RightChild(index)' = RightChild(s) /\ Parent(index)' = Parent(s)
      BY <3>5 DEF LeftChild, RightChild, Parent
    <3> QED BY <3>5, <3>6, <3>7, <3>8 DEF HeapOrder, Ordered, LeftChild, RightChild
  <2>2. CASE Smallest = index
    <3>1. UNCHANGED <<data, size, index>> /\ sifting' = "no" /\ sifting = "down"
      BY <1>4, <2>2 DEF BubbleDown
    <3>2. ASSUME NEW i \in 0 .. size - 1, NEW j \in {LeftChild(i), RightChild(i)}, j < size
          PROVE  data[i] <= data[j]
      <4>1. CASE i = index
        BY <2>2, <3>2, <4>1, <1>t DEF Smallest, SmallerLeft, LeftChild, RightChild
      <4>2. CASE i # index
        BY <3>1, <3>2, <4>2, <1>o
      <4> QED BY <4>1, <4>2
    <3> QED BY <3>1, <3>2 DEF HeapOrder, Ordered, LeftChild, RightChild
  <2> QED BY <2>1, <2>2
<1>5. CASE UNCHANGED heapVars
  <2>1. UNCHANGED <<data, size, index, sifting>>
    BY <1>5 DEF heapVars
  <2> QED BY <2>1 DEF HeapOrder, Ordered, LeftChild, RightChild, Parent
<1> QED BY <1>1, <1>2, <1>3, <1>4, <1>5 DEF HeapNext

\* In every reachable state the order has at most the one hole.
THEOREM HeapOrdered == HeapSpec => []HeapOrder
BY HeapOrderInit, HeapOrderStep, HeapTypes, PTL DEF HeapSpec

\* Every index above the root's is a child of its parent: without a hole no value
\* is smaller than its parent.
LEMMA WholeBetweenCalls == HeapTypeOK /\ HeapOrder => HeapWhole
<1> SUFFICES ASSUME HeapTypeOK, HeapOrder, sifting = "no", NEW i \in 1 .. size - 1
             PROVE  data[Parent(i)] <= data[i]
  BY DEF HeapWhole
<1>1. Parent(i) \in 0 .. size - 1 /\ i \in {LeftChild(Parent(i)), RightChild(Parent(i))}
  BY ParentOfChild DEF HeapTypeOK
<1> QED
  BY <1>1 DEF HeapOrder, Ordered, HeapTypeOK

\* Between calls no value is smaller than its parent, whatever the calls were.
THEOREM HeapBetweenCalls == HeapSpec => []HeapWhole
BY WholeBetweenCalls, HeapTypes, HeapOrdered, PTL

-----------------------------------------------------------------------------
(* The heap implements the queue. *)

\* Of the indexes whose value is smaller than the root's the least would have a
\* parent among them: there are none.
LEMMA RootIsSmallest ==
  ASSUME HeapTypeOK, HeapWhole, sifting = "no", NEW k \in 0 .. size - 1
  PROVE  data[0] <= data[k]
<1> DEFINE Smaller == {j \in 0 .. size - 1 : data[j] < data[0]}
<1>0. size \in Nat /\ \A j \in 0 .. size - 1 : data[j] \in Int
  <2>1. size \in Nat /\ \A j \in 0 .. size - 1 : data[j] \in Values
    BY SizeAssumption DEF HeapTypeOK
  <2> QED
    BY <2>1, ValuesAssumption
<1>1. SUFFICES ASSUME Smaller # {} PROVE FALSE
  BY <1>0
<1>2. PICK m \in Smaller : \A j \in Smaller : ~(<<j, m>> \in OpToRel(<, Nat))
  <2>1. Smaller \subseteq Nat
    OBVIOUS
  <2> HIDE DEF Smaller
  <2> QED
    BY <1>1, <2>1, NatLessThanWellFounded, WFMin
<1>3. m \in 1 .. size - 1 /\ data[m] < data[0]
  BY <1>0
<1>4. Parent(m) \in 0 .. size - 1 /\ Parent(m) < m
  BY <1>0, <1>3, ParentOfChild
<1>5. data[Parent(m)] <= data[m]
  BY <1>3 DEF HeapWhole
<1>6. Parent(m) \in Smaller
  BY <1>0, <1>3, <1>4, <1>5
<1>7. <<Parent(m), m>> \in OpToRel(<, Nat)
  BY <1>0, <1>3, <1>4 DEF OpToRel
<1> QED
  BY <1>2, <1>6, <1>7

\* Where value v is in the slice; the queue counts these places.
Places(v) == {k \in DOMAIN data : data[k] = v}

\* There are finitely many of them.
LEMMA PlacesFinite ==
  ASSUME HeapTypeOK, NEW v
  PROVE  /\ Places(v) = {k \in 0 .. size - 1 : data[k] = v}
         /\ IsFiniteSet(Places(v)) /\ Cardinality(Places(v)) \in Nat
<1>1. Places(v) = {k \in 0 .. size - 1 : data[k] = v}
  BY DEF Places, HeapTypeOK
<1>2. IsFiniteSet(0 .. size - 1)
  BY SizeAssumption, FS_Interval DEF HeapTypeOK
<1> QED
  BY <1>1, <1>2, FS_Subset, FS_CardinalityType

\* A place that is given up for another one leaves their number as it was.
LEMMA PlaceMoved ==
  ASSUME NEW S, IsFiniteSet(S), NEW a \in S, NEW b, b \notin S
  PROVE  Cardinality((S \ {a}) \cup {b}) = Cardinality(S)
<1>1. IsFiniteSet(S \ {a}) /\ Cardinality(S \ {a}) = Cardinality(S) - 1 /\ Cardinality(S) \in Nat
  BY FS_RemoveElement, FS_CardinalityType
<1>2. b \notin S \ {a}
  OBVIOUS
<1>3. Cardinality((S \ {a}) \cup {b}) = Cardinality(S \ {a}) + 1
  BY <1>1, <1>2, FS_AddElement
<1> QED
  BY <1>1, <1>3

\* An exchange moves values about and keeps how many of each there are.
LEMMA SwapKeepsPlaces ==
  ASSUME HeapTypeOK, HeapTypeOK', NEW a \in 0 .. size - 1, NEW b \in 0 .. size - 1, a # b, Swap(a, b), NEW v
  PROVE  Cardinality(Places(v)') = Cardinality(Places(v))
<1>1. /\ DOMAIN data = 0 .. size - 1 /\ DOMAIN data' = 0 .. size - 1
      /\ \A k \in 0 .. size - 1 : data'[k] = IF k = a THEN data[b] ELSE IF k = b THEN data[a] ELSE data[k]
  BY DEF HeapTypeOK, Swap
<1>2. /\ Places(v)' = {k \in 0 .. size - 1 : data'[k] = v} /\ Places(v) = {k \in 0 .. size - 1 : data[k] = v}
      /\ IsFiniteSet(Places(v))
  BY <1>1, PlacesFinite DEF Places
<1>3. CASE (data[a] = v /\ data[b] = v) \/ (data[a] # v /\ data[b] # v)
  <2>1. Places(v)' = Places(v)
    BY <1>1, <1>2, <1>3
  <2> QED
    BY <2>1
<1>4. CASE data[a] = v /\ data[b] # v
  <2>1. Places(v)' = (Places(v) \ {a}) \cup {b} /\ a \in Places(v) /\ b \notin Places(v)
    BY <1>1, <1>2, <1>4
  <2> QED
    BY <1>2, <2>1, PlaceMoved
<1>5. CASE data[a] # v /\ data[b] = v
  <2>1. Places(v)' = (Places(v) \ {b}) \cup {a} /\ b \in Places(v) /\ a \notin Places(v)
    BY <1>1, <1>2, <1>5
  <2> QED
    BY <1>2, <2>1, PlaceMoved
<1> QED
  BY <1>3, <1>4, <1>5

\* Cutting off the last value after putting it at the root takes away the root's
\* value, once, and no other.
LEMMA ExtractTakesOne ==
  ASSUME HeapTypeOK, ExtractMin, size # 0, NEW v
  PROVE  Cardinality(Places(v)') = IF v = data[0] THEN Cardinality(Places(v)) - 1 ELSE Cardinality(Places(v))
<1>1. /\ size \in Nat \ {0} /\ size - 1 \in 0 .. size - 1 /\ 0 \in 0 .. size - 1
      /\ DOMAIN data' = 0 .. size - 2
      /\ \A k \in 0 .. size - 2 : data'[k] = IF k = 0 THEN data[size - 1] ELSE data[k]
  BY SizeAssumption DEF HeapTypeOK, ExtractMin
<1>2. /\ Places(v)' = {k \in 0 .. size - 2 : data'[k] = v} /\ Places(v) = {k \in 0 .. size - 1 : data[k] = v}
      /\ IsFiniteSet(Places(v)) /\ Cardinality(Places(v)) \in Nat
  BY <1>1, PlacesFinite DEF Places
<1>3. \A k : k \in 0 .. size - 1 <=> (k \in 0 .. size - 2 \/ k = size - 1)
  BY <1>1
<1>4. CASE data[size - 1] = v /\ data[0] = v
  <2>1. Places(v)' = Places(v) \ {size - 1} /\ size - 1 \in Places(v)
    BY <1>1, <1>2, <1>3, <1>4
  <2> QED
    BY <1>2, <1>4, <2>1, FS_RemoveElement
<1>5. CASE data[size - 1] # v /\ data[0] = v
  <2>1. Places(v)' = Places(v) \ {0} /\ 0 \in Places(v)
    BY <1>1, <1>2, <1>3, <1>5
  <2> QED
    BY <1>2, <1>5, <2>1, FS_RemoveElement
<1>6. CASE data[size - 1] = v /\ data[0] # v
  <2>1. Places(v)' = (Places(v) \ {size - 1}) \cup {0} /\ size - 1 \in Places(v) /\ 0 \notin Places(v)
    BY <1>1, <1>2, <1>3, <1>6
  <2> QED
    BY <1>2, <1>6, <2>1, PlaceMoved
<1>7. CASE data[size - 1] # v /\ data[0] # v
  <2>1. Places(v)' = Places(v)
    BY <1>1, <1>2, <1>3, <1>7
  <2> QED
    BY <1>7, <2>1
<1> QED
  BY <1>4, <1>5, <1>6, <1>7

\* At first the queue is empty.
LEMMA QueueInitially == HeapInit => Queue!QueueInit
<1> SUFFICES ASSUME HeapInit PROVE Queue!QueueInit
  OBVIOUS
<1>1. \A v : {k \in DOMAIN data : data[k] = v} = {}
  BY DEF HeapInit
<1>2. Cardinality({}) = 0
  BY FS_EmptySet
<1> QED
  BY <1>1, <1>2 DEF HeapInit, Queue!QueueInit

\* Insert adds its value and ExtractMin takes a smallest one; the steps of the
\* loops are none of the queue's.
LEMMA QueueStep ==
  ASSUME HeapTypeOK, HeapTypeOK', HeapWhole, [HeapNext]_heapVars
  PROVE  [Queue!QueueNext]_Queue!queueVars
<1> DEFINE Count == [v \in Values |-> Cardinality(Places(v))]
<1>0. \A v \in Values : IsFiniteSet(Places(v)) /\ Cardinality(Places(v)) \in Nat
  BY PlacesFinite
<1>1. ASSUME NEW v \in Values, Insert(v) PROVE Queue!Enqueue(v)
  <2>1. /\ size \in Nat /\ DOMAIN data = 0 .. size - 1 /\ DOMAIN data' = 0 .. size
        /\ \A k \in 0 .. size : data'[k] = IF k = size THEN v ELSE data[k]
    BY <1>1, SizeAssumption DEF Insert, HeapTypeOK
  <2>2. ASSUME NEW w \in Values
        PROVE  Cardinality(Places(w)') = IF w = v THEN Cardinality(Places(w)) + 1 ELSE Cardinality(Places(w))
    <3>1. Places(w)' = (IF w = v THEN Places(w) \cup {size} ELSE Places(w)) /\ size \notin Places(w)
      BY <2>1 DEF Places
    <3>2. IsFiniteSet(Places(w))
      BY <1>0
    <3> QED
      BY <3>1, <3>2, FS_AddElement
  <2>3. Count' = [Count EXCEPT ![v] = @ + 1]
    BY <2>2
  <2> QED
    BY <1>1, <2>3 DEF Queue!Enqueue, Insert, Places
<1>2. ASSUME ExtractMin, size # 0 PROVE \E v \in Values : Queue!Dequeue(v)
  <2>1. /\ 0 \in 0 .. size - 1 /\ DOMAIN data = 0 .. size - 1 /\ sifting = "no" /\ data[0] \in Values
        /\ minimum' = data[0]
    BY <1>2, SizeAssumption DEF ExtractMin, HeapTypeOK
  <2>2. PICK m \in Values : m = data[0]
    BY <2>1
  <2>3. Cardinality(Places(m)) > 0
    <3>1. 0 \in Places(m)
      BY <2>1, <2>2 DEF Places
    <3> QED
      BY <1>0, <3>1, FS_EmptySet
  <2>4. ASSUME NEW w \in Values, Cardinality(Places(w)) > 0 PROVE m <= w
    <3>1. PICK k \in Places(w) : TRUE
      BY <2>4, FS_EmptySet
    <3> QED
      BY <2>1, <2>2, <3>1, RootIsSmallest DEF Places
  <2>5. Count' = [Count EXCEPT ![m] = @ - 1]
    BY <1>2, <2>2, ExtractTakesOne
  <2>6. Queue!Dequeue(m)
    BY <2>1, <2>2, <2>3, <2>4, <2>5 DEF Queue!Dequeue, Queue!Held, Places
  <2> QED
    BY <2>6
<1>3. ASSUME NEW a \in 0 .. size - 1, NEW b \in 0 .. size - 1, a # b, Swap(a, b), UNCHANGED minimum
      PROVE  UNCHANGED Queue!queueVars
  <2>1. \A v \in Values : Cardinality(Places(v)') = Cardinality(Places(v))
    BY <1>3, SwapKeepsPlaces
  <2> QED
    BY <1>3, <2>1 DEF Queue!queueVars, Places
<1>4. ASSUME UNCHANGED <<data, minimum>> PROVE UNCHANGED Queue!queueVars
  BY <1>4 DEF Queue!queueVars
<1>5. CASE BubbleUp
  <2>1. CASE index > 0 /\ data[Parent(index)] > data[index]
    <3>1. Parent(index) \in 0 .. size - 1 /\ index \in 0 .. size - 1 /\ Parent(index) # index
      BY <1>5, <2>1, ParentOfChild, SizeAssumption DEF BubbleUp, HeapTypeOK
    <3> QED
      BY <1>3, <1>5, <2>1, <3>1 DEF BubbleUp
  <2>2. CASE ~(index > 0 /\ data[Parent(index)] > data[index])
    BY <1>4, <1>5, <2>2 DEF BubbleUp
  <2> QED
    BY <2>1, <2>2
<1>6. CASE BubbleDown
  <2>1. CASE Smallest # index
    <3>1. Smallest \in 0 .. size - 1 /\ index \in 0 .. size - 1
      BY <1>6, <2>1, SizeAssumption
         DEF BubbleDown, Smallest, SmallerLeft, LeftChild, RightChild, HeapTypeOK
    <3> QED
      BY <1>3, <1>6, <2>1, <3>1 DEF BubbleDown
  <2>2. CASE Smallest = index
    BY <1>4, <1>6, <2>2 DEF BubbleDown
  <2> QED
    BY <2>1, <2>2
<1>7. CASE ExtractMin /\ size = 0
  BY <1>4, <1>7 DEF ExtractMin
<1>8. CASE UNCHANGED heapVars
  BY <1>4, <1>8 DEF heapVars
<1> QED
  BY <1>1, <1>2, <1>5, <1>6, <1>7, <1>8 DEF HeapNext, Queue!QueueNext

\* The heap implements the queue: whatever the calls, ExtractMin returns a smallest
\* of the values inserted and not yet taken, and nothing else is lost or doubled.
THEOREM ImplementsQueue == HeapSpec => QueueSpec
<1>1. HeapTypeOK /\ HeapTypeOK' /\ HeapWhole /\ [HeapNext]_heapVars => [Queue!QueueNext]_Queue!queueVars
  BY QueueStep
<1> QED
  BY <1>1, QueueInitially, HeapTypes, HeapBetweenCalls, PTL DEF HeapSpec, QueueSpec, Queue!QueueSpec
=============================================================================
