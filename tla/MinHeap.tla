------------------------------ MODULE MinHeap ------------------------------
(***************************************************************************)
(* cmd/heapx/heapx.go: a binary heap in a slice, indexed from 0.  A call of *)
(* Insert or ExtractMin changes the slice and then sifts one value up or    *)
(* down, an iteration of the loop per step; calls come one after another.   *)
(***************************************************************************)
EXTENDS Integers, FiniteSets

CONSTANTS Values, MaxSize, None  \* MaxSize bounds the heap

ASSUME ValuesAssumption == Values \subseteq Int
ASSUME SizeAssumption == MaxSize \in Nat

VARIABLES data,       \* the slice: a function on 0 .. size - 1
          size,       \* its length
          sifting,    \* "no", "up", "down", or "panicked"
          index,      \* the index of the loop
          minimum     \* what ExtractMin returns

heapVars == <<data, size, sifting, index, minimum>>

Parent(i) == (i - 1) \div 2
LeftChild(i) == 2 * i + 1
RightChild(i) == 2 * i + 2

HeapTypeOK ==
  /\ size \in 0 .. MaxSize
  /\ data \in [0 .. size - 1 -> Values]
  /\ sifting \in {"no", "up", "down", "panicked"}
  /\ index \in Nat /\ (sifting = "up" => index < size)
  /\ (sifting = "down" => index < size \/ size = 0)
  /\ minimum \in Values \cup {None}

HeapInit ==
  /\ data = [i \in 0 .. -1 |-> None] /\ size = 0
  /\ sifting = "no" /\ index = 0 /\ minimum = None

Swap(i, j) == data' = [data EXCEPT ![i] = data[j], ![j] = data[i]]

\* smallest of bubbleDown after its first test, and after its second.
SmallerLeft == IF LeftChild(index) < size /\ data[LeftChild(index)] < data[index]
                 THEN LeftChild(index) ELSE index

-----------------------------------------------------------------------------
(* Mutants *)

\* The right child is compared with the parent and not with the smaller one.
SmallestOfLast == IF RightChild(index) < size /\ data[RightChild(index)] < data[index]
                    THEN RightChild(index) ELSE SmallerLeft

\* The last element is not cut off.
ExtractKeepsLast ==
  /\ sifting = "no"
  /\ IF size = 0 THEN sifting' = "panicked" /\ UNCHANGED <<data, size, index, minimum>>
     ELSE /\ minimum' = data[0]
          /\ data' = [data EXCEPT ![0] = data[size - 1]]
          /\ sifting' = "down" /\ index' = 0 /\ UNCHANGED size

-----------------------------------------------------------------------------
Smallest == IF RightChild(index) < size /\ data[RightChild(index)] < data[SmallerLeft]
              THEN RightChild(index) ELSE SmallerLeft

Insert(v) ==
  /\ sifting = "no" /\ size < MaxSize
  /\ data' = [i \in 0 .. size |-> IF i = size THEN v ELSE data[i]]
  /\ size' = size + 1
  /\ sifting' = "up" /\ index' = size /\ UNCHANGED minimum

\* An iteration of bubbleUp, or its end.
BubbleUp ==
  /\ sifting = "up"
  /\ IF index > 0 /\ data[Parent(index)] > data[index]
       THEN Swap(Parent(index), index) /\ index' = Parent(index) /\ UNCHANGED sifting
       ELSE sifting' = "no" /\ UNCHANGED <<data, index>>
  /\ UNCHANGED <<size, minimum>>

ExtractMin ==
  /\ sifting = "no"
  /\ IF size = 0 THEN sifting' = "panicked" /\ UNCHANGED <<data, size, index, minimum>>
     ELSE /\ minimum' = data[0]
          /\ data' = [i \in 0 .. size - 2 |-> IF i = 0 THEN data[size - 1] ELSE data[i]]
          /\ size' = size - 1
          /\ sifting' = "down" /\ index' = 0

\* An iteration of bubbleDown, or its break.
BubbleDown ==
  /\ sifting = "down"
  /\ IF Smallest # index
       THEN Swap(index, Smallest) /\ index' = Smallest /\ UNCHANGED sifting
       ELSE sifting' = "no" /\ UNCHANGED <<data, index>>
  /\ UNCHANGED <<size, minimum>>

HeapNext == (\E v \in Values : Insert(v)) \/ BubbleUp \/ ExtractMin \/ BubbleDown

HeapSpec == HeapInit /\ [][HeapNext]_heapVars

-----------------------------------------------------------------------------
(* Properties *)

Ordered(i, j) == j < size => data[i] <= data[j]

\* The order of the heap with a hole: the value being sifted may be smaller
\* than its parent ("up") or greater than its children ("down"), and the
\* children of the hole are not smaller than its parent.
HeapOrder ==
  /\ \A i \in 0 .. size - 1 : \A j \in {LeftChild(i), RightChild(i)} :
       \/ Ordered(i, j)
       \/ sifting = "up" /\ j = index
       \/ sifting = "down" /\ i = index
  /\ sifting \in {"up", "down"} /\ index > 0 =>
       \A j \in {LeftChild(index), RightChild(index)} : Ordered(Parent(index), j)

\* Between calls the slice is a heap: no value is smaller than its parent
\* (heapx.go:18-56).
HeapWhole ==
  sifting = "no" => \A i \in 1 .. size - 1 : data[Parent(i)] <= data[i]

\* Whatever the calls, ExtractMin returns a smallest value and takes away that
\* one alone; sifting neither loses nor doubles a value.
Queue == INSTANCE PriorityQueue
           WITH bag <- [v \in Values |-> Cardinality({i \in DOMAIN data : data[i] = v})],
                returned <- minimum
QueueSpec == Queue!QueueSpec
=============================================================================
