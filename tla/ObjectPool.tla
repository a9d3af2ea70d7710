----------------------------- MODULE ObjectPool -----------------------------
(***************************************************************************)
(* cmd/unsafe/unsafe.go: a pool of untyped pointers, used as a stack.  Get  *)
(* does not say what it returns, so main casts, and has to know the order   *)
(* in which it put the objects; main ends by putting its two objects back.  *)
(***************************************************************************)
EXTENDS Naturals, Sequences

VARIABLES freeList,  \* the objects in the pool, the last put last
          taken,     \* the objects taken by Get and not put back
          casts,     \* history: the object and the type of every cast
          callsMade  \* of the calls of main

poolVars == <<freeList, taken, casts, callsMade>>

\* intPtr and strPtr; an object is known by its type.
Objects == {"int", "string"}

\* main: the calls in their order, a Get with the type of its cast.
Put(o) == [call |-> "put", type |-> o]
Get(t) == [call |-> "get", type |-> t]
PoolCalls == <<Put("int"), Put("string"), Get("string"), Get("int"), Put("int"), Put("string")>>

PoolTypeOK ==
  /\ freeList \in Seq(Objects) /\ taken \subseteq Objects
  /\ casts \in Seq(Objects \X Objects) /\ callsMade \in 0 .. Len(PoolCalls)

PoolInit == freeList = << >> /\ taken = {} /\ casts = << >> /\ callsMade = 0

AllButLast == SubSeq(freeList, 1, Len(freeList) - 1)

-----------------------------------------------------------------------------
(* Mutants *)

\* A queue: the object put first is taken.
PoolGetFirst(type) ==
  /\ freeList # << >>
  /\ freeList' = Tail(freeList) /\ taken' = taken \cup {Head(freeList)}
  /\ casts' = Append(casts, <<Head(freeList), type>>)

-----------------------------------------------------------------------------
PoolPut(o) ==
  /\ freeList' = Append(freeList, o) /\ taken' = taken \ {o}
  /\ UNCHANGED casts

\* Of an empty pool it is nil, which main does not cast.
PoolGet(type) ==
  IF freeList = << >> THEN UNCHANGED <<freeList, taken, casts>>
  ELSE /\ freeList' = AllButLast /\ taken' = taken \cup {freeList[Len(freeList)]}
       /\ casts' = Append(casts, <<freeList[Len(freeList)], type>>)

PoolNext ==
  /\ callsMade < Len(PoolCalls) /\ callsMade' = callsMade + 1
  /\ LET c == PoolCalls[callsMade']
     IN IF c.call = "put" THEN PoolPut(c.type) ELSE PoolGet(c.type)

-----------------------------------------------------------------------------
(* Properties *)

\* Every pointer is cast to the type of the object it points to
\* (unsafe.go:64, 73); a wrong cast reads other memory.
CastsMatch == \A k \in DOMAIN casts : casts[k][1] = casts[k][2]

\* No object is in the pool twice, nor in it while main holds it: a Get never
\* hands out what somebody uses (unsafe.go:21-35).
PoolExclusive ==
  /\ \A j, k \in DOMAIN freeList : freeList[j] = freeList[k] => j = k
  /\ \A k \in DOMAIN freeList : freeList[k] \notin taken
=============================================================================
