---------------------------- MODULE OrderRanking ----------------------------
(***************************************************************************)
(* The orders as hashes (cmd/redis/order/order.go, one HSET per order) and  *)
(* the ranking of the orders by amount (order1/order1.go, one ZADD per      *)
(* order), loaded by two programs that each draw the orders themselves, and *)
(* order1's query: one ZREVRANGEBYSCORE, then one HGETALL per order found,  *)
(* while the loaders may be running.                                        *)
(***************************************************************************)
EXTENDS RedisLoader, FiniteSets, Sequences

CONSTANTS MinAmount, MaxAmount,  \* the score range the query asks for
          TopN,                  \* how many orders it asks for
          Place,                 \* Place[n]: where ID n comes in the order of bytes
          NoOrder, NoAmount      \* a key or member that does not exist

OrderIDs == 1 .. N

\* IDs are strings to Redis, "10" before "2": no two share a place.  NoOrder is
\* no order.
ASSUME RankingAssumption ==
  /\ Programs = {"order", "order1"} /\ NoOrder \notin Draws["order"]
  /\ Place \in [1 .. N -> Nat] /\ \A a, b \in 1 .. N : Place[a] = Place[b] => a = b
  /\ TopN \in Nat \ {0} /\ MinAmount \in Nat /\ MaxAmount \in Nat

VARIABLES hash,    \* order:<id>
          scores,  \* orders:sorted_by_amount
          drawn,   \* history: every order generated
          query,   \* what getTopOrdersByAmount is at: idle, details or done
          result,  \* the order IDs it still has to look up
          orders,  \* the orders it returns
          snap,    \* history: scores and the IDs with a hash at its first command
          missed   \* history: the IDs whose look-up failed

top == <<query, result, orders, snap, missed>>
vars == <<loader, hash, scores, drawn, top>>

Orders == Draws["order"]
Amounts == {o.amount : o \in Draws["order1"]}

TypeOK ==
  /\ LoaderTypeOK
  /\ hash \in [OrderIDs -> Orders \cup {NoOrder}]
  /\ scores \in [OrderIDs -> Amounts \cup {NoAmount}]
  /\ query \in {"idle", "details", "done"}
  /\ Len(orders) + Len(result) <= TopN
  /\ \A k \in DOMAIN orders : orders[k].id \in OrderIDs /\ orders[k].order \in Orders
  /\ missed \subseteq OrderIDs

Init ==
  /\ LoaderInit
  /\ hash = [n \in OrderIDs |-> NoOrder]
  /\ scores = [n \in OrderIDs |-> NoAmount]
  /\ drawn = {}
  /\ query = "idle"
  /\ result = <<>>
  /\ orders = <<>>
  /\ snap = [scores |-> scores, hashed |-> {}]
  /\ missed = {}

\* Redis's order of a sorted set, from the last to the first: ties go by the bytes.
Above(s, a, b) == s[a] > s[b] \/ (s[a] = s[b] /\ Place[a] > Place[b])
InRange(s) == {n \in OrderIDs : s[n] # NoAmount /\ s[n] \in MinAmount .. MaxAmount}
Ranked(s) ==
  CHOOSE ids \in [1 .. Cardinality(InRange(s)) -> InRange(s)] :
    \A j, k \in DOMAIN ids : j < k => Above(s, ids[j], ids[k])
FirstN(ids) == SubSeq(ids, 1, IF Len(ids) < TopN THEN Len(ids) ELSE TopN)

-----------------------------------------------------------------------------
(* Mutants: the programs as a plausible bug would have them. *)

\* A missing order ends the query.
MissingEnds ==
  /\ query = "details" /\ result # <<>>
  /\ hash[Head(result)] = NoOrder
  /\ result' = <<>>
  /\ UNCHANGED <<loader, hash, scores, drawn, query, orders, snap, missed>>

-----------------------------------------------------------------------------
\* generateOrder.
Draw(p, o) ==
  /\ Generate(p, o)
  /\ drawn' = drawn \cup {[program |-> p, number |-> i[p], order |-> o]}
  /\ UNCHANGED <<hash, scores, top>>

\* The server executes storeOrderInRedis or storeOrderInSortedSet.
Store(c) ==
  /\ Execute(c)
  /\ IF c.program = "order"
       THEN /\ hash' = [hash EXCEPT ![c.number] = c.order]
            /\ UNCHANGED scores
       ELSE /\ scores' = [scores EXCEPT ![c.number] = c.order.amount]
            /\ UNCHANGED hash
  /\ UNCHANGED <<drawn, top>>

Control(p) ==
  /\ Start(p) \/ Proceed(p) \/ Kill(p)
  /\ UNCHANGED <<hash, scores, drawn, top>>

\* getTopOrdersByAmount: the IDs.
ReadRange ==
  /\ query = "idle"
  /\ query' = "details"
  /\ result' = FirstN(Ranked(scores))
  /\ snap' = [scores |-> scores, hashed |-> {n \in OrderIDs : hash[n] # NoOrder}]
  /\ UNCHANGED <<loader, hash, scores, drawn, orders, missed>>

\* getOrderDetails of the next ID, and append.
Detail ==
  /\ query = "details" /\ result # <<>>
  /\ hash[Head(result)] # NoOrder
  /\ orders' = Append(orders, [id |-> Head(result), order |-> hash[Head(result)]])
  /\ result' = Tail(result)
  /\ UNCHANGED <<loader, hash, scores, drawn, query, snap, missed>>

\* There is no such order: it is logged and left out.
DetailMissing ==
  /\ query = "details" /\ result # <<>>
  /\ hash[Head(result)] = NoOrder
  /\ result' = Tail(result)
  /\ UNCHANGED <<loader, hash, scores, drawn, query, orders, snap, missed>>

\* HGETALL fails: the same.
DetailFails ==
  /\ query = "details" /\ result # <<>>
  /\ missed' = missed \cup {Head(result)}
  /\ result' = Tail(result)
  /\ UNCHANGED <<loader, hash, scores, drawn, query, orders, snap>>

Return ==
  /\ query = "details" /\ result = <<>>
  /\ query' = "done"
  /\ UNCHANGED <<loader, hash, scores, drawn, result, orders, snap, missed>>

Next ==
  \/ \E c \in Sent : Store(c)
  \/ \E p \in Programs : (\E o \in Draws[p] : Draw(p, o)) \/ Control(p)
  \/ ReadRange \/ Detail \/ DetailMissing \/ DetailFails \/ Return

Spec == Init /\ [][Next]_vars

-----------------------------------------------------------------------------
(* Properties *)

Listed == {orders[k].id : k \in DOMAIN orders}

\* The orders come by the ranking the query read (order1.go:118), none twice.
InRankOrder ==
  \A j, k \in DOMAIN orders :
    j < k => Above(snap.scores, orders[j].id, orders[k].id)

\* An order in the range that had its hash when the query began, and whose
\* look-up did not fail, is returned unless topN orders rank above it, whatever
\* the loaders do between the look-ups and whichever other look-ups find nothing
\* (order1.go:129-136).
NoneLeftOut ==
  query = "done" =>
    \A n \in (InRange(snap.scores) \cap snap.hashed) \ (Listed \cup missed) :
      Cardinality({m \in InRange(snap.scores) : Above(snap.scores, m, n)}) >= TopN

\* An order that a run sent and did not log as failed has its hash
\* (order.go:40-44) or its score (order1.go:42-46), that of an order drawn under
\* its number, after lost answers, retries and killed runs as well.
StoredUnlessLogged ==
  \A p \in Programs, n \in OrderIDs :
    Acknowledged(p, n, 1) =>
      \E d \in drawn :
        /\ d.program = p /\ d.number = n
        /\ IF p = "order" THEN hash[n] = d.order ELSE scores[n] = d.order.amount

\* "The top N orders by amount" (order1.go:69, 115), printed with their amounts:
\* no order is listed before one of a larger amount.
SortedByAmount ==
  \A j, k \in DOMAIN orders :
    j < k => orders[j].order.amount >= orders[k].order.amount
=============================================================================
