----------------------------- MODULE OrderIndex -----------------------------
(***************************************************************************)
(* cmd/redis/order/order2/order2.go: each order is added to the set of its  *)
(* customer, then to the set of its product, by two separate commands; the  *)
(* queries read one set or intersect two.  The loading loop (lines 38-58)   *)
(* is run by uncommenting it, and each run draws its orders anew.           *)
(***************************************************************************)
EXTENDS RedisLoader

CONSTANTS Customers, Products

OrderIDs == 1 .. N

VARIABLES customerSet,  \* customer:<id>:orders
          productSet,   \* product:<id>:orders
          drawn         \* history: every order generated, with its run

vars == <<loader, customerSet, productSet, drawn>>

TypeOK ==
  /\ LoaderTypeOK
  /\ customerSet \in [Customers -> SUBSET OrderIDs]
  /\ productSet \in [Products -> SUBSET OrderIDs]

Init ==
  /\ LoaderInit
  /\ customerSet = [c \in Customers |-> {}]
  /\ productSet = [q \in Products |-> {}]
  /\ drawn = {}

-----------------------------------------------------------------------------
(* Mutants: the store functions as a plausible bug would have them. *)

\* The second command takes its key from an order generated anew.
StoreRedrawn(c) ==
  /\ Execute(c)
  /\ IF c.step = 1
       THEN /\ customerSet' = [customerSet EXCEPT ![c.order.customer] = @ \cup {c.number}]
            /\ UNCHANGED productSet
       ELSE /\ \E q \in Products :
                 productSet' = [productSet EXCEPT ![q] = @ \cup {c.number}]
            /\ UNCHANGED customerSet
  /\ UNCHANGED drawn

-----------------------------------------------------------------------------
\* generateOrder.
Draw(p, o) ==
  /\ Generate(p, o)
  /\ drawn' = drawn \cup {[run |-> <<p, runs[p]>>, number |-> i[p], order |-> o]}
  /\ UNCHANGED <<customerSet, productSet>>

\* The server executes storeOrderInCustomerSet, the first command of an order,
\* or storeOrderInProductSet, the second.
Store(c) ==
  /\ Execute(c)
  /\ IF c.step = 1
       THEN /\ customerSet' = [customerSet EXCEPT ![c.order.customer] = @ \cup {c.number}]
            /\ UNCHANGED productSet
       ELSE /\ productSet' = [productSet EXCEPT ![c.order.product] = @ \cup {c.number}]
            /\ UNCHANGED customerSet
  /\ UNCHANGED drawn

Control(p) ==
  /\ Start(p) \/ Proceed(p) \/ Kill(p)
  /\ UNCHANGED <<customerSet, productSet, drawn>>

\* getOrdersIntersectionByCustomerAndProduct: SINTER is one command.
Intersection(c, q) == customerSet[c] \cap productSet[q]

Next ==
  \/ \E c \in Sent : Store(c)
  \/ \E p \in Programs : (\E o \in Draws[p] : Draw(p, o)) \/ Control(p)

Spec == Init /\ [][Next]_vars

-----------------------------------------------------------------------------
(* Properties *)

\* An order whose command was not logged as failed is in the set it was to go
\* to (order2.go:43-52), after lost answers, retries and killed runs as well.
StoredUnlessLogged ==
  \A d \in drawn, p \in Programs :
    d.run = <<p, runs[p]>> =>
      /\ Acknowledged(p, d.number, 1) => d.number \in customerSet[d.order.customer]
      /\ Acknowledged(p, d.number, 2) => d.number \in productSet[d.order.product]

\* Runs mix, commands of one run do not: an order in the intersection of two
\* sets was drawn with that customer and that product, or one run drew it with
\* the customer and another run with the product (SADD removes nothing, and each
\* run draws anew), whatever was lost, repeated, late or killed (order2.go:38-58).
MixedOnlyAcrossRuns ==
  \A c \in Customers, q \in Products : \A n \in Intersection(c, q) :
    \E d, e \in drawn :
      /\ d.number = n /\ d.order.customer = c
      /\ e.number = n /\ e.order.product = q
      /\ d.order = e.order \/ d.run # e.run

\* "Orders that are both the customer's and the product's" (order2.go:84, 146):
\* an order in the intersection was once generated with that customer and that
\* product.
IntersectionTruthful ==
  \A c \in Customers, q \in Products : \A n \in Intersection(c, q) :
    \E d \in drawn : d.number = n /\ d.order = [customer |-> c, product |-> q]
=============================================================================
