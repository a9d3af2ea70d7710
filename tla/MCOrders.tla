------------------------------ MODULE MCOrders ------------------------------
(* The programs on Redis for TLC: the hashes with the ranking (order,        *)
(* order1), the sets (order2), the action log (order3) or the leaderboard.   *)
(* Which of them runs is fixed at first; the first three have the loader's   *)
(* variables in common.                                                      *)
EXTENDS MCOrderRanking

CONSTANTS LogLength, Retries,  \* N and MaxRetries of order3
          SetOrders, SetRetries, SetRuns,  \* N, MaxRetries and MaxRuns of order2
          Customers, Products, SetDraws    \* and the orders it may draw

ASSUME OrdersAssumption ==
  /\ Retries \in Nat /\ LogLength \in Nat
  /\ SetOrders \in Nat \ {0} /\ SetRetries \in Nat /\ SetRuns \in Nat \ {0}
  /\ SetDraws # {} /\ SetDraws \subseteq [customer : Customers, product : Products]

VARIABLES keys, customerSet, productSet, log, shown, amount, stores, applied,
          board, next, unanswered, topPlayers, beaten

OnlyOrder2 == {"order2"}

\* Two orders with no key in common: an order can get both keys of a mixed pair
\* only from two runs.
DrawnUnlike == {[customer |-> 1015, product |-> 107], [customer |-> 1016, product |-> 108]}

Index == INSTANCE OrderIndex
  WITH Programs <- OnlyOrder2, Steps <- [p \in OnlyOrder2 |-> 2],
       Draws <- [p \in OnlyOrder2 |-> SetDraws],
       N <- SetOrders, MaxRetries <- SetRetries, MaxRuns <- SetRuns

OnlyOrder3 == {"order3"}

Log == INSTANCE OrderLog
  WITH Programs <- OnlyOrder3, Steps <- [p \in OnlyOrder3 |-> 1],
       Draws <- [p \in OnlyOrder3 |-> {"none"}], Program <- "order3",
       N <- LogLength, MaxRetries <- Retries, Stored <- 100, Added <- 50, MaxStores <- 2

ASSUME LogsAssumption == Log!LogAssumption

Board == INSTANCE Leaderboard WITH BoardRuns <- {1, 2}, MaxUnanswered <- 1

rankingVars == <<hash, scores, top>>
indexVars == <<customerSet, productSet>>
logVars == <<log, shown, amount, stores, applied>>
boardVars == <<board, next, unanswered, topPlayers, beaten>>
ordersVars == <<keys, vars, indexVars, logVars, boardVars>>

NoRanking ==
  /\ hash = <<>> /\ scores = <<>> /\ query = "none" /\ result = <<>> /\ orders = <<>>
  /\ snap = <<>> /\ missed = {}
NoIndex == customerSet = <<>> /\ productSet = <<>>
NoLog == log = <<>> /\ shown = <<>> /\ amount = 0 /\ stores = 0 /\ applied = 0

OrdersInit ==
  /\ Board!BoardInit
  /\ \/ keys \in {"ranking", "board"} /\ Init /\ NoIndex /\ NoLog
     \/ keys = "sets" /\ Index!Init /\ NoRanking /\ NoLog
     \/ keys = "log" /\ Log!Init /\ NoRanking /\ NoIndex /\ drawn = {}

OrdersNext ==
  \/ keys = "ranking" /\ Next /\ UNCHANGED <<keys, indexVars, logVars, boardVars>>
  \/ keys = "sets" /\ Index!Next /\ UNCHANGED <<keys, rankingVars, logVars, boardVars>>
  \/ keys = "log" /\ Log!Next /\ UNCHANGED <<keys, rankingVars, indexVars, drawn, boardVars>>
  \/ keys = "board" /\ Board!BoardNext /\ UNCHANGED <<keys, vars, indexVars, logVars>>

OrdersSpec == OrdersInit /\ [][OrdersNext]_ordersVars

-----------------------------------------------------------------------------
(* The properties of the three modules, each for its own programs. *)

\* Every variable has its type.
OrdersTypeOK ==
  CASE keys = "ranking" -> TypeOK
    [] keys = "board" -> Board!BoardTypeOK
    [] keys = "sets" -> Index!TypeOK
    [] keys = "log" -> Log!TypeOK

\* The rankings.  What the loaders (order.go, order1.go) stored without logging a
\* failure is there; the query returns its orders by the ranking it read, none
\* twice, and leaves out no order whose look-up it could rely on.  The top three
\* of the leaderboard (sortsetx.go) shows the update just made unless somebody
\* has undone it.
RankingRight ==
  /\ keys = "ranking" => StoredUnlessLogged /\ InRankOrder /\ NoneLeftOut
  /\ keys = "board" => Board!UpdateShown

\* The sets (order2.go).  An order is in both sets it was to go to unless a
\* command was logged as failed, and one in an intersection was drawn with that
\* customer and that product or got its two keys from two runs.
SetsRight == keys = "sets" => Index!StoredUnlessLogged /\ Index!MixedOnlyAcrossRuns

\* What order2.go:84 and 146 say an intersection is, however often the loop ran.
SetsTruthful == keys = "sets" => Index!IntersectionTruthful

\* The log (order3.go).  Whatever pushes and scripts are repeated or late: the
\* actions keep the order of their first copies, the list printed holds every
\* recorded one, and the amount is the one stored plus ARGV[1] for each time the
\* script has run since.
LogRight ==
  keys = "log" => Log!FirstCopiesInOrder /\ Log!ShownComplete /\ Log!AmountAccounted
=============================================================================
