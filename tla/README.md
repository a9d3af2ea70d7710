# TLA+ models of kratos-demo

The repository is a Go workspace of about forty small programs: a kratos
service, an OAuth server with its client, a WebSocket broadcast server, payment
programs in two design patterns, order stores on Redis, and a number of
language and library demonstrations. They share no state in memory; those that
interact do so through HTTP, WebSockets, Redis or Dex. This directory holds one
specification per program that takes decisions, its TLC configurations, and
machine-checked proofs of every safety property the passing runs check.

Paths below are relative to `src/demosvc/`. Several programs do not compile as
committed (timeline.go, nats.go, lottery.go, lottery/demo/demo.go, oauth/client/client.go,
and of the service internal/server/grpc.go, which uses `metrics` without importing it and
imports `jwt` without using it: missing or unused imports, a missing configuration, a
name declared twice, a misspelt call such as `ReadMessage(&msg)`); the models take what is
evidently meant.

## 1. Inventory

| part | state | operations | how it interacts | what is hard |
|---|---|---|---|---|
| WebSocket broadcast server, `cmd/design/lottery/timeline/timeline.go` | `clients` map, `broadcast` channel, mutex | register, read loop, broadcast loop | one goroutine per peer, one broadcaster; unbuffered channel, sockets | interleaving, failed writes, peers that leave or stop reading |
| authorization server, `cmd/auth/auth.go` | `authCodes`, `tokens`, mutex | `/authorize`, `/token` | concurrent HTTP requests | two exchanges of one code, colliding random draws, a code sent before it is stored |
| OAuth client, callback page, resource server, `cmd/authclient`, `cmd/callback`, `cmd/resource` | none | get code, exchange, fetch | HTTP to the above and to Dex | what each accepts against what the other sends |
| OIDC server and client, `cmd/oauth` | a cookie in the browser | login, callback, user | HTTP, Dex | repeated callbacks, ID token against access token |
| Dex password client, `cmd/grpcclient` | a password record at Dex | create, list, verify, delete | gRPC | what a failure in the middle leaves |
| payment chain, `cmd/design/decorator/decorator` | points, tracker records | points, coupon, card | each decorator calls the next | partial reductions, insufficient points |
| payment context, `cmd/design/strategy/strategy` | points, records, the rest to pay | `Pay` over a list of strategies | loop over an interface | order of strategies, early exit, what is recorded |
| simple payment variants, `cmd/design/decorator/decorator.go`, `cmd/design/strategy/stragety.go` | points | the same without a tracker | | a decorator that does not call on |
| orders, `cmd/redis/order` (four programs) | hashes, sorted set, sets, list in Redis | load loops, top-N query, intersection, action log, amount script | several programs on one Redis | retries of commands that are not idempotent, reads between writes |
| leaderboard, set scan, other Redis demos, `cmd/redis` | keys in Redis | straight-line commands | Redis | scan during insertion |
| condition variable, `cmd/condx` | mutex, wait queue | wait, signal, broadcast | ten goroutines | lost signals |
| echo server and client, `pkg/ws`, `cmd/ws`, `cmd/client` | `done`, ticker, interrupt | echo, send, close | WebSocket | close handshake against timeout |
| heap, object pool, flyweight, generic containers, `cmd/heapx`, `cmd/unsafe`, `cmd/design/flyweight`, `cmd/fanxing`, `cmd/generatex.go` | slices, maps | insert, extract, put, get | sequential | boundary sizes, order of use |
| sharding, `cmd/design/sharding` | hash ring, pools | add, look up | library ring | keys that move |
| lottery, `cmd/design/lottery` | tickets and results in MongoDB, cache in Redis | save, find, cache | two stores | one of two writes fails |
| NATS publisher, `cmd/design/lottery/timeline/nats.go` | a subscription | publish, subscribe | NATS | publish before subscribe, connections that break |
| greeter service, `cmd/demosvc`, `internal` | none | SayHello through two middleware chains | HTTP and gRPC | context values only one chain sets |
| gin login, user API, GraphQL, wire demos | none | handlers that return constants | HTTP | an answer written twice |

What makes the modelled ones correct:

- broadcast server: every client sees the same messages in the same order,
  without gaps, from its registration to its failure; every reading client is
  served in the end; a client that left is forgotten.
- authorization server: a code buys at most one token for each time it was granted,
  works as soon as the browser has it, and every request is answered.
- payments: what is recorded adds up to what was paid, and points lost are
  points recorded.
- orders and leaderboard: what was not logged as failed is stored; queries tell the
  truth about what is stored, whatever is retried, late or running.
- logins: one login is answered with tokens once, only verified tokens are
  served, and the Dex account is used by one run at a time.
- echo session, condition variable, greeter service: nothing is lost or
  reordered while nothing fails, and every wait ends.
- heap, pool, circles: a bag of which the smallest is taken; objects of the
  right type, used by one holder; the circle asked for.
- shards, generator, lottery: keys move to new databases only, orders lie where the
  queries look, files are complete unless an error was about them, the cache agrees with
  the database unless an error was dropped, and what a call returned is stored.

The hazards of the code, each at its line with the properties that cover it, are
in `PROJECT.json`.

## 2. Plan

The modules of section 3 are written, in the order in which they stand there:
what several actors share first, what one program does alone last. The proofs
followed in the same order, the programs on Redis last because they rest on lemmas about
their common loop. Every safety property of the passing runs is a theorem now, and so
are the three refinements; what is left:

1. An abstract specification of the authorization server (grants and spent codes), with
   AuthServer shown to implement it.
2. Shorter proofs where one component's invariant repeats another's.

Abstract specifications: `FanOut`, `PaymentLedger` and `PriorityQueue`, each with a
module that implements it. No module that is to be proved about declares a
RECURSIVE operator.

## 3. The modules

Each module's operators that stand for code are listed in `PROJECT.json` "map" with
their lines. Most modules have a section of mutants: actions as a plausible bug
would make them. No specification uses them; replacing the action by its mutant
makes TLC find the property named for it in `PROJECT.json` violated.

The programs share nothing, so small ones are checked together. `MCOrders`,
`MCPrograms` and `MCSessions` hold a variable that says which program a behaviour
is about; it never changes, only that program's variables do, and the others
stay as they begin (in MCSessions: not begun, or over, so that their fairness asks
for nothing). Each property of these modules is the conjunction of the
properties of one area, named in the comment above it.

### A. WebSocketServer, FanOut

`WebSocketServer` is timeline.go. Per connection `hpc` is the point its handler
goroutine has reached (waiting for the lock, registering, reading, sending to the
channel, ended), `bpc`, `cur` and `todo` are Broadcast's position, its message
and the clients its `range` has not visited; `writing` is the client whose
WriteMessage it is in (NextClient picks one of `todo`, and the range goes on only when that
write has returned). `clients`, `locked` and the
rendezvous on the channel (`HandlerSend` moves handler and broadcaster together)
are the server's state; `sent`, `got`, `written`, the socket states, and the
history variables `log` and `start` (where in the log a client joined) describe
sockets and peers. A write either enters the peer's buffer (`SendBuf` messages
deep) or fails because the peer has left; with a full buffer and a peer that is
there it does neither, and Broadcast stays at that client and holds the mutex.

`FanOut` is the contract: messages are published one at a time, each to the members of
that moment, joining happens between broadcasts, and a member that misses a
message is no longer one. `ContractSpec` says that WebSocketServer implements it under
`members <- clients, view <- written`.

### B. AuthServer, AuthFlow, OidcFlow, DexPasswords

`AuthServer` is auth.go. A request is a process (`Grants` call `/authorize`, `Exchanges`
call `/token`), and each of its critical sections is a lock step, the access and
the unlock; the code between two sections is a step of its own. `GenerateCode` and
`LockForToken` draw any value, so that two draws may collide, as
`rand.Intn(1000000)` may. `reply[r]` is the HTTP status.

`AuthFlow` extends it with the callback page (`shown`, the codes that pages show) and
authclient.go (`client[c]`): a code is typed at the prompt, posted to the server,
and the token is taken to the resource server. What that answers depends on the path and
on the token in the query (`ResourceStatuses`, of resource.go); the client asks for another
path and sends its token in a header. Other exchanges are other programs that post
whatever code they like.

`OidcFlow` is the other way to log in: oauth/server, oauth/client and resource.go with
Dex outside. A token is named by the code that bought it; whether Dex's access
token passes as an ID token is left open (`readable`), since server.go hands on the access
token and resource.go verifies it as an ID token. Any answer of Dex may be lost after
the code was bought.

`DexPasswords` is grpcclien.go: overlapping runs on the one account, where every call
may be refused or carried out without an answer. `leftBy` remembers which failed run
left the account behind.

### C. PaymentTracker, PaymentChain, PaymentLedger, PaymentContext, SimplePayments

`PaymentTracker` is the record keeping both programs contain. `PaymentChain` walks
the decorators points, coupon, card, one Pay per step (`next` is the decorator
whose Pay is called next), over several payments, since points and records
outlive one. It implements `PaymentLedger`, which only knows what is owed and
what was recorded: a payment is requested when the last is covered, and each
step covers a part. `PaymentContext` is the strategy loop over any order of the
strategies. Amounts are multiples of ten so that a tenth of them is an integer; the
programs use float64, whose rounding is not modelled. `SimplePayments` is the two
programs without a tracker, a layer per step: the decorator of the coupon does not call
the payment it wraps, the strategies stop when nothing is left, and points are kept
from call to call. It counts in tenths.

### D. RedisLoader, OrderIndex, OrderRanking, OrderLog, Leaderboard

`RedisLoader` is what the order programs have in common: a loop that draws an
order and sends its commands one by one, go-redis repeating a command without
an answer up to `MaxRetries` times, an error that is logged and passed over, and
a program that is killed and run again. The server executes any command that
was sent, also one that its client has abandoned (`late`), in any order. The
loops are commented out in order.go, order1.go and order2.go, and so are the
recordings in order3.go: they are how the data the rest of each `main` reads came into
being, and the models take them as if uncommented.

- `OrderIndex` (order2.go): two SADDs per order and the intersection. A run that is
  repeated draws anew and removes nothing, so runs mix in the sets: MixedOnlyAcrossRuns
  says that they mix in no other way.
- `OrderRanking` (order.go and order1.go): HSET by one program, ZADD by the other,
  and the query that ranks with one command and looks up each order with
  another while both loaders run. `Place` is Redis's order of the IDs as strings, by which it
  ranks equal scores.
- `OrderLog` (order3.go): LPUSH of the actions, LRANGE, and the script that
  adds to an amount that order.go may store meanwhile.
- `Leaderboard` (sortsetx.go) stands apart: overlapping runs of its `main` over one
  sorted set, where a copy of an unanswered ZADD may be executed at any later time.

### E. CondVar, EchoSession, Greeter

- `CondVar` (condx.go): `routine[g]` is where a goroutine is, `waiters` the queue of the
  condition, `mainAt` the next call of main. The sleeps order nothing: a goroutine may
  reach Wait before the first signal or after the broadcast. `early` and `signalled`
  record who waited before the broadcast and whom the signals woke.
- `EchoSession` (pkg/ws/ws.go, cmd/ws, ws_client.go): main's select loop with ticker,
  interrupt and `done`, the close handshake and its timeout, the reader goroutine, and
  the server's handler over two bounded directions of a connection that may break.
- `Greeter` (cmd/demosvc, internal/server, internal/service): a call over either
  transport through decoding, the middleware chains, SayHello and the encoder, with the
  errors of decoding and of Localize; a panic is
  recovered, dropped with its connection (net/http) or ends the process (gRPC);
  kratos starts both servers and stops both.

### F. Sequential programs and stores

- `PriorityQueue`, `MinHeap` (heapx.go): a bag, and the slice that implements it with
  one iteration of a sifting loop per step; `index` is the hole.
- `ObjectPool` (unsafe.go) and `Flyweight` (flyweight.go).
- `Sharding` (shardding.go): the library's ring is an order of preference per key, which is
  what consistent hashing provides. `GormShards` (gorm/demo.go): main's statements
  over the shards, each of which may fail, and runs that are killed.
- `CodeGen` (generatex.go): directories, files that are absent, partial or complete, ignored
  errors, kills.
- `LotteryCache` (lottery.go), `LotteryService` (demo.go), `NatsTimeline` (nats.go): two stores
  of one ticket; bets and draws of several lotteries with issue numbers of a clock that may be
  set, and inserts carried out after their call has returned an error; a publisher that
  subscribes after it has published, on a connection that may break, where the library sends
  the subscription ahead of what it still holds (`resent` remembers that).

## 4. Runs

| run | instance | question |
|---|---|---|
| ws_core | 2 peers, of which one sends 2 messages and the other 1, buffer 1, all connected peers read | TypeOK, MutualExclusion; UpToDate: a registered client has been written every message since it joined but for the one being handed round, whatever errors other writes meet; OrderedDelivery (one order, no gap), SenderOrder, ContractSpec (FanOut); and the liveness properties EveryReaderServed, DeadClientForgotten, HandlerEnds |
| ws_stall | the same, but only one peer reads | EveryReaderServed is violated: see findings |
| auth | 2 grants, 2 exchanges of which one is the client, 2 codes, 1 token | TypeOK, SingleUse, GrantUsable; RefusedOnlyIfSpent: a code typed off a page works unless somebody used it; CodeRedeemed, EveryRequestAnswered |
| auth_resource | the same | ResourceReached is violated: see findings |
| payment_chain | 3 payments of 0 to 300, coupon 20, 25 points | TypeOK, Conservation, PointsAccounted, LedgerSpec |
| payment_records | the strategies in main's order | RecordsAddUp is violated: see findings |
| orders | 2 orders, 3 amounts (one below the range), top 2, both loaders; the sets of 2 customers and 2 products, loaded by 2 runs; 2 actions, the list, the script, the order stored twice, 1 retry; 2 runs of the leaderboard | OrdersTypeOK, RankingRight, SetsRight, LogRight |
| order_sorted | 2 orders, hashes and scores drawn apart | SortedByAmount is violated: see findings |
| order_sets_rerun | the sets as in orders | SetsTruthful is violated: see findings |
| programs | strategies in 5 orders, 3 payments; simple payments of 10, 20 and 100; heap of 5 slots, 3 values; main's pool calls; 2 by 2 circles; 2 keys, 3 databases in any preference; 3 shards, 2 runs; 3 files, 2 runs; 3 requests, 2 codes of Dex; 3 runs of the password client; 3 tickets with 2 IDs; 2 bettors, 2 lotteries, 2 bets, 1 draw, 2 seconds; 3 NATS users, 2 broken connections | ProgramsTypeOK, PaymentsRight, HeapOrder, QueueSpec, ObjectsRight, ShardsRight, CompleteUnlessFailed, LoginsRight, LotteryRight, NeverUndone |
| sessions | 3 goroutines; 3 ticks, buffers of 1; 2 calls | SessionsTypeOK, OnlyLateWait, EchoRight, CallsRight, and the liveness properties EarlyWaitersPrint, EchoEnds, ServiceEnds |
| greeter_greets | the same | SendsGreeting is violated: see findings |

Why the bounds are enough. Broadcast treats clients alike and one after another;
with two of them one is visited while the other is to come, and two messages from
one sender and one from the other make their order and every interleaving with another sender's
possible. Two
exchanges race for one code with a grant to spare, and two codes for two grants
let draws collide or not. Payments meet the coupon below, at and above its value
and points below and above a tenth, with enough payments for the points to run
out. Two orders make an earlier and a later one; one retry makes a lost answer, a
repeated and an abandoned command, in the log, where the commands are not idempotent. The
ranking and the sets have no retry, to stay small: the ways a command may end (answered,
failed, late, killed with) are all there. The sets are loaded by two runs whose draws differ in
customer and product both; the ranking is loaded by one run of each program and `TopN` is the number
of orders, since a second run or a third order take more than ten million states. What that
leaves out (reruns of the ranking's loaders, a limit that cuts) RankingServed proves for every
value of the bounds, and SetsFilled covers the retries of the sets. A heap of
five slots has a node with two children, one with one child, and a path of two
swaps. Three databases let a key move, stay, and prefer one that is never added. A second
run of the shards and of the generator meets what a failed or killed one left.
Three requests are a login and a race for its code, or a login, its callback and the
resource. Three tickets with two IDs collide; three goroutines are two for the
signals and one for the broadcast. Two broken connections among three users of NATS let one user
lose it twice, or two of them once. One frame in each direction is what makes both
ends of the echo session wait. Each
bound is a constant named in its module (`MaxMsgs`, `SendBuf`, `MaxPayments`,
`MaxRetries`, `MaxRuns`, `SetRetries`, `SetRuns`, `SetOrders`, `Retries`, `MaxStores`, `N`, `MaxBreaks`, `MaxUnanswered`, `MaxPaid`, `MaxSize`,
`MaxCircles`, `MaxShardRuns`, `MaxGenerations`, `MaxBets`, `MaxDraws`, `MaxSeconds`,
`MaxTicks`, `Buffer`).

Deadlock checking is off in all runs: every instance stops when the bounded input is
used up. That nobody waits for ever is checked by the liveness properties instead.

### Fairness

Only steps that the Go runtime or the code itself will take are fair. A
goroutine that can run does run: weak fairness of the steps that, once enabled,
stay so (the next client of a range, writes, unlocks, reads of a socket that has data or is
closed). Which client the range takes next is Go's choice, so only that it takes one is fair. A goroutine
queued at a mutex or a channel gets it although others come and go: strong
fairness of the lock steps and the channel send, because Go's mutex hands over to the
longest waiter after a millisecond (starvation mode) and a channel's senders wait in
a FIFO. In ws_core every peer in `Readers` goes on reading; that is an
assumption about the peers, and ws_stall shows what happens without it. Nothing makes
a peer send, leave, or a client ask for a code. AuthFlow adds that a client that has its
answer goes on with it; nobody has to type a code.

In CondVar, taking the lock is strongly fair for the same reason, the other steps of a
goroutine and main's two signals and broadcast are weakly fair; main's return is
not, and it may come before anybody printed. In EchoSession the steps of main, reader and handler are
weakly fair (each is a goroutine of its own, and a frame sent or a connection that broke
stays so); the case of the interrupt in `select` is strongly fair, because Go chooses
among ready cases at random and a ticker cannot win for ever. Nothing makes the user
interrupt or the connection break. In Greeter the steps of a call, of listening,
stopping and returning are weakly fair; requests and signals are not. No fairness is
assumed in the runs orders and programs.

## 5. Findings

- **ws_stall** (timeline.go:51): a write to a peer that stopped reading blocks, with no
  deadline and with the mutex held. The clients that the range had yet to reach do not get that
  message, nobody gets a later one, and nobody can register.
- **payment_records** (strategy.go:149): what is recorded per strategy is the sum of all
  reductions so far, and the card's charge never. A payment of 100 is recorded as
  coupon 20, points 28, card 28.
- **order_sorted** (order1.go:157): the amounts printed come from hashes that order.go drew
  independently of the scores ranked by.
- **order_sets_rerun** (order2.go:38): every run of the loading loop draws customers and
  products anew and only adds to the sets, so after a second run an order is in an intersection of a
  customer of one run and a product of the other.
- **auth_resource** (authclient.go:86): the client asks for `/resource` with a header; the
  resource server's only route is `/protected`, which wants the token in the query
  (resource.go:54, 68), so a client with a token never gets there.
- **greeter_greets** (localize.go:34): SayHello needs the localizer that only the HTTP
  chain puts into the context; over gRPC it panics and the caller gets an
  internal error.

Observed without a run: the top N query only ranges over scores 98 to 100; a bet is settled
by no draw of a later second, as both take their issue number from the clock
(lottery/demo/demo.go:200, 219).

## 6. Proofs

`tlapm` proves, for every value of the constants that satisfies the assumptions
of the modules:

| module | theorems (the property each one states, where the name differs) |
|---|---|
| WebSocketServerProofs | TypeCorrect, MutexSafe, NeverBehind (UpToDate), Ordered (OrderedDelivery), SenderOrdered (SenderOrder), ImplementsFanOut (ContractSpec) |
| AuthServerProofs | TypeCorrect, MutexSafe, CodesSingleUse, CodesUsable, TokensStored; FlowInvariance, ShownCodesWork (RefusedOnlyIfSpent), FlowKeepsServer |
| PaymentChainProofs | TypeCorrect, Conserved, PointsBalance, ImplementsLedger (LedgerSpec) |
| MinHeapProofs | HeapTypes, HeapOrdered (HeapOrder), HeapBetweenCalls (HeapWhole), ImplementsQueue (QueueSpec) |
| ProgramsProofs | ProgramsInvariance, ProgramsTyped (ProgramsTypeOK), PaymentsAddUp (PaymentsRight), ProgramsHeap (HeapOrder), ProgramsQueue (QueueSpec), ObjectsShared (ObjectsRight), ShardsFound (ShardsRight), GeneratedComplete (CompleteUnlessFailed), LoginsSafe (LoginsRight), LotterySafe (LotteryRight), NeverUndoes (NeverUndone) |
| SessionsProofs | SessionsInvariance, SessionsTyped (SessionsTypeOK), WaitersWoken (OnlyLateWait), EchoesInOrder (EchoRight), CallsServed (CallsRight) |
| RedisLoaderProofs | lemmas only, about the loop that the order programs have in common |
| OrdersProofs | OrdersInvariance, OrdersTyped (OrdersTypeOK), RankingServed (RankingRight), SetsFilled (SetsRight), LogRecorded (LogRight) |

The assumptions stand, named, in the modules that declare the constants, and are
evaluated by those modules' runs. They say that bounds are natural numbers, that
amounts and scores are numbers (of the payment chain: multiples of ten), that sets of
requests, goroutines, calls and codes are what their modules take them to be (finite where
something is counted), and that a value that stands for "none" is none of the
others. Two say more. `LoaderAssumption`: every program draws some order and sends at least one
command for it. `RankingAssumption`: the loaders are order and order1, and `Place` gives the IDs
different places, as a comparison of strings does.

The arguments:

- *Broadcast server.* That a client is never behind is not inductive: one must know that
  the clients still to visit are registered, that outside the range there are none, and that
  the message at hand is the last of the log (`RangeInv`); that only the lock
  holder is in a critical section and a range counts as one (`LockInv`, by which
  no registration happens during a range); and that a newcomer has been written
  nothing (`FreshInv`). With these, a write appends the last message to a view that
  ends before it, which keeps OrderedDelivery. The refinement follows by one step
  per action: the channel receive publishes, a write delivers, a failed write
  expels, a registration joins, everything else stutters.
- *Authorization server.* SingleUse counts, for each code, the exchanges that hold
  or redeemed it against the grants that stored it. It is preserved because a
  look-up takes the code out of `authCodes` in the section in which it becomes a
  holder; this needs the phases of a request (`PhaseInv`), the lock (`LockInv`)
  and the finiteness of the sets counted (`SetsFinite`, `AddOne`). GrantUsable is
  strengthened to hold from the store on (`UsableInv`), TokenStored likewise.
- *Payment chain.* Conservation and PointsAccounted are inductive with the type of
  `amount` at each decorator and `amount = 0` between payments. The key lemma,
  RecordPaymentAdds, says that recording adds its amount to the total, for a method
  with and without an earlier record. Each step maps to a Request, to a Cover or
  to a stutter of the ledger.

- *Heap.* That the slice is a heap does not hold while a value is sifted. HeapOrder allows
  for one hole, at `index`: the value there may be smaller than its parent (going up) or
  greater than its children (going down), and the children of the hole are not
  smaller than its parent, which is what makes a swap close it on one side. It is
  inductive with the type; the arithmetic of Parent, LeftChild and RightChild is in
  lemmas. HeapWhole, the plain order between calls, follows because every index above 0
  is a child of its parent. That the root is then a smallest value is an argument by the least
  counterexample: of the indexes with smaller values the least would have its parent
  among them (RootIsSmallest, from WFMin of the library). ImplementsQueue counts the places
  of each value: Insert adds one, an exchange keeps their number (one place is given
  up for another), ExtractMin takes away one of the root's value.

- *Order of a sender.* SenderOrder needs to know which messages of a sender the log lacks
  (InOrder): of what a connection's handler has read, at most two are still on their way, one in
  the handler's hand and one before Broadcast's lock (`Waiting`), and the log holds all earlier
  numbers, rising. CurInv adds that the one before the lock is the next to log.
- *Codes that pages show.* A code that a page shows is in the map or some exchange has it
  (`ShownInv`); a client that posted one was refused only when somebody redeems it (`TypedInv`).
  ServerStep says what a step of the server looks like to a client, and FlowKeepsServer that the
  flow keeps the server's own invariant.
- *Programs together.* In ProgramsProofs and SessionsProofs one program runs and the others stand
  still; a step is a step or a stutter of each (StepOfEach), so each program's invariant is
  preserved by its own steps alone. What had to be added to the properties: in OidcFlow, that a
  code was bought once and for one request, the one whose answer is still to come included
  (`ClaimInv`); in DexPasswords, that only one run is between creation and deletion, and that the
  account is there then (`AccountInv`); in GormShards, statement by statement, what the run has
  done to the order of user 2 (`OrderHistory`); in SimplePayments, that the parts of a call add up
  at every layer (`SimpleInv`); in CondVar, that whoever began to wait before the broadcast was
  signalled or still waits, in this order (`CondInv`); in EchoSession, that what the client received, what
  comes back, what the handler holds and what is on its way to it are one line of numbers with a close
  frame at most at its end (`Line`); in NatsTimeline, that a user that sees events has no event of its own
  left to send, unless it subscribed again ahead of it (`PublishGone`); in LotteryService, that every
  document in the database, or on its way there, is that of a call (`ServiceInv`).
- *Loaders on Redis.* LoaderInv says of every command that may still be executed, late ones
  included, which run sent it, and that the run had reached its order (WellSent). A command that
  counts as acknowledged was executed before its answer, and stays acknowledged (Acknowledges). Each
  program adds what the execution wrote: for the hashes and scores, the order its program drew
  (`InStore`); for the sets, the member under the keys it was drawn with (`Stored2`, with `DrawnOnce`: a run
  draws each order once, so that two draws of one order are of two runs, and an intersection mixes
  runs or nothing); for the log, of every acknowledged action of the run, one copy to the right of
  all copies of later actions (FirstCopy), since LPUSH puts late and repeated ones to the left of it.
- *How long the log gets.* OrdersTypeOK bounds the list and the script's executions by what all runs may
  send. Counted is the invariant: what was executed plus what is late is within an allowance of
  MaxRetries + 1 for each order a run has finished with, and of the tries so far for the one it is at.
- *Ranking.* `Ranked` chooses the enumeration of the members in range by Above. RankingExists proves that
  there is one: it has each member at one more than the number of members above it. Between its
  commands the query keeps a suffix of what it read (`QueryInv`): a member whose hash was
  there at the start is listed, looked up in vain because the command failed, still to look up, or has
  TopN members ahead of it; a hash that was there does not disappear.

Not listed by a run, and proved for every instance: TokensStored, the MutexSafe of
AuthServerProofs, HeapBetweenCalls and FlowKeepsServer.

Only model-checked: the liveness properties (EveryReaderServed, DeadClientForgotten, HandlerEnds,
CodeRedeemed, EveryRequestAnswered, EarlyWaitersPrint, EchoEnds, ServiceEnds), since fairness and
ENABLED are beyond the prover, and the disagreements of section 5, which are counterexamples. Arithmetic
on float64 is in neither (section 7).

## 7. Not modelled

Float rounding, wording and logging; HTTP routing and parameter parsing beyond the
guards; TLS and connection set-up; the inside of Redis, Dex, MongoDB, NATS, kratos, gin and the
other libraries, which appear only as what the code may observe of them.

Left out, with the reason in `PROJECT.json`:

- lottery.go: SaveDrawResult and the finders, which nothing calls.
- the greeter's stubs (auth service, repository) that no call reaches, and the
  request and stop timeouts of kratos.
- the set scan, whose one guarantee is Redis's, and the other Redis
  demonstrations: straight lines of commands whose answers are printed.
- gin login, user API, GraphQL and wire demonstrations: handlers that return
  constants. The gin handler's second answer is dropped by the HTTP library.
- fanxing.go: types and functions that show what the language does; its map
  wrapper has no user but a print.
- generated and third-party files.
