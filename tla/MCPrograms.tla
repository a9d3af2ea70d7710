----------------------------- MODULE MCPrograms -----------------------------
(* Instances for TLC of the programs whose safety alone is checked.  They    *)
(* have nothing in common: which of them runs is fixed at first.             *)
EXTENDS PaymentContext, SimplePayments, MinHeap, ObjectPool, Flyweight, Sharding,
        GormShards, CodeGen, OidcFlow, DexPasswords, LotteryCache, LotteryService,
        NatsTimeline

VARIABLE program

programsVars == <<program, vars, simpleVars, heapVars, poolVars, flyweightVars, shardVars,
                  gormVars, genVars, oidcVars, passwordVars, lotteryVars, serviceVars, natsVars>>

PaymentAmounts == {0, 10, 100, 200}
StrategyOrders ==
  {<<"Coupon", "Points", "CreditCard">>, <<"Points", "Coupon", "CreditCard">>,
   <<"CreditCard", "Points">>, <<"Points", "Coupon">>, << >>}
ThirdsHaveDirectory == {2, 3}
AnyPreference == CHOOSE b \in Bijection(DBNames, 1 .. Cardinality(DBNames)) : TRUE

-----------------------------------------------------------------------------
\* Where the initial state is a choice, it is made for its own program alone.
ProgramsInit ==
  /\ program \in {"payments", "simple", "heap", "pool", "circles", "ring", "shards",
                  "generator", "oidc", "passwords", "cache", "lottery", "nats"}
  /\ Init /\ (program = "payments" \/ strategies = << >>)
  /\ ShardInit /\ (program = "ring" \/ preference = [k \in UserKeys |-> AnyPreference])
  /\ SimpleInit /\ HeapInit /\ PoolInit /\ FlyweightInit /\ GormInit /\ GenInit
  /\ OidcInit /\ PasswordInit /\ LotteryInit /\ ServiceInit /\ NatsInit

\* Program p runs, and the others' variables stay.
Only(p) ==
  /\ program = p /\ UNCHANGED program
  /\ IF p = "payments" THEN TRUE ELSE UNCHANGED vars
  /\ IF p = "simple" THEN TRUE ELSE UNCHANGED simpleVars
  /\ IF p = "heap" THEN TRUE ELSE UNCHANGED heapVars
  /\ IF p = "pool" THEN TRUE ELSE UNCHANGED poolVars
  /\ IF p = "circles" THEN TRUE ELSE UNCHANGED flyweightVars
  /\ IF p = "ring" THEN TRUE ELSE UNCHANGED shardVars
  /\ IF p = "shards" THEN TRUE ELSE UNCHANGED gormVars
  /\ IF p = "generator" THEN TRUE ELSE UNCHANGED genVars
  /\ IF p = "oidc" THEN TRUE ELSE UNCHANGED oidcVars
  /\ IF p = "passwords" THEN TRUE ELSE UNCHANGED passwordVars
  /\ IF p = "cache" THEN TRUE ELSE UNCHANGED lotteryVars
  /\ IF p = "lottery" THEN TRUE ELSE UNCHANGED serviceVars
  /\ IF p = "nats" THEN TRUE ELSE UNCHANGED natsVars

ProgramsNext ==
  \/ Only("payments") /\ Next
  \/ Only("simple") /\ SimpleNext
  \/ Only("heap") /\ HeapNext
  \/ Only("pool") /\ PoolNext
  \/ Only("circles") /\ FlyweightNext
  \/ Only("ring") /\ ShardNext
  \/ Only("shards") /\ GormNext
  \/ Only("generator") /\ GenNext
  \/ Only("oidc") /\ OidcNext
  \/ Only("passwords") /\ PasswordNext
  \/ Only("cache") /\ LotteryNext
  \/ Only("lottery") /\ ServiceNext
  \/ Only("nats") /\ NatsNext

ProgramsSpec == ProgramsInit /\ [][ProgramsNext]_programsVars

\* Every variable of every program has its type.
ProgramsTypeOK ==
  /\ TypeOK /\ SimpleTypeOK /\ HeapTypeOK /\ PoolTypeOK /\ FlyweightTypeOK /\ ShardTypeOK
  /\ GormTypeOK /\ GenTypeOK /\ OidcTypeOK /\ PasswordTypeOK /\ LotteryTypeOK
  /\ ServiceTypeOK /\ NatsTypeOK

\* The payments of the strategies and decorators.  The points discounted are the
\* points gone, whatever a payment is reduced by is recorded, a call's parts add
\* up to its amount, and nothing is taken once nothing is left to pay
\* (strategy.go:103-149, stragety.go:57-74, decorator.go:30-58).
PaymentsRight == PointsAccounted /\ ReductionsRecorded /\ CallAddsUp /\ NothingPaidTwice

\* What is shared.  A pointer is cast to its object's type, no object is in the
\* pool twice or while it is used (unsafe.go:21-73), and a circle is the one
\* made for the colour and radius asked for (flyweight.go:32-42).
ObjectsRight == CastsMatch /\ PoolExclusive /\ SharedAndRight

\* The shards.  Every lookup finds a database once one is there
\* (shardding.go:31-58); every order lies in its user's shard, and the query
\* finds just the order of this run unless a statement failed (gorm/demo.go:25-67),
\* killed runs before it included.
ShardsRight == FoundOnceAdded /\ RowsInTheirShard /\ FindsItsOrder

\* Who is let in.  One login is answered with tokens once (server.go:79, 129),
\* the protected handler runs for such tokens only (resource.go:71-84), the Dex
\* account is a lock among overlapping runs, and one that stays behind was left
\* by a failed run and shuts out the later ones (grpcclien.go:54-107).
LoginsRight == OneAnswerPerLogin /\ ServedVerified /\ AccountIsLock /\ ResidueExplained

\* The lottery.  The cache shows the ticket of the database unless saving it
\* failed (lottery.go:221-222), what PlaceBet and RecordDrawResult return is found
\* (demo.go:128-177, 204-229), and of two users at most one prints the other's
\* event, since each publishes before subscribing (nats.go:44, 52).
LotteryRight == CachedUnlessSaveFailed /\ BetsFound /\ OnlyLaterEvents

\* What no step does.  A key never moves to a database that was there at its last
\* lookup (shardding.go:31-58), and no ticket takes the place of one saved under
\* its ID (lottery.go:104).
NeverUndone == MovesOnlyToNew /\ FirstTicketStays
=============================================================================
