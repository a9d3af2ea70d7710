----------------------------- MODULE GormShards -----------------------------
(***************************************************************************)
(* cmd/design/sharding/gorm/demo.go: every run drops and creates the shards *)
(* of table orders one after another, writes two orders and reads, updates  *)
(* and deletes through the sharding middleware (a library), which sends a   *)
(* statement to shard user_id % NumberOfShards and refuses one without a    *)
(* user_id.  The errors of DROP and CREATE are ignored and the others       *)
(* printed: the run goes on after any statement.  It may be killed between  *)
(* two statements, and started again.                                       *)
(***************************************************************************)
EXTENDS Naturals, Sequences, Bags

CONSTANTS NumberOfShards, NoTable,
          MaxShardRuns  \* bound: runs

ASSUME ShardsAssumption == NumberOfShards \in Nat \ {0} /\ MaxShardRuns \in Nat

VARIABLES tables,     \* tables[s]: the rows of shard s, a bag, or NoTable
          statement,  \* the statement of main that is next; 0: no run
          shard,      \* i, the loop variable
          failures,   \* history: the statements that failed in this run, with their shard
          selected,   \* the rows the last query found
          shardRuns   \* runs so far

gormVars == <<tables, statement, shard, failures, selected, shardRuns>>

Statements == <<"drop", "create", "insert2", "insert3", "insertNone", "select2", "select3",
                "selectNone", "update3", "deleteNone">>
At(s) == statement > 0 /\ Statements[statement] = s
ShardOf(user) == user % NumberOfShards

\* A row is its user and its product, 0 for none.
GormRows == {2, 3} \X {0, 1, 2}

GormTypeOK ==
  /\ DOMAIN tables = 0 .. NumberOfShards - 1
  /\ \A s \in DOMAIN tables : tables[s] = NoTable \/ (IsABag(tables[s]) /\ BagToSet(tables[s]) \subseteq GormRows)
  /\ statement \in 0 .. Len(Statements) /\ shard \in DOMAIN tables
  /\ IsABag(selected) /\ shardRuns \in 0 .. MaxShardRuns

GormInit ==
  /\ tables = [s \in 0 .. NumberOfShards - 1 |-> NoTable]
  /\ statement = 0 /\ shard = 0 /\ failures = {} /\ selected = EmptyBag /\ shardRuns = 0

NextStatement ==
  statement' = IF statement = Len(Statements) THEN 0 ELSE statement + 1

-----------------------------------------------------------------------------
(* Mutants *)

\* CREATE TABLE IF NOT EXISTS, and no DROP.
DropNothing == At("drop") /\ UNCHANGED tables

-----------------------------------------------------------------------------
StartShardRun ==
  /\ statement = 0 /\ shardRuns < MaxShardRuns
  /\ shardRuns' = shardRuns + 1 /\ statement' = 1 /\ shard' = 0
  /\ failures' = {} /\ selected' = EmptyBag /\ UNCHANGED tables

\* A statement fails at the database, and changes nothing.
StatementFails ==
  /\ statement > 0
  /\ failures' = failures \cup {<<Statements[statement], shard>>} /\ UNCHANGED tables

DropTable == At("drop") /\ tables' = [tables EXCEPT ![shard] = NoTable]

\* CREATE TABLE of one that exists is an error.
CreateTable ==
  /\ At("create") /\ tables[shard] = NoTable
  /\ tables' = [tables EXCEPT ![shard] = EmptyBag]

Where(user) == ShardOf(user)

\* db.Create and the raw INSERT.
InsertRow(user) ==
  /\ tables[Where(user)] # NoTable
  /\ tables' = [tables EXCEPT ![Where(user)] = @ (+) SetToBag({<<user, 0>>})]

RowsOf(user, s) ==
  [r \in {q \in BagToSet(tables[s]) : q[1] = user} |-> tables[s][r]]

SelectRows(user) ==
  /\ tables[ShardOf(user)] # NoTable
  /\ selected' = RowsOf(user, ShardOf(user)) /\ UNCHANGED tables

Copies(row, s) == IF BagIn(row, tables[s]) THEN tables[s][row] ELSE 0

\* UPDATE orders SET product_id = 2 WHERE user_id = user.
UpdateRows(user) ==
  LET s == ShardOf(user)
      n == Copies(<<user, 0>>, s) + Copies(<<user, 1>>, s) + Copies(<<user, 2>>, s)
  IN /\ tables[s] # NoTable
     /\ tables' = [tables EXCEPT ![s] =
          (@ (-) RowsOf(user, s)) (+) [r \in IF n = 0 THEN {} ELSE {<<user, 2>>} |-> n]]

\* The statement succeeds; main goes on to the next, or to the next shard.
Execute ==
  /\ \/ (DropTable \/ CreateTable) /\ UNCHANGED selected
     \/ At("insert2") /\ InsertRow(2) /\ UNCHANGED selected
     \/ At("insert3") /\ InsertRow(3) /\ UNCHANGED selected
     \/ At("select2") /\ SelectRows(2)
     \/ At("select3") /\ SelectRows(3)
     \/ At("update3") /\ UpdateRows(3) /\ UNCHANGED selected
  /\ UNCHANGED failures

\* A statement without a user_id is refused; Find leaves the rows it had.
Refused == statement > 0 /\ Statements[statement] \in {"insertNone", "selectNone", "deleteNone"}

NextStep ==
  IF At("create") /\ shard < NumberOfShards - 1 THEN statement' = 1 /\ shard' = shard + 1
  ELSE NextStatement /\ UNCHANGED shard

RunStatement ==
  /\ Execute \/ (StatementFails /\ UNCHANGED selected) \/ (Refused /\ UNCHANGED <<tables, selected, failures>>)
  /\ NextStep /\ UNCHANGED shardRuns

Killed ==
  /\ statement > 0 /\ statement' = 0
  /\ UNCHANGED <<tables, shard, failures, selected, shardRuns>>

GormNext == StartShardRun \/ RunStatement \/ Killed

-----------------------------------------------------------------------------
(* Properties *)

FailedAt(s) == \E f \in failures : f[1] = s
FailedFor(s, user) == <<s, ShardOf(user)>> \in failures

\* Every order is in the shard of its user, where the queries look for it.
RowsInTheirShard ==
  \A s \in DOMAIN tables : tables[s] = NoTable \/ \A r \in BagToSet(tables[s]) : ShardOf(r[1]) = s

\* The query for user 2 finds the one order of this run, unless a statement it
\* rests on failed: a DROP that failed leaves the orders of former runs, and the
\* CREATE after it fails too (demo.go:25-33, 58-67).
FindsItsOrder ==
  (At("select3") /\ ~FailedAt("select2") /\ ~FailedAt("insert2")) =>
    \/ selected = SetToBag({<<2, 0>>})
    \/ FailedFor("drop", 2) /\ FailedFor("create", 2)
=============================================================================
