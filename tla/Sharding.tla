------------------------------ MODULE Sharding ------------------------------
(***************************************************************************)
(* cmd/design/sharding/shardding.go: databases on a ring of consistent      *)
(* hashing, and a connection string for each.  The ring is a library        *)
(* (github.com/stathat/consistent): the replicas of the databases that a    *)
(* key meets clockwise give it an order of preference, which no other       *)
(* database changes; Get returns the first in that order that was added.    *)
(***************************************************************************)
EXTENDS Naturals, FiniteSets, Functions

CONSTANTS UserKeys, DBNames, NoDB

ASSUME DatabasesAssumption == IsFiniteSet(DBNames) /\ NoDB \notin DBNames

VARIABLES preference,  \* preference[k][d]: the place of database d for key k
          ring,        \* the databases added to the ring
          dbPools,     \* the databases with a connection string
          answered,    \* answered[k]: the database of the last lookup of k, or NoDB
          since        \* history: databases added since that lookup

shardVars == <<preference, ring, dbPools, answered, since>>

ShardTypeOK ==
  /\ preference \in [UserKeys -> Bijection(DBNames, 1 .. Cardinality(DBNames))]
  /\ ring \subseteq DBNames /\ dbPools \subseteq DBNames
  /\ answered \in [UserKeys -> DBNames \cup {NoDB}]
  /\ since \in [UserKeys -> SUBSET DBNames]

ShardInit ==
  /\ preference \in [UserKeys -> Bijection(DBNames, 1 .. Cardinality(DBNames))]
  /\ ring = {} /\ dbPools = {}
  /\ answered = [k \in UserKeys |-> NoDB] /\ since = [k \in UserKeys |-> {}]

-----------------------------------------------------------------------------
\* consistentHash.Get of a ring that is not empty.
Owner(k) == CHOOSE d \in ring : \A e \in ring : preference[k][d] <= preference[k][e]

addDBPool(d) ==
  /\ ring' = ring \cup {d} /\ dbPools' = dbPools \cup {d}
  /\ since' = [k \in UserKeys |-> since[k] \cup {d}]
  /\ UNCHANGED <<preference, answered>>

\* An error for an empty ring, and for a database without a pool.
getDBConnectionByKey(k) ==
  /\ answered' = [answered EXCEPT ![k] = IF ring # {} /\ Owner(k) \in dbPools THEN Owner(k) ELSE NoDB]
  /\ since' = [since EXCEPT ![k] = {}]
  /\ UNCHANGED <<preference, ring, dbPools>>

ShardNext ==
  \/ \E d \in DBNames : addDBPool(d)
  \/ \E k \in UserKeys : getDBConnectionByKey(k)

-----------------------------------------------------------------------------
(* Properties *)

\* Once a database is there every lookup finds one, with its connection string.
FoundOnceAdded == \A k \in UserKeys : ring \ since[k] # {} => answered[k] # NoDB

\* A user moves to another database only when that one was added since the last
\* lookup (shardding.go:31-58).
MovesOnlyToNew ==
  [][\A k \in UserKeys :
       answered'[k] # answered[k] =>
         answered'[k] \in ring' \cap since[k]]_shardVars
=============================================================================
