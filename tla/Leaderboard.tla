---------------------------- MODULE Leaderboard ----------------------------
(***************************************************************************)
(* cmd/redis/sortsetx/sortsetx.go: main adds six players to a sorted set,   *)
(* prints the top three and one player's rank, raises one score and prints  *)
(* the top three again.  Several runs share the set, and go-redis repeats   *)
(* an unanswered ZADD: a copy of it may be executed at any later time.      *)
(***************************************************************************)
EXTENDS Naturals, FiniteSets

CONSTANTS BoardRuns,
          MaxUnanswered  \* bound: unanswered copies at a time

VARIABLES board,      \* board[p]: the score of player p in game_leaderboard, 0 for none
          next,       \* next[r]: the call of main that run r makes next
          unanswered, \* the ZADDs, player and score, that may be executed yet
          topPlayers, \* topPlayers[r]: the players of the last list of run r
          beaten      \* history: the runs since whose update the old score was set again

boardVars == <<board, next, unanswered, topPlayers, beaten>>

Players == 1 .. 6
FirstScore == <<500, 1500, 1200, 800, 1300, 2000>>
Asked == 3    \* whose rank is printed
Raised == 4   \* whose score is updated, to
RaisedScore == 1700

\* The calls of main in their order; those of addPlayerScore are 1 to 6.
Ping == 0
Tops == {7, 10}
Rank == 8
Update == 9
End == 11
Fatal == 12

ScoresOf(p) == {FirstScore[p]} \cup (IF p = Raised THEN {RaisedScore} ELSE {})

BoardTypeOK ==
  /\ DOMAIN board = Players /\ \A p \in Players : board[p] \in {0} \cup ScoresOf(p)
  /\ next \in [BoardRuns -> Ping .. Fatal]
  /\ \A c \in unanswered : c[1] \in Players /\ c[2] \in ScoresOf(c[1])
  /\ Cardinality(unanswered) <= MaxUnanswered
  /\ topPlayers \in [BoardRuns -> SUBSET Players] /\ beaten \subseteq BoardRuns

BoardInit ==
  /\ board = [p \in Players |-> 0] /\ unanswered = {} /\ beaten = {}
  /\ next = [r \in BoardRuns |-> Ping] /\ topPlayers = [r \in BoardRuns |-> {}]

-----------------------------------------------------------------------------
Go(r, to) == next' = [next EXCEPT ![r] = to]

\* ZADD at the server.
Set(p, score) ==
  /\ board' = [board EXCEPT ![p] = score]
  /\ beaten' = IF p = Raised /\ score = FirstScore[p]
                 THEN beaten \cup {r \in BoardRuns : next[r] = Update + 1} ELSE beaten

\* It is left on a connection that was given up, or not.
Leave(p, score) ==
  \/ UNCHANGED unanswered
  \/ Cardinality(unanswered) < MaxUnanswered /\ unanswered' = unanswered \cup {<<p, score>>}

\* The answer comes, perhaps to a repetition; or all tries fail.
ZAdd(p, score) == Set(p, score) /\ Leave(p, score)
ZAddFails(p, score) == Leave(p, score) /\ UNCHANGED <<board, beaten>>

\* main panics without a server.
PingServer(r) ==
  /\ next[r] = Ping
  /\ Go(r, 1) \/ Go(r, Fatal)
  /\ UNCHANGED <<board, unanswered, topPlayers, beaten>>

\* An error is logged and passed over.
addPlayerScore(r) ==
  /\ next[r] \in Players /\ Go(r, next[r] + 1)
  /\ ZAdd(next[r], FirstScore[next[r]]) \/ ZAddFails(next[r], FirstScore[next[r]])
  /\ UNCHANGED topPlayers

\* ZREVRANGE 0 topN-1; no two players have the same score.
Best(n) == {p \in Players : board[p] > 0 /\ Cardinality({q \in Players : board[q] > board[p]}) < n}

\* After an error the list is empty.
geTopPlayer(r) ==
  /\ next[r] \in Tops /\ Go(r, next[r] + 1)
  /\ \E list \in {Best(3), {}} : topPlayers' = [topPlayers EXCEPT ![r] = list]
  /\ UNCHANGED <<board, unanswered, beaten>>

\* ZREVRANK of a player without a score is an error, and an error is fatal.
getPlayerRank(r) ==
  /\ next[r] = Rank
  /\ (board[Asked] > 0 /\ Go(r, Update)) \/ Go(r, Fatal)
  /\ UNCHANGED <<board, unanswered, topPlayers, beaten>>

updatePlayerScore(r) ==
  /\ next[r] = Update
  /\ \/ ZAdd(Raised, RaisedScore) /\ Go(r, Update + 1)
     \/ ZAddFails(Raised, RaisedScore) /\ Go(r, Fatal)
  /\ UNCHANGED topPlayers

ExecuteLate(c) ==
  /\ Set(c[1], c[2]) /\ unanswered' = unanswered \ {c}
  /\ UNCHANGED <<next, topPlayers>>

BoardNext ==
  \/ \E r \in BoardRuns :
       PingServer(r) \/ addPlayerScore(r) \/ geTopPlayer(r) \/ getPlayerRank(r) \/ updatePlayerScore(r)
  \/ \E c \in unanswered : ExecuteLate(c)

-----------------------------------------------------------------------------
\* "The top 3 players after the update" (sortsetx.go:46): a list that was read
\* shows the raised player, unless another run or a late copy has set the old
\* score again meanwhile.
UpdateShown ==
  \A r \in BoardRuns :
    (next[r] = End /\ topPlayers[r] # {}) => Raised \in topPlayers[r] \/ r \in beaten
=============================================================================
