--------------------------- MODULE LotteryService ---------------------------
(***************************************************************************)
(* cmd/design/lottery/demo/demo.go: PlaceBet and RecordDrawResult insert a  *)
(* document each, and both take the issue number from the clock, in whole   *)
(* seconds.  A caller may call again after an error; the insert may have    *)
(* been carried out although its answer was lost, or be carried out later.  *)
(***************************************************************************)
EXTENDS Naturals, FiniteSets

CONSTANTS Bettors,       \* the users
          LotteryTypes,  \* the lotteries
          MaxBets,       \* bound: calls of PlaceBet
          MaxDraws,      \* bound: calls of RecordDrawResult
          MaxSeconds     \* bound: the seconds the clock may show

ASSUME ServiceAssumption == MaxBets \in Nat /\ MaxDraws \in Nat /\ MaxSeconds \in Nat

VARIABLES second,     \* time.Now().Unix()
          bets,       \* calls of PlaceBet
          draws,      \* calls of RecordDrawResult
          saving,     \* the documents that running calls save
          inserts,    \* inserts that the database has not carried out
          documents,  \* those of lottery_tickets and lottery_results
          returned,   \* history: the documents that calls returned
          reported    \* history: those of calls that returned an error

serviceVars == <<second, bets, draws, saving, inserts, documents, returned, reported>>

\* uuid.New() never repeats: a document is named by its call.
Ticket == [bet : 1 .. MaxBets, user : Bettors, type : LotteryTypes, issue : 0 .. MaxSeconds]
Result == [draw : 1 .. MaxDraws, type : LotteryTypes, issue : 0 .. MaxSeconds]

ServiceTypeOK ==
  /\ second \in 0 .. MaxSeconds /\ bets \in 0 .. MaxBets /\ draws \in 0 .. MaxDraws
  /\ \A docs \in {saving, inserts, documents, returned, reported} :
       \A doc \in docs : doc \in Ticket \/ doc \in Result

ServiceInit ==
  /\ second = 0 /\ bets = 0 /\ draws = 0
  /\ saving = {} /\ inserts = {} /\ documents = {} /\ returned = {} /\ reported = {}

-----------------------------------------------------------------------------
\* The wall clock goes on, or is set.
ClockMoves ==
  /\ second' \in 0 .. MaxSeconds \ {second}
  /\ UNCHANGED <<bets, draws, saving, inserts, documents, returned, reported>>

\* SaveTicket and SaveDrawResult: the insert is sent.
Save(doc) ==
  /\ saving' = saving \cup {doc} /\ inserts' = inserts \cup {doc}
  /\ UNCHANGED <<second, documents, returned, reported>>

PlaceBet(user, type) ==
  /\ bets < MaxBets /\ bets' = bets + 1
  /\ Save([bet |-> bets', user |-> user, type |-> type, issue |-> second])
  /\ UNCHANGED draws

RecordDrawResult(type) ==
  /\ draws < MaxDraws /\ draws' = draws + 1
  /\ Save([draw |-> draws', type |-> type, issue |-> second])
  /\ UNCHANGED bets

\* The database carries an insert out.
InsertOne(doc) ==
  /\ inserts' = inserts \ {doc} /\ documents' = documents \cup {doc}
  /\ UNCHANGED <<second, bets, draws, saving, returned, reported>>

\* The insert succeeds, and the call returns its ticket or result.
ReturnDoc(doc) ==
  /\ doc \in documents
  /\ saving' = saving \ {doc} /\ returned' = returned \cup {doc}
  /\ UNCHANGED <<second, bets, draws, inserts, documents, reported>>

\* The call returns an error: the insert failed, was carried out, or still is to be.
ReturnError(doc) ==
  /\ saving' = saving \ {doc} /\ reported' = reported \cup {doc}
  /\ inserts' \in {inserts, inserts \ {doc}}
  /\ UNCHANGED <<second, bets, draws, documents, returned>>

GetTicketsByUser(user) == {t \in documents : t \in Ticket /\ t.user = user}

\* FindOne: any of the matching documents.
GetDrawResultByIssue(type, issue) ==
  {r \in documents : r \in Result /\ r.type = type /\ r.issue = issue}

ServiceNext ==
  \/ ClockMoves
  \/ \E type \in LotteryTypes : RecordDrawResult(type) \/ \E user \in Bettors : PlaceBet(user, type)
  \/ \E doc \in inserts : InsertOne(doc)
  \/ \E doc \in saving : ReturnDoc(doc) \/ ReturnError(doc)

-----------------------------------------------------------------------------
\* A ticket or a result that a call returned is found from then on, whatever
\* failed in between; what is found besides them comes from a call that is not
\* over or that returned an error (demo.go:128-177, 204-210, 223-229).
BetsFound ==
  /\ \A doc \in returned : IF doc \in Ticket THEN doc \in GetTicketsByUser(doc.user)
                                             ELSE GetDrawResultByIssue(doc.type, doc.issue) # {}
  /\ documents \subseteq returned \cup saving \cup reported
=============================================================================
