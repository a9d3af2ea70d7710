---------------------------- MODULE LotteryCache ----------------------------
(***************************************************************************)
(* cmd/design/lottery/lottery.go: main creates a ticket, inserts it into    *)
(* MongoDB and caches it in Redis for a day; it drops both errors.  A       *)
(* ticket's key is the nanosecond and the user, so two runs may draw the    *)
(* same key, and Redis overwrites where MongoDB refuses.                    *)
(***************************************************************************)
EXTENDS Naturals

CONSTANTS Tickets,   \* one for each run of main
          TicketIDs, \* the keys CreateLotteryTicket may make
          NoTicket, NoID

ASSUME TicketAssumption == NoTicket \notin Tickets /\ NoID \notin TicketIDs

VARIABLES ticketStep,  \* ticketStep[t]: the next call of the run
          ticketID,    \* ticketID[t]: its ID
          collection,  \* MongoDB: the ticket under each _id
          cache,       \* Redis: the ticket under each key ticket:<ID>
          saveFailed   \* history: the tickets whose SaveTicket returned an error

lotteryVars == <<ticketStep, ticketID, collection, cache, saveFailed>>

LotteryTypeOK ==
  /\ ticketStep \in [Tickets -> {"create", "save", "cache", "end"}]
  /\ ticketID \in [Tickets -> TicketIDs \cup {NoID}]
  /\ collection \in [TicketIDs -> Tickets \cup {NoTicket}]
  /\ cache \in [TicketIDs -> Tickets \cup {NoTicket}]
  /\ saveFailed \subseteq Tickets

LotteryInit ==
  /\ ticketStep = [t \in Tickets |-> "create"]
  /\ ticketID = [t \in Tickets |-> NoID]
  /\ collection = [d \in TicketIDs |-> NoTicket]
  /\ cache = [d \in TicketIDs |-> NoTicket]
  /\ saveFailed = {}

Advance(t, from, to) == ticketStep[t] = from /\ ticketStep' = [ticketStep EXCEPT ![t] = to]

\* Mutant: the ticket is cached before it is saved.
SaveTicketLate(t) ==
  /\ \/ ticketStep[t] = "save" /\ Advance(t, "save", "cache") /\ UNCHANGED collection
     \/ /\ ticketStep[t] = "cache" /\ Advance(t, "cache", "end")
        /\ collection' = [collection EXCEPT ![ticketID[t]] = t]
  /\ UNCHANGED <<ticketID, cache, saveFailed>>

\* Mutant: a ticket with a known ID takes the place of the one before.
SaveTicketUpsert(t) ==
  /\ Advance(t, "save", "cache")
  /\ collection' = [collection EXCEPT ![ticketID[t]] = t]
  /\ UNCHANGED <<ticketID, cache, saveFailed>>

-----------------------------------------------------------------------------
CreateLotteryTicket(t, d) ==
  /\ Advance(t, "create", "save")
  /\ ticketID' = [ticketID EXCEPT ![t] = d]
  /\ UNCHANGED <<collection, cache, saveFailed>>

\* InsertOne: a second document with the same _id is not inserted.
SaveTicket(t) ==
  /\ Advance(t, "save", "cache")
  /\ collection[ticketID[t]] = NoTicket
  /\ collection' = [collection EXCEPT ![ticketID[t]] = t]
  /\ UNCHANGED <<ticketID, cache, saveFailed>>

\* A duplicate key, no connection, or an answer lost after the insert.
SaveTicketFails(t) ==
  /\ Advance(t, "save", "cache")
  /\ saveFailed' = saveFailed \cup {t}
  /\ \/ UNCHANGED collection
     \/ /\ collection[ticketID[t]] = NoTicket
        /\ collection' = [collection EXCEPT ![ticketID[t]] = t]
  /\ UNCHANGED <<ticketID, cache>>

\* SET with a time to live; an error leaves the cache or, with the answer lost,
\* does not.
CacheTicket(t) ==
  /\ Advance(t, "cache", "end")
  /\ cache' = [cache EXCEPT ![ticketID[t]] = t] \/ UNCHANGED cache
  /\ UNCHANGED <<ticketID, collection, saveFailed>>

\* 24 hours later.
Expire(d) ==
  /\ cache[d] # NoTicket
  /\ cache' = [cache EXCEPT ![d] = NoTicket]
  /\ UNCHANGED <<ticketStep, ticketID, collection, saveFailed>>

LotteryNext ==
  \/ \E t \in Tickets :
       \/ \E d \in TicketIDs : CreateLotteryTicket(t, d)
       \/ SaveTicket(t) \/ SaveTicketFails(t) \/ CacheTicket(t)
  \/ \E d \in TicketIDs : Expire(d)

-----------------------------------------------------------------------------
\* The cache shows another ticket than the database, or one that the database
\* lacks, only if the save of that ticket returned an error, which main drops
\* (lottery.go:221-222).
CachedUnlessSaveFailed ==
  \A d \in TicketIDs :
    cache[d] # NoTicket => cache[d] = collection[d] \/ cache[d] \in saveFailed

\* A ticket in the database stays the one first stored under its ID
\* (lottery.go:104): a run with the same ID does not replace it.
FirstTicketStays ==
  [][\A d \in TicketIDs : collection[d] # NoTicket => collection'[d] = collection[d]]_lotteryVars
=============================================================================
