--------------------------- MODULE TicketList_proofs ---------------------------
(***************************************************************************)
(* The invariant of TicketList, for any tickets, terms, filters and page   *)
(* size: every action keeps the types, that the youngest sleeper holds what*)
(* the box holds, that the run under way is for the current key, and that  *)
(* nothing on its way is older than the last bulk delete.                  *)
(***************************************************************************)
EXTENDS TicketList, FiniteSetTheorems, TLAPS

Fetches == [st : {"none", "sent", "answered"}, key : Keys,
            rows : SUBSET Tickets, total : Nat]
Showns  == [st : {"loading", "failed", "rows"}, key : Keys,
            rows : SUBSET Tickets, total : Nat]

(* A page is a set of the tickets there are, and a count is a number.      *)
LEMMA FoundIsFinite ==
  ASSUME TicketTypeOK, NEW k \in Keys
  PROVE  /\ OnPage(k) \subseteq alive
         /\ OnPage(k) \subseteq Tickets
         /\ Cardinality(Found(k)) \in Nat
<1>1. Found(k) \subseteq alive /\ alive \subseteq Tickets
  BY DEF Found, TicketTypeOK
<1>2. IsFiniteSet(Found(k))
  BY <1>1, TicketAssumption, FS_Subset
<1> QED  BY <1>1, <1>2, FS_CardinalityType DEF OnPage

LEMMA KeyIsTyped ==
  ASSUME TicketTypeOK
  PROVE  Key \in Keys /\ [st |-> "sent", key |-> Key, rows |-> {}, total |-> 0] \in Fetches
  BY DEF TicketTypeOK, Key, Keys, Fetches

LEMMA TicketInitHolds == TicketInit => TicketInv
<1> SUFFICES ASSUME TicketInit  PROVE TicketInv
  OBVIOUS
<1> USE TicketAssumption DEF TicketInit
<1>1. Key \in Keys
  BY DEF Key, Keys
<1>2. timers \subseteq [n : Nat, term : Terms]
  OBVIOUS
<1>3. TicketTypeOK
  <2>1. fetch \in Fetches /\ shown \in Showns
    BY <1>1 DEF Fetches, Showns
  <2>2. edits \in Nat /\ page \in Nat \ {0} /\ search \in Terms /\ settled \in Terms
    OBVIOUS
  <2> QED  BY <1>2, <2>1, <2>2 DEF TicketTypeOK, Fetches, Showns
<1>4. SleepersFollow
  <2>1. \A t \in timers : t.n = edits /\ t.term = search /\ edits = 0
    OBVIOUS
  <2>2. settled = search
    OBVIOUS
  <2> QED  BY <2>1, <2>2 DEF SleepersFollow
<1>5. RunIsCurrent /\ NothingOlder /\ FanoutIsConfirmed
  BY DEF RunIsCurrent, NothingOlder, FanoutIsConfirmed
<1> QED  BY <1>3, <1>4, <1>5 DEF TicketInv

(* A write to search, or none, with the page and the filter: the resource  *)
(* is due, whatever it was doing.                                          *)
LEMMA SearchStep ==
  ASSUME TicketInv, NEW v \in Terms, Searched(v),
         filter' \in Filters, page' \in Nat \ {0}, Steered, UNCHANGED <<alive, bulkVars>>
  PROVE  TicketInv'
<1>1. timers' \subseteq [n : Nat, term : Terms] /\ edits' \in Nat /\ search' \in Terms
      /\ settled' \in Terms
  BY DEF TicketInv, TicketTypeOK, Searched
<1>2. TicketTypeOK'
  BY <1>1 DEF TicketInv, TicketTypeOK, Steered, bulkVars
<1>3. SleepersFollow'
  <2>1. \A t \in timers' : t.n <= edits' /\ (t.n = edits' => t.term = search')
    BY DEF TicketInv, TicketTypeOK, SleepersFollow, Searched
  <2>2. [n |-> edits + 1, term |-> v] \in timers'
    BY DEF Searched
  <2>3. \E t \in timers' : t.n = edits'
    BY <2>2 DEF Searched
  <2> QED  BY <2>1, <2>3 DEF SleepersFollow
<1>4. RunIsCurrent' /\ NothingOlder' /\ FanoutIsConfirmed'
  BY DEF TicketInv, RunIsCurrent, NothingOlder, FanoutIsConfirmed, Steered, bulkVars
<1> QED  BY <1>2, <1>3, <1>4 DEF TicketInv

LEMMA SteerStep ==
  ASSUME TicketInv, filter' \in Filters, page' \in Nat \ {0}, Steered,
         UNCHANGED <<alive, search, edits, timers, settled, bulkVars>>
  PROVE  TicketInv'
  BY DEF TicketInv, TicketTypeOK, SleepersFollow, RunIsCurrent, NothingOlder,
         FanoutIsConfirmed, Steered, bulkVars

LEMMA TimerStep ==
  ASSUME TicketInv, NEW t \in timers, TimerFires(t)
  PROVE  TicketInv'
<1>1. t \in [n : Nat, term : Terms] /\ settled' \in Terms
  BY DEF TicketInv, TicketTypeOK, TimerFires
<1>2. due' \in BOOLEAN /\ fetch' = fetch /\ shown' = shown
      /\ (due' = FALSE => due' = due /\ settled' = settled)
  BY DEF TicketInv, TicketTypeOK, TimerFires, Steered, listVars
<1>3. timers' = timers \ {t}
      /\ UNCHANGED <<alive, search, edits, filter, page, bulkVars>>
  BY DEF TimerFires
<1>4. TicketTypeOK'
  BY <1>1, <1>2, <1>3 DEF TicketInv, TicketTypeOK, bulkVars
<1>5. SleepersFollow'
  <2>1. \A u \in timers' : u.n <= edits' /\ (u.n = edits' => u.term = search')
    BY <1>3 DEF TicketInv, SleepersFollow
  <2>2. CASE t.n = edits
    <3>1. settled' = search'
      BY <1>3, <2>2 DEF TimerFires, TicketInv, SleepersFollow
    <3> QED  BY <2>1, <3>1 DEF SleepersFollow
  <2>3. CASE t.n # edits
    <3>1. settled' = settled
      BY <2>3 DEF TimerFires
    <3>2. CASE settled = search
      BY <1>3, <2>1, <3>1, <3>2 DEF SleepersFollow
    <3>3. ASSUME NEW u \in timers, u.n = edits  PROVE SleepersFollow'
      <4>1. u \in timers' /\ u.n = edits'
        BY <1>3, <2>3, <3>3
      <4> QED  BY <2>1, <4>1 DEF SleepersFollow
    <3> QED  BY <3>2, <3>3 DEF TicketInv, SleepersFollow
  <2> QED  BY <2>2, <2>3
<1>6. RunIsCurrent' /\ NothingOlder' /\ FanoutIsConfirmed'
  BY <1>2, <1>3 DEF TicketInv, TicketTypeOK, RunIsCurrent, NothingOlder, FanoutIsConfirmed,
                    Key, bulkVars
<1> QED  BY <1>4, <1>5, <1>6 DEF TicketInv

(* Steps of the resource: the query and the bulk delete stay.              *)
LEMMA ListStep ==
  ASSUME TicketInv, Rerun \/ ServerReads \/ Arrives \/ FetchFails
  PROVE  TicketInv'
<1>t. TicketTypeOK /\ fetch \in Fetches /\ shown \in Showns /\ due \in BOOLEAN
  BY DEF TicketInv, TicketTypeOK, Fetches, Showns
<1>1. UNCHANGED <<alive, queryVars, bulkVars>>
  BY DEF Rerun, ServerReads, Arrives, FetchFails
<1>2. SleepersFollow' /\ FanoutIsConfirmed'
  BY <1>1 DEF TicketInv, SleepersFollow, FanoutIsConfirmed, queryVars, bulkVars
<1>3. ASSUME fetch' \in Fetches, shown' \in Showns, due' \in BOOLEAN,
             RunIsCurrent', NothingOlder'
      PROVE  TicketInv'
  <2>1. TicketTypeOK'
    BY <1>1, <1>3, <1>t DEF TicketTypeOK, Fetches, Showns, queryVars, bulkVars
  <2> QED  BY <1>2, <1>3, <2>1 DEF TicketInv
<1>4. CASE Rerun
  BY <1>4, <1>1, <1>3, <1>t, KeyIsTyped
     DEF Rerun, Request, RunIsCurrent, NothingOlder, Key, queryVars, bulkVars
<1>5. CASE ServerReads
  <2>k. fetch.key \in Keys
    BY <1>t DEF Fetches
  <2>1. OnPage(fetch.key) \subseteq alive /\ OnPage(fetch.key) \subseteq Tickets
        /\ Cardinality(Found(fetch.key)) \in Nat
    BY <1>t, <2>k, FoundIsFinite
  <2>2. /\ fetch' \in Fetches /\ fetch'.st = "answered" /\ fetch'.key = fetch.key
        /\ fetch'.rows = OnPage(fetch.key)
    BY <1>5, <1>t, <2>1 DEF ServerReads, Fetches
  <2>3. fetch.st = "sent" /\ due' = due /\ shown' = shown
    BY <1>5 DEF ServerReads
  <2>4. RunIsCurrent'
    BY <1>1, <2>2, <2>3 DEF TicketInv, RunIsCurrent, Key, queryVars
  <2>5. NothingOlder'
    BY <1>1, <1>t, <2>1, <2>2 DEF NothingOlder, TicketTypeOK, bulkVars
  <2> QED  BY <1>3, <1>t, <2>2, <2>3, <2>4, <2>5
<1>6. CASE Arrives
  <2>1. /\ fetch' \in Fetches /\ fetch'.st = "none" /\ fetch'.rows = {}
    BY <1>6, <1>t DEF Arrives, NoFetch, Fetches
  <2>2. /\ shown' \in Showns /\ shown'.st = "rows" /\ shown'.key = fetch.key
        /\ shown'.rows = fetch.rows
    BY <1>6, <1>t DEF Arrives, Fetches, Showns
  <2>3. fetch.st = "answered" /\ due' = due
    BY <1>6 DEF Arrives
  <2>4. RunIsCurrent'
    BY <1>1, <2>1, <2>2, <2>3 DEF TicketInv, RunIsCurrent, Key, queryVars
  <2>5. NothingOlder'
    BY <1>1, <2>1, <2>2 DEF TicketInv, NothingOlder, bulkVars
  <2> QED  BY <1>3, <1>t, <2>1, <2>2, <2>3, <2>4, <2>5
<1>7. CASE FetchFails
  <2>1. /\ fetch' \in Fetches /\ fetch'.st = "none" /\ fetch'.rows = {}
    BY <1>7, <1>t DEF FetchFails, NoFetch, Fetches
  <2>2. /\ shown' \in Showns /\ shown'.st = "failed" /\ shown'.key = fetch.key
        /\ shown'.rows = {}
    BY <1>7, <1>t DEF FetchFails, Fetches, Showns
  <2>3. fetch.st # "none" /\ due' = due
    BY <1>7 DEF FetchFails
  <2>4. RunIsCurrent'
    BY <1>1, <2>1, <2>2, <2>3 DEF TicketInv, RunIsCurrent, Key, queryVars
  <2>5. NothingOlder'
    BY <2>1, <2>2 DEF NothingOlder
  <2> QED  BY <1>3, <1>t, <2>1, <2>2, <2>3, <2>4, <2>5
<1> QED  BY <1>4, <1>5, <1>6, <1>7

(* Steps of the bulk delete.                                               *)
LEMMA BulkStep ==
  ASSUME TicketInv, Bulk
  PROVE  TicketInv'
<1>t. TicketTypeOK /\ shown.rows \subseteq Tickets
  BY DEF TicketInv, TicketTypeOK
<1>1. UNCHANGED queryVars
  BY DEF Bulk, Toggle, SelectAll, ClearSelection, AskDelete, CancelDelete, ConfirmDelete,
         DeleteAnswers, FanoutEnds, FanoutDone
<1>2. SleepersFollow'
  BY <1>1 DEF TicketInv, SleepersFollow, queryVars
<1>3. ASSUME UNCHANGED <<alive, listVars, running, unanswered, gone>>,
             selection' \subseteq Tickets, confirm' \subseteq Tickets,
             unanswered \subseteq confirm', running => confirm' # {}
      PROVE  TicketInv'
  <2>1. TicketTypeOK'
    BY <1>1, <1>3, <1>t DEF TicketTypeOK, queryVars, listVars
  <2>2. RunIsCurrent' /\ NothingOlder' /\ FanoutIsConfirmed'
    BY <1>1, <1>3 DEF TicketInv, RunIsCurrent, NothingOlder, FanoutIsConfirmed, Key,
                      queryVars, listVars
  <2> QED  BY <1>2, <2>1, <2>2 DEF TicketInv
<1>4. ASSUME NEW t \in Tickets, Toggle(t)  PROVE TicketInv'
  BY <1>4, <1>3, <1>t DEF Toggle, TicketTypeOK, TicketInv, FanoutIsConfirmed
<1>5. CASE SelectAll
  BY <1>5, <1>3, <1>t DEF SelectAll, TicketTypeOK, TicketInv, FanoutIsConfirmed
<1>6. CASE ClearSelection
  BY <1>6, <1>3, <1>t DEF ClearSelection, TicketTypeOK, TicketInv, FanoutIsConfirmed
<1>7. CASE AskDelete
  BY <1>7, <1>3, <1>t DEF AskDelete, AtHand, TicketTypeOK, TicketInv, FanoutIsConfirmed
<1>8. CASE CancelDelete
  BY <1>8, <1>3, <1>t DEF CancelDelete, TicketTypeOK, TicketInv, FanoutIsConfirmed
<1>9. CASE ConfirmDelete
  <2>1. TicketTypeOK'
    BY <1>9, <1>t DEF ConfirmDelete, TicketTypeOK, queryVars, listVars
  <2>2. RunIsCurrent' /\ NothingOlder' /\ FanoutIsConfirmed'
    BY <1>9 DEF ConfirmDelete, TicketInv, RunIsCurrent, NothingOlder, FanoutIsConfirmed, Key,
                queryVars, listVars
  <2> QED  BY <1>2, <2>1, <2>2 DEF TicketInv
<1>10. ASSUME NEW t \in Tickets, DeleteAnswers(t)  PROVE TicketInv'
  <2>1. TicketTypeOK'
    BY <1>10, <1>t DEF DeleteAnswers, TicketTypeOK, queryVars, listVars
  <2>2. running /\ running' = running
    BY <1>10 DEF DeleteAnswers, TicketInv, FanoutIsConfirmed
  <2>3. RunIsCurrent' /\ NothingOlder' /\ FanoutIsConfirmed'
    BY <1>10, <2>2 DEF DeleteAnswers, TicketInv, RunIsCurrent, NothingOlder,
                       FanoutIsConfirmed, Key, queryVars, listVars
  <2> QED  BY <1>2, <2>1, <2>3 DEF TicketInv
<1>11. CASE FanoutEnds
  <2>1. TicketTypeOK'
    BY <1>11, <1>t, KeyIsTyped
       DEF FanoutEnds, FanoutDone, Request, TicketTypeOK, Fetches, queryVars
  <2>2. RunIsCurrent'
    BY <1>11 DEF FanoutEnds, FanoutDone, Request, RunIsCurrent, Key, queryVars
  <2>3. NothingOlder'
    BY <1>11 DEF FanoutEnds, FanoutDone, Request, NothingOlder
  <2>4. FanoutIsConfirmed'
    BY <1>11 DEF FanoutEnds, FanoutDone, FanoutIsConfirmed
  <2> QED  BY <1>2, <2>1, <2>2, <2>3, <2>4 DEF TicketInv
<1> QED
  BY <1>4, <1>5, <1>6, <1>7, <1>8, <1>9, <1>10, <1>11 DEF Bulk

LEMMA TicketStep ==
  ASSUME TicketInv, [TicketNext]_ticketVars
  PROVE  TicketInv'
<1>t. filter \in Filters /\ page \in Nat \ {0}
  BY DEF TicketInv, TicketTypeOK
<1>1. ASSUME NEW v \in Terms, Type(v)  PROVE TicketInv'
  BY <1>1, <1>t, SearchStep DEF Type
<1>2. ASSUME NEW f \in Filters, Narrow(f)  PROVE TicketInv'
  BY <1>2, SteerStep DEF Narrow
<1>3. ASSUME NEW v \in Terms, NEW f \in Filters, ApplyView(v, f)  PROVE TicketInv'
  BY <1>3, SearchStep DEF ApplyView
<1>4. ASSUME NEW p \in 1..page + Pages, Turn(p)  PROVE TicketInv'
  <2>1. page' = p /\ p \in Nat \ {0}
    BY <1>4, <1>t DEF Turn
  <2> QED  BY <1>4, <1>t, <2>1, SteerStep DEF Turn
<1>5. CASE ReachabilityFlips
  <2>1. filter' = filter /\ page' = page
    BY <1>5 DEF ReachabilityFlips, queryVars
  <2> QED  BY <1>5, <1>t, <2>1, SteerStep DEF ReachabilityFlips, queryVars
<1>6. CASE UNCHANGED ticketVars
  BY <1>6 DEF ticketVars, queryVars, listVars, bulkVars, TicketInv, TicketTypeOK,
              SleepersFollow, RunIsCurrent, NothingOlder, FanoutIsConfirmed, Key
<1> QED
  BY <1>1, <1>2, <1>3, <1>4, <1>5, <1>6, TimerStep, ListStep, BulkStep DEF TicketNext, Steering

(* The list, its query and the bulk delete stay coherent.                  *)
THEOREM TicketIsInvariant == TicketSpec => []TicketInv
<1>1. TicketInit => TicketInv
  BY TicketInitHolds
<1>2. TicketInv /\ [TicketNext]_ticketVars => TicketInv'
  BY TicketStep
<1> QED  BY <1>1, <1>2, PTL DEF TicketSpec

(* At rest the list answers what its controls show (tickets.rs,            *)
(* use_debounced_signal).                                                  *)
THEOREM QuietAlwaysShowsQuery == TicketSpec => []QuietShowsQuery
<1>1. TicketInv => QuietShowsQuery
  BY DEF TicketInv, SleepersFollow, RunIsCurrent, QuietShowsQuery, Quiet, Key, Wanted
<1> QED  BY <1>1, TicketIsInvariant, PTL

(* At rest no ticket is listed that was deleted from here (tickets.rs, the *)
(* fan-out and its restart).                                               *)
THEOREM OwnDeletesAlwaysVanish == TicketSpec => []OwnDeletesVanish
<1>1. TicketInv => OwnDeletesVanish
  BY DEF TicketInv, NothingOlder, OwnDeletesVanish, Quiet
<1> QED  BY <1>1, TicketIsInvariant, PTL
=============================================================================
