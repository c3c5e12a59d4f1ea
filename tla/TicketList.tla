------------------------------ MODULE TicketList ------------------------------
(***************************************************************************)
(* A paged list whose search, filters, order and pages are the server's,   *)
(* with a bulk action on its rows: the ticket list.                        *)
(*                                                                         *)
(*   src/pages/tickets.rs             TicketsPage                          *)
(*   src/hooks/debounce.rs            use_debounced_signal                 *)
(*   src/components/bulk_actions.rs   the selection                        *)
(*   src/components/table.rs          the pager                            *)
(*                                                                         *)
(* The search box writes one signal; a timer writes what it held to a      *)
(* second one, which the resource reads along with the filters and the     *)
(* page.  A write to a signal the resource has read runs it again, and a   *)
(* new run takes the place of the fetch in flight; until that is answered  *)
(* the rows of an earlier query stay on screen, where they can be selected.*)
(***************************************************************************)
EXTENDS Integers, FiniteSets

CONSTANTS
  Tickets,    (* what the tenant may hold, by rank in the server's order   *)
  Terms,      (* what can be typed                                         *)
  NoTerm,     (* the empty search                                          *)
  Filters,    (* status, queue, priority and order, taken together         *)
  NoFilter,   (* the one the page opens with                               *)
  Hits,       (* the tickets a search finds under a filter                 *)
  PerPage,    (* PER_PAGE                                                  *)
  MaxEdits    (* bound: writes to the search signal                        *)

ASSUME TicketAssumption ==
  /\ Tickets \subseteq Nat /\ IsFiniteSet(Tickets)
  /\ NoTerm \in Terms /\ NoFilter \in Filters
  /\ Hits \in [Terms \X Filters -> SUBSET Tickets]
  /\ PerPage \in Nat \ {0}
  /\ MaxEdits \in Nat

VARIABLES
  alive,     (* server: the tickets there are                              *)
  search,    (* the search box                                             *)
  edits,     (* the debounce's generation                                  *)
  timers,    (* its sleepers                                               *)
  settled,   (* search_debounced                                           *)
  filter,    (* status_filter, queue_filter, priority_filter, sort         *)
  page,      (* page                                                       *)
  due,       (* the resource has to run again                              *)
  fetch,     (* its run: none, a request, or an answer on its way          *)
  shown,     (* its value                                                  *)
  selection, (* selection                                                  *)
  confirm,   (* bulk_delete_confirm, {} for none                           *)
  running,   (* bulk_delete_running                                        *)
  unanswered,(* the DELETEs in flight                                      *)
  gone       (* history: DELETEs that were answered with a success         *)

queryVars == <<search, edits, timers, settled, filter, page>>
listVars  == <<due, fetch, shown>>
bulkVars  == <<selection, confirm, running, unanswered, gone>>
ticketVars == <<alive, queryVars, listVars, bulkVars>>

Keys == [term : Terms, filter : Filters, page : Nat \ {0}]

TicketTypeOK ==
  /\ alive     \subseteq Tickets
  /\ search    \in Terms
  /\ edits     \in Nat
  /\ timers    \subseteq [n : Nat, term : Terms]
  /\ settled   \in Terms
  /\ filter    \in Filters
  /\ page      \in Nat \ {0}
  /\ due       \in BOOLEAN
  /\ fetch     \in [st : {"none", "sent", "answered"}, key : Keys,
                    rows : SUBSET Tickets, total : Nat]
  /\ shown     \in [st : {"loading", "failed", "rows"}, key : Keys,
                    rows : SUBSET Tickets, total : Nat]
  /\ selection \subseteq Tickets
  /\ confirm   \subseteq Tickets
  /\ running   \in BOOLEAN
  /\ unanswered \subseteq confirm
  /\ gone      \subseteq Tickets \ alive

-----------------------------------------------------------------------------
(* The server.                                                             *)

Found(k)   == Hits[<<k.term, k.filter>>] \cap alive
Rank(t, S) == Cardinality({u \in S : u <= t})

(* The tickets of a page.                                                  *)
OnPage(k) ==
  {t \in Found(k) : /\ (k.page - 1) * PerPage < Rank(t, Found(k))
                    /\ Rank(t, Found(k)) <= k.page * PerPage}

-----------------------------------------------------------------------------
(* The query.                                                              *)

(* What the resource reads, and what the page's controls say.              *)
Key    == [term |-> settled, filter |-> filter, page |-> page]
Wanted == [term |-> search,  filter |-> filter, page |-> page]

(* No dialog covers the page.                                              *)
AtHand == confirm = {}

(* search is written: the debounce's effect starts a sleeper.              *)
Searched(v) ==
  /\ edits < MaxEdits
  /\ search' = v
  /\ edits' = edits + 1
  /\ timers' = timers \cup {[n |-> edits + 1, term |-> v]}
  /\ UNCHANGED settled

(* A write to page, or to a filter, is one the resource sees, the value    *)
(* that was there before included.                                         *)
Steered == due' = TRUE /\ UNCHANGED <<fetch, shown>>

(* set_ticket_search.                                                      *)
Type(v) ==
  /\ AtHand
  /\ Searched(v)
  /\ page' = 1
  /\ Steered
  /\ UNCHANGED <<alive, filter, bulkVars>>

(* The selects, the pills, toggle_ticket_sort.                             *)
Narrow(f) ==
  /\ AtHand
  /\ filter' = f
  /\ page' = 1
  /\ Steered
  /\ UNCHANGED <<alive, search, edits, timers, settled, bulkVars>>

(* apply_saved_view.                                                       *)
ApplyView(v, f) ==
  /\ AtHand
  /\ Searched(v)
  /\ filter' = f
  /\ page' = 1
  /\ Steered
  /\ UNCHANGED <<alive, bulkVars>>

(* The pager, for the count last heard: a number, Previous, Next.          *)
Pages == (shown.total + PerPage - 1) \div PerPage

(* Mutant of Turn: the resource reads the page outside its closure.        *)
TurnUnread(p) ==
  /\ AtHand
  /\ shown.total > PerPage
  /\ p # page
  /\ p \in 1..Pages \/ (p = page - 1 /\ p > 0)
  /\ page' = p
  /\ UNCHANGED <<alive, search, edits, timers, settled, filter, listVars, bulkVars>>

Turn(p) ==
  /\ AtHand
  /\ shown.total > PerPage
  /\ p # page
  /\ p \in 1..Pages \/ (p = page - 1 /\ p > 0)
  /\ page' = p
  /\ Steered
  /\ UNCHANGED <<alive, search, edits, timers, settled, filter, bulkVars>>

(* Mutants of TimerFires: the resource does not read the settled signal; a *)
(* sleeper does not look at the generation.                                *)
TimerFiresUnread(t) ==
  /\ t \in timers
  /\ timers' = timers \ {t}
  /\ settled' = IF t.n = edits THEN t.term ELSE settled
  /\ UNCHANGED <<alive, search, edits, filter, page, listVars, bulkVars>>

TimerFiresStale(t) ==
  /\ t \in timers
  /\ timers' = timers \ {t}
  /\ settled' = t.term
  /\ Steered
  /\ UNCHANGED <<alive, search, edits, filter, page, bulkVars>>

(* A sleeper of use_debounced_signal wakes.                                *)
TimerFires(t) ==
  /\ t \in timers
  /\ timers' = timers \ {t}
  /\ \/ /\ t.n = edits
        /\ settled' = t.term
        /\ Steered
     \/ /\ t.n # edits
        /\ UNCHANGED <<settled, listVars>>
  /\ UNCHANGED <<alive, search, edits, filter, page, bulkVars>>

-----------------------------------------------------------------------------
(* The resource.                                                           *)

Request == fetch' = [st |-> "sent", key |-> Key, rows |-> {}, total |-> 0]

(* It runs again, and the run before is dropped.                           *)
Rerun ==
  /\ due
  /\ due' = FALSE
  /\ Request
  /\ UNCHANGED <<alive, queryVars, shown, bulkVars>>

ServerReads ==
  /\ fetch.st = "sent"
  /\ fetch' = [fetch EXCEPT !.st = "answered", !.rows = OnPage(fetch.key),
                            !.total = Cardinality(Found(fetch.key))]
  /\ UNCHANGED <<alive, queryVars, due, shown, bulkVars>>

NoFetch == fetch' = [fetch EXCEPT !.st = "none", !.rows = {}, !.total = 0]

Arrives ==
  /\ fetch.st = "answered"
  /\ shown' = [fetch EXCEPT !.st = "rows"]
  /\ NoFetch
  /\ UNCHANGED <<alive, queryVars, due, bulkVars>>

FetchFails ==
  /\ fetch.st # "none"
  /\ shown' = [st |-> "failed", key |-> fetch.key, rows |-> {}, total |-> 0]
  /\ NoFetch
  /\ UNCHANGED <<alive, queryVars, due, bulkVars>>

(* SERVER_REACHABLE is written, which the resource reads too.              *)
ReachabilityFlips ==
  /\ Steered
  /\ UNCHANGED <<alive, queryVars, bulkVars>>

-----------------------------------------------------------------------------
(* The bulk delete.                                                        *)

Toggle(t) ==
  /\ AtHand
  /\ t \in shown.rows
  /\ selection' = IF t \in selection THEN selection \ {t} ELSE selection \cup {t}
  /\ UNCHANGED <<alive, queryVars, listVars, confirm, running, unanswered, gone>>

(* SelectAllHeader; the bar's Cancel.                                      *)
SelectAll ==
  /\ AtHand
  /\ selection' = IF shown.rows # {} /\ shown.rows \subseteq selection THEN {} ELSE shown.rows
  /\ UNCHANGED <<alive, queryVars, listVars, confirm, running, unanswered, gone>>

ClearSelection ==
  /\ AtHand
  /\ selection # {}
  /\ selection' = {}
  /\ UNCHANGED <<alive, queryVars, listVars, confirm, running, unanswered, gone>>

AskDelete ==
  /\ AtHand
  /\ selection # {}
  /\ confirm' = selection
  /\ UNCHANGED <<alive, queryVars, listVars, selection, running, unanswered, gone>>

CancelDelete ==
  /\ confirm # {} /\ ~running
  /\ confirm' = {}
  /\ UNCHANGED <<alive, queryVars, listVars, selection, running, unanswered, gone>>

ConfirmDelete ==
  /\ confirm # {} /\ ~running
  /\ running' = TRUE
  /\ unanswered' = confirm
  /\ UNCHANGED <<alive, queryVars, listVars, selection, confirm, gone>>

(* One DELETE of the fan-out: done, refused, or done with the answer lost. *)
DeleteAnswers(t) ==
  /\ t \in unanswered
  /\ unanswered' = unanswered \ {t}
  /\ \/ /\ t \in alive
        /\ alive' = alive \ {t}
        /\ gone' = gone \cup {t}
     \/ /\ alive' \in {alive, alive \ {t}}
        /\ UNCHANGED gone
  /\ UNCHANGED <<queryVars, listVars, selection, confirm, running>>

FanoutDone ==
  /\ running /\ unanswered = {}
  /\ running' = FALSE
  /\ selection' = {} /\ confirm' = {}
  /\ UNCHANGED <<alive, queryVars, unanswered, gone>>

(* Mutant of FanoutEnds: the list is not asked for again.                  *)
FanoutEndsUnrefreshed == FanoutDone /\ UNCHANGED listVars

(* join_all is over, with or without failures.                             *)
FanoutEnds == FanoutDone /\ Request /\ UNCHANGED <<due, shown>>

-----------------------------------------------------------------------------
TicketInit ==
  /\ alive = Tickets
  /\ search = NoTerm /\ settled = NoTerm
  /\ edits = 0 /\ timers = {[n |-> 0, term |-> NoTerm]}
  /\ filter = NoFilter /\ page = 1
  /\ due = TRUE
  /\ fetch = [st |-> "none",    key |-> Key, rows |-> {}, total |-> 0]
  /\ shown = [st |-> "loading", key |-> Key, rows |-> {}, total |-> 0]
  /\ selection = {} /\ confirm = {} /\ running = FALSE /\ unanswered = {}
  /\ gone = {}

Steering ==
  \/ \E v \in Terms : Type(v)
  \/ \E f \in Filters : Narrow(f)
  \/ \E v \in Terms, f \in Filters : ApplyView(v, f)
  \/ \E p \in 1..page + Pages : Turn(p)
  \/ ReachabilityFlips

Bulk ==
  \/ \E t \in Tickets : Toggle(t) \/ DeleteAnswers(t)
  \/ SelectAll \/ ClearSelection \/ AskDelete \/ CancelDelete \/ ConfirmDelete
  \/ FanoutEnds

TicketNext ==
  \/ Steering
  \/ \E t \in timers : TimerFires(t)
  \/ Rerun \/ ServerReads \/ Arrives \/ FetchFails
  \/ Bulk

TicketSpec == TicketInit /\ [][TicketNext]_ticketVars

(* Sleepers wake, the resource is polled, requests are answered or fail.   *)
TicketFairness ==
  /\ WF_ticketVars(\E t \in timers : TimerFires(t))
  /\ WF_ticketVars(Rerun)
  /\ WF_ticketVars(ServerReads \/ Arrives \/ FetchFails)
  /\ WF_ticketVars(\E t \in Tickets : DeleteAnswers(t))
  /\ WF_ticketVars(FanoutEnds)

FairTicketSpec == TicketSpec /\ TicketFairness

-----------------------------------------------------------------------------
(* Properties.                                                             *)

(* Nothing is under way that will change what is on screen.                *)
Quiet == timers = {} /\ ~due /\ fetch.st = "none"

(* At rest the list answers the query its controls show: no run that was   *)
(* overtaken, and no keystroke of a burst, has the last word               *)
(* (use_debounced_signal, "only the last keystroke in a burst ever lands"; *)
(* tickets.rs, "Every reactive input is read INSIDE the closure").         *)
QuietShowsQuery == Quiet => shown.key = Wanted /\ shown.st # "loading"

(* At rest, once the dialog is closed, no ticket is listed that the user   *)
(* has deleted from here, whatever was in flight while it was deleted      *)
(* (tickets.rs, the fan-out and its restart).                              *)
OwnDeletesVanish == Quiet /\ ~running => shown.rows \cap gone = {}

(* A user who leaves the controls alone, and deletes nothing more, gets    *)
(* the answer to what they left them at.                                   *)
LeftAlone == <>[][~(Steering \/ ConfirmDelete)]_ticketVars
ControlsAreAnswered == LeftAlone => <>[](shown.key = Wanted)

(* The inductive invariant, in parts: a sleeper of the current generation  *)
(* holds what the box holds; a run that is not overtaken is for the        *)
(* current key; after a fan-out nothing older than it is on its way.       *)
SleepersFollow ==
  /\ \A t \in timers : t.n <= edits /\ (t.n = edits => t.term = search)
  /\ settled = search \/ \E t \in timers : t.n = edits
RunIsCurrent ==
  ~due => IF fetch.st = "none" THEN shown.key = Key /\ shown.st # "loading"
                               ELSE fetch.key = Key
NothingOlder ==
  ~running => /\ fetch.rows \cap gone = {}
              /\ fetch.st = "none" => shown.rows \cap gone = {}
FanoutIsConfirmed == /\ unanswered # {} => running
                     /\ running => confirm # {}

TicketInv ==
  /\ TicketTypeOK
  /\ SleepersFollow
  /\ RunIsCurrent
  /\ NothingOlder
  /\ FanoutIsConfirmed
=============================================================================
