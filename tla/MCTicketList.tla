----------------------------- MODULE MCTicketList -----------------------------
(* Small instances of TicketList for TLC.                                  *)
EXTENDS TicketList, TLC

MCTickets == 1..2
MCTerms   == {"", "w"}
MCFilters == {"any", "open"}

(* Everything is found without a search, one ticket by "w"; the other one  *)
(* is not open.                                                            *)
MCHits == [k \in MCTerms \X MCFilters |->
             (IF k[1] = "" THEN MCTickets ELSE {2})
               \ (IF k[2] = "open" THEN {1} ELSE {})]
=============================================================================
