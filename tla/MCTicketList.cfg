SPECIFICATION FairTicketSpec
CONSTANTS
  Tickets <- MCTickets
  Terms <- MCTerms
  NoTerm = ""
  Filters <- MCFilters
  NoFilter = "any"
  Hits <- MCHits
  PerPage = 1
  MaxEdits = 1
INVARIANTS
  TicketInv
  QuietShowsQuery
  OwnDeletesVanish
PROPERTIES
  ControlsAreAnswered
