--------------------------- MODULE MCAgentSession ---------------------------
(* Small instances of AgentSession for TLC.                                *)
EXTENDS AgentSession, TLC

MCWaiters == UNION {Requests, SignOuts, Loaders, Confirmers, OidcLoops, StandaloneLoops}
MCFlightIds == 1..Cardinality(Waiters) + 1
=============================================================================
