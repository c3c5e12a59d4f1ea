--------------------------- MODULE MCServerHealth ---------------------------
(* Small instances of ServerHealth for TLC.                                *)
EXTENDS ServerHealth, TLC

=============================================================================
