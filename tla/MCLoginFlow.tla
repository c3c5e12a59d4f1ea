----------------------------- MODULE MCLoginFlow -----------------------------
(* Small instances of LoginFlow for TLC.                                   *)
EXTENDS LoginFlow, TLC

=============================================================================
