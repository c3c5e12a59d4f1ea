----------------------------- MODULE MCEditorPage -----------------------------
(* Small instances of EditorPage for TLC.                                  *)
EXTENDS EditorPage, TLC

=============================================================================
