------------------------------ MODULE CodeFlow ------------------------------
(***************************************************************************)
(* What the sign-in promises the identity provider (OP), with the pages,   *)
(* the listener and the reloads left out.                                  *)
(*                                                                         *)
(* An authorization code is single use and short-lived.  So the client     *)
(* keeps one flow open at a time, that of the request it made last; it     *)
(* sends the code of that flow while the flow is young, gives the flow up  *)
(* as it sends it, and begins no other until it has its answer; and a      *)
(* session comes of such an answer and of nothing else.  LoginFlow         *)
(* implements this specification; see its refinement mapping.              *)
(***************************************************************************)
CONSTANTS
  Flow,      (* authorization requests, and the codes that answer them *)
  None       (* not a flow                                             *)

VARIABLES
  unspent,   (* the flow whose code may still be sent, or None         *)
  out,       (* the flow whose code is being exchanged, or None        *)
  session    (* somebody is signed in                                  *)

codeVars == <<unspent, out, session>>

Init ==
  /\ unspent = None
  /\ out = None
  /\ session = FALSE

(* A new request takes the place of the one before it.                     *)
Begin(f) ==
  /\ out = None
  /\ unspent' = f
  /\ UNCHANGED <<out, session>>

(* The flow is too old, or its answer was of no use.                       *)
Forget ==
  /\ unspent' = None
  /\ UNCHANGED <<out, session>>

(* The code goes out and is spent, whatever comes of it.                   *)
Send ==
  /\ unspent # None
  /\ out' = unspent
  /\ unspent' = None
  /\ UNCHANGED session

SignIn ==
  /\ out # None
  /\ out' = None
  /\ session' = TRUE
  /\ UNCHANGED unspent

(* Refused, unreachable, or the page that asked is gone.                   *)
GiveUp ==
  /\ out' = None
  /\ UNCHANGED <<unspent, session>>

(* The session ends, for reasons of its own.                               *)
SignOut ==
  /\ out = None
  /\ session' = FALSE
  /\ UNCHANGED <<unspent, out>>

Next ==
  \/ \E f \in Flow : Begin(f)
  \/ Forget \/ Send \/ SignIn \/ GiveUp \/ SignOut

Spec == Init /\ [][Next]_codeVars

(* At most one flow can still lead to a session.                           *)
OneFlowOpen == unspent = None \/ out = None
=============================================================================
