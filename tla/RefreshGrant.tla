---------------------------- MODULE RefreshGrant ----------------------------
(***************************************************************************)
(* What the renewal layer of the client promises the identity provider     *)
(* (OP), with everything else left out.                                    *)
(*                                                                         *)
(* A refresh token is single use: the OP answers a second presentation of  *)
(* a token it has already rotated by killing the whole grant.  So, seen    *)
(* from the OP, a page lifetime of the client is a sequence of exchanges,  *)
(* one at a time, none of them for a token whose successor the client      *)
(* already holds.  TokenRenewal implements this specification; see its     *)
(* refinement mapping.                                                     *)
(***************************************************************************)
CONSTANTS
  Token,     (* the refresh tokens                     *)
  None       (* "no exchange outstanding", not a token *)

VARIABLES
  out,       (* the token being exchanged, or None                          *)
  rotated    (* tokens the client has received a successor for              *)

grantVars == <<out, rotated>>

GrantTypeOK ==
  /\ out \in Token \cup {None}
  /\ rotated \subseteq Token

Init ==
  /\ out = None
  /\ rotated = {}

(* A token goes out only when no other exchange is outstanding, and only   *)
(* while it is still the newest of its chain that the client holds.        *)
Present(t) ==
  /\ out = None
  /\ t \notin rotated
  /\ out' = t
  /\ UNCHANGED rotated

(* The answer arrives and carries the successor.                           *)
Rotate ==
  /\ out # None
  /\ rotated' = rotated \cup {out}
  /\ out' = None

(* The exchange ends without a successor: refused, unreachable, the answer *)
(* lost, or the page that asked is gone.                                   *)
GiveUp ==
  /\ out # None
  /\ out' = None
  /\ UNCHANGED rotated

Next ==
  \/ \E t \in Token : Present(t)
  \/ Rotate
  \/ GiveUp

Spec == Init /\ [][Next]_grantVars

(* The token outstanding is never one that has a successor already.        *)
NeverReplayed == out # None => out \notin rotated
=============================================================================
