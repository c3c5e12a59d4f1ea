----------------------------- MODULE UpdateCheck -----------------------------
(***************************************************************************)
(* How an open tab comes to run the build that is deployed:                *)
(*                                                                         *)
(*   src/hooks/update_check.rs   the poll, the skew probe, the reload      *)
(*   src/hooks/fetch.rs          note_response_status, which asks for one  *)
(*                                                                         *)
(* A tab runs the bundle it has loaded.  A poll, and a probe the fetch     *)
(* layer can ask for, compare it with the deployed one; a difference       *)
(* raises UPDATE_PENDING for good, and the page is reloaded when it is     *)
(* hidden, or when the reload has been put off for too long.  Whether the  *)
(* document really goes is for the page to say (EditorPage).               *)
(***************************************************************************)
EXTENDS Naturals

CONSTANTS
  Hosts,    (* the hosts considered                                        *)
  Builds    (* what may be deployed                                        *)

ASSUME UpdateAssumption == Hosts \subseteq {"web", "desktop"}

VARIABLES
  host,      (* target_arch                                                *)
  live,      (* the build that is deployed                                 *)
  bundle,    (* the build this document has loaded                         *)
  pending,   (* UPDATE_PENDING                                             *)
  overdue,   (* MAX_DEFERRED_SECS have passed since it was raised          *)
  skew,      (* SKEW_PROBE_REQUESTED                                       *)
  probe,     (* the probe's closure: to be run, waiting for its fetch, over*)
  poll,      (* the poll: asleep, or waiting for its fetch                 *)
  hidden,    (* document.hidden                                            *)
  leaving    (* location.reload(): not called, called, or held by a prompt *)

updateVars == <<host, live, bundle, pending, overdue, skew, probe, poll,
                hidden, leaving>>

UpdateTypeOK ==
  /\ host    \in Hosts
  /\ live    \in Builds
  /\ bundle  \in Builds
  /\ pending \in BOOLEAN
  /\ overdue \in BOOLEAN
  /\ skew    \in BOOLEAN
  /\ probe   \in {"due", "sent", "over"}
  /\ poll    \in {"asleep", "sent"}
  /\ hidden  \in BOOLEAN
  /\ leaving \in {"no", "asked", "prompt"}

-----------------------------------------------------------------------------
(* Detection.                                                              *)

Deploy(b) ==
  /\ b # live
  /\ live' = b
  /\ UNCHANGED <<host, bundle, pending, overdue, skew, probe, poll, hidden, leaving>>

(* fetch_live_build_sha, then note_new_build_detected.  A fetch can fail,  *)
(* and on the desktop there is nothing to fetch.                           *)
Compared(found) ==
  /\ found => host = "web"
  /\ pending' = (pending \/ (found /\ live # bundle))

(* note_possible_version_skew, on a 404 or a 5xx.                          *)
Suspect ==
  /\ ~pending /\ ~skew
  /\ skew' = TRUE /\ probe' = "due"
  /\ UNCHANGED <<host, live, bundle, pending, overdue, poll, hidden, leaving>>

(* The probe's closure runs, up to its fetch.                              *)
ProbeRuns ==
  /\ probe = "due"
  /\ probe' = IF skew THEN "sent" ELSE "over"
  /\ UNCHANGED <<host, live, bundle, pending, overdue, skew, poll, hidden, leaving>>

(* Mutant of ProbeEnds: a fetch that fails leaves the flag up.             *)
ProbeEndsOnSuccess(found) ==
  /\ probe = "sent"
  /\ Compared(found)
  /\ skew' = ~found
  /\ probe' = IF found THEN "due" ELSE "over"
  /\ UNCHANGED <<host, live, bundle, overdue, poll, hidden, leaving>>

(* The rest of it.  Its own write makes it run once more.                  *)
ProbeEnds(found) ==
  /\ probe = "sent"
  /\ Compared(found)
  /\ skew' = FALSE /\ probe' = "due"
  /\ UNCHANGED <<host, live, bundle, overdue, poll, hidden, leaving>>

(* POLL_INTERVAL_SECS later, nothing pending.                              *)
PollFetches ==
  /\ poll = "asleep" /\ ~pending
  /\ poll' = "sent"
  /\ UNCHANGED <<host, live, bundle, pending, overdue, skew, probe, hidden, leaving>>

PollEnds(found) ==
  /\ poll = "sent"
  /\ Compared(found)
  /\ poll' = "asleep"
  /\ UNCHANGED <<host, live, bundle, overdue, skew, probe, hidden, leaving>>

-----------------------------------------------------------------------------
(* The reload.                                                             *)

DeferralEnds ==
  /\ pending /\ ~overdue
  /\ overdue' = TRUE
  /\ UNCHANGED <<host, live, bundle, pending, skew, probe, poll, hidden, leaving>>

(* reload_now.  A call while another is under way changes nothing.         *)
ReloadNow == leaving' = IF leaving = "no" THEN "asked" ELSE leaving

(* Mutant of PollReloads: the cap is left to the listener.                 *)
PollLeavesIt ==
  /\ poll = "asleep" /\ pending /\ overdue
  /\ hidden
  /\ ReloadNow
  /\ UNCHANGED <<host, live, bundle, pending, overdue, skew, probe, poll, hidden>>

(* POLL_INTERVAL_SECS later, the cap reached.                              *)
PollReloads ==
  /\ poll = "asleep" /\ pending /\ overdue
  /\ ReloadNow
  /\ UNCHANGED <<host, live, bundle, pending, overdue, skew, probe, poll, hidden>>

(* The listener of visibilitychange.                                       *)
VisibilityChanges ==
  /\ host = "web"
  /\ hidden' = ~hidden
  /\ IF pending /\ (hidden' \/ overdue) THEN ReloadNow ELSE UNCHANGED leaving
  /\ UNCHANGED <<host, live, bundle, pending, overdue, skew, probe, poll>>

(* The banner's button; or the user reloads or closes the tab unasked.     *)
UserReloads ==
  /\ host = "web"
  /\ ReloadNow
  /\ UNCHANGED <<host, live, bundle, pending, overdue, skew, probe, poll, hidden>>

(* The document is replaced.                                               *)
Loaded ==
  /\ bundle'  = live
  /\ pending' = FALSE /\ overdue' = FALSE
  /\ skew'    = FALSE /\ probe'   = "due"
  /\ poll'    = "asleep"
  /\ leaving' = "no"
  /\ UNCHANGED <<host, live, hidden>>

-----------------------------------------------------------------------------
UpdateInit ==
  /\ host \in Hosts
  /\ live \in Builds /\ bundle = live
  /\ pending = FALSE /\ overdue = FALSE
  /\ skew = FALSE /\ probe = "due" /\ poll = "asleep"
  /\ hidden = FALSE /\ leaving = "no"

Detection ==
  \/ Suspect \/ ProbeRuns \/ PollFetches
  \/ \E found \in BOOLEAN : ProbeEnds(found) \/ PollEnds(found)

Reloading == DeferralEnds \/ PollReloads \/ VisibilityChanges \/ UserReloads

UpdateSteps == (\E b \in Builds : Deploy(b)) \/ Detection \/ Reloading

-----------------------------------------------------------------------------
(* Properties, of the page that takes these steps (EditorPage).            *)

(* A probe that was asked for is run, and no request for one is swallowed  *)
(* by a flag that nobody lowers (update_check.rs, "exactly one probe runs  *)
(* per request, and none while one is in flight").                         *)
ProbeIsDue == skew => probe # "over"

(* A fetch the flag waits for is one the flag asked for.                   *)
ProbeWasAsked == probe = "sent" => skew

OverdueIsPending == overdue => pending

UpdateInv == UpdateTypeOK /\ ProbeIsDue /\ ProbeWasAsked /\ OverdueIsPending
=============================================================================
