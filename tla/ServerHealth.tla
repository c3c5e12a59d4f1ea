----------------------------- MODULE ServerHealth -----------------------------
(***************************************************************************)
(* Whether mokosh-server answers, as one tab or window sees it:            *)
(*                                                                         *)
(*   src/hooks/fetch.rs          SERVER_REACHABLE, CONSECUTIVE_FAILURES    *)
(*   src/hooks/server_status.rs  the recovery poll, use_can_mutate         *)
(*   src/hooks/remote_data.rs    use_remote_resource                       *)
(*                                                                         *)
(* Every helper of the fetch layer classifies what it hears.  Enough       *)
(* failures in a row lower one app-wide flag, which raises the banner,     *)
(* disables the save buttons and starts a poll of /ready; an answer raises *)
(* it again, and whoever has read it runs once more.                       *)
(*                                                                         *)
(* A closure given to use_resource is run again when a signal it has read  *)
(* is written: the task under way is dropped with its request, and the     *)
(* value of the last one that finished stays until the next does.          *)
(***************************************************************************)
EXTENDS Naturals

CONSTANTS
  Resources,    (* uses of use_remote_resource                             *)
  Requests,     (* every other request of a page                           *)
  Mutations,    (* those of them behind a button that use_can_mutate gates *)
  Monitor,      (* the closure of use_server_status_monitor                *)
  Recording,    (* whose helper classifies a success, and not only errors  *)
  Threshold,    (* CONSECUTIVE_FAILURES_FOR_DOWN, 2 in the code            *)
  MaxFailures   (* where the count saturates; u32::MAX in the code         *)

Callers == Resources \cup Requests \cup {Monitor}

ASSUME HealthAssumption ==
  /\ Resources \cap Requests = {}
  /\ Mutations \subseteq Requests
  /\ Monitor \notin Resources \cup Requests
  /\ Recording \subseteq Callers
  /\ Monitor \in Recording
  /\ Threshold \in Nat \ {0}
  /\ MaxFailures \in Nat
  /\ MaxFailures >= Threshold

(* What a call comes to: a 2xx; any other status below 500; a 5xx, or no   *)
(* response at all.                                                        *)
Outcomes == {"ok", "refused", "failed"}

VARIABLES
  server,      (* "up" or "down"                                           *)
  failures,    (* CONSECUTIVE_FAILURES                                     *)
  reachable,   (* SERVER_REACHABLE                                         *)
  reply,       (* per caller: no call, one on its way, or what it came to  *)
  polling,     (* the monitor is in its loop                               *)
  mounted,     (* resources of the pages on screen                         *)
  value,       (* per resource: the Result it holds                        *)
  seen,        (* history: per resource, the flag its last run has read    *)
  stale        (* closures to run again                                    *)

healthVars == <<server, failures, reachable, reply, polling, mounted, value,
                seen, stale>>
flagVars   == <<failures, reachable>>

HealthTypeOK ==
  /\ server    \in {"up", "down"}
  /\ failures  \in 0..MaxFailures
  /\ reachable \in BOOLEAN
  /\ reply     \in [Callers -> {"none", "sent"} \cup Outcomes]
  /\ polling   \in BOOLEAN
  /\ mounted   \subseteq Resources
  /\ value     \in [Resources -> {"none", "ok", "err"}]
  /\ seen      \in [Resources -> BOOLEAN]
  /\ stale     \subseteq mounted \cup {Monitor}

-----------------------------------------------------------------------------
(* Classification.                                                         *)

(* Mutant of OneFailure: the count does not saturate.                      *)
OneFailureMore == failures + 1

(* classify_failure.                                                       *)
OneFailure == IF failures = MaxFailures THEN failures ELSE failures + 1

(* Mutant of Readers: a resource reads the flag after its await.           *)
SettledReaders == {Monitor} \cup {r \in mounted : reply[r] = "none"}

(* Who runs again when the flag is written: every closure that has read it.*)
Readers == {Monitor} \cup mounted

(* set_server_reachable: written on a change only.                         *)
SetReachable(b) ==
  /\ reachable' = b
  /\ stale' = IF b = reachable THEN stale ELSE stale \cup Readers

(* Mutant of RecordSuccess: the count is kept.                             *)
RecordSuccessOnly == UNCHANGED failures /\ SetReachable(TRUE)

(* record_success.                                                         *)
RecordSuccess == failures' = 0 /\ SetReachable(TRUE)

(* record_failure.                                                         *)
RecordFailure ==
  /\ failures' = OneFailure
  /\ IF OneFailure >= Threshold THEN SetReachable(FALSE) ELSE UNCHANGED <<reachable, stale>>

(* note_response_status, note_transport_error, and where they are called.  *)
Note(c, outcome) ==
  \/ outcome = "failed" /\ RecordFailure
  \/ (outcome = "refused" \/ (outcome = "ok" /\ c \in Recording)) /\ RecordSuccess
  \/ outcome = "ok" /\ c \notin Recording /\ UNCHANGED <<flagVars, stale>>

(* classify_remote.                                                        *)
Shown(r) ==
  IF value[r] = "none" THEN "loading"
  ELSE IF value[r] = "err" /\ ~reachable THEN "unavailable" ELSE "ready"

-----------------------------------------------------------------------------
(* Calls.                                                                  *)

Outcome(c) == reply[c] \in Outcomes

Called(c) == reply' = [reply EXCEPT ![c] = "sent"]
Ended(c)  == reply' = [reply EXCEPT ![c] = "none"]

(* A page sends a request; a gated button does while the flag is up.       *)
Send(q) ==
  /\ q \in Requests /\ reply[q] = "none"
  /\ q \in Mutations => reachable
  /\ Called(q)
  /\ UNCHANGED <<server, flagVars, polling, mounted, value, seen, stale>>

(* The page is left with the request outstanding.                          *)
Abandon(q) ==
  /\ q \in Requests /\ reply[q] # "none"
  /\ Ended(q)
  /\ UNCHANGED <<server, flagVars, polling, mounted, value, seen, stale>>

(* The network: the answer is under way, whatever becomes of the server    *)
(* before it is heard.                                                     *)
Serve(c) ==
  /\ reply[c] = "sent"
  /\ \E outcome \in Outcomes :
       /\ outcome = "failed" <=> server = "down"
       /\ reply' = [reply EXCEPT ![c] = outcome]
  /\ UNCHANGED <<server, flagVars, polling, mounted, value, seen, stale>>

(* A page hears the answer to its request.                                 *)
Hear(q) ==
  /\ q \in Requests /\ Outcome(q)
  /\ Note(q, reply[q])
  /\ Ended(q)
  /\ UNCHANGED <<server, polling, mounted, value, seen>>

(* use_remote_resource: the fetcher returns.                               *)
Load(r) ==
  /\ r \in mounted /\ Outcome(r)
  /\ Note(r, reply[r])
  /\ Ended(r)
  /\ value' = [value EXCEPT ![r] = IF reply[r] = "ok" THEN "ok" ELSE "err"]
  /\ UNCHANGED <<server, polling, mounted, seen>>

(* Its closure runs again.                                                 *)
Refetch(r) ==
  /\ r \in mounted /\ r \in stale
  /\ Called(r)
  /\ seen' = [seen EXCEPT ![r] = reachable]
  /\ stale' = stale \ {r}
  /\ UNCHANGED <<server, flagVars, polling, mounted, value>>

(* A page with the resource is opened, or left.                            *)
Mount(r) ==
  /\ r \in Resources \ mounted
  /\ mounted' = mounted \cup {r}
  /\ Called(r)
  /\ seen' = [seen EXCEPT ![r] = reachable]
  /\ UNCHANGED <<server, flagVars, polling, value, stale>>

Unmount(r) ==
  /\ r \in mounted
  /\ mounted' = mounted \ {r}
  /\ Ended(r)
  /\ value' = [value EXCEPT ![r] = "none"]
  /\ stale' = stale \ {r}
  /\ UNCHANGED <<server, flagVars, polling, seen>>

(* The active tenant, or its token, changes: bump_tenant_generation.       *)
TenantChanges ==
  /\ stale' = stale \cup mounted
  /\ UNCHANGED <<server, flagVars, reply, polling, mounted, value, seen>>

-----------------------------------------------------------------------------
(* use_server_status_monitor.                                              *)

(* The closure runs again: it returns at once, or enters its loop.         *)
MonitorRuns ==
  /\ Monitor \in stale
  /\ polling' = ~reachable
  /\ Ended(Monitor)
  /\ stale' = stale \ {Monitor}
  /\ UNCHANGED <<server, flagVars, mounted, value, seen>>

(* RECOVERY_POLL_SECS later.                                               *)
MonitorProbes ==
  /\ polling /\ reply[Monitor] = "none"
  /\ Called(Monitor)
  /\ UNCHANGED <<server, flagVars, polling, mounted, value, seen, stale>>

(* Mutant of MonitorHears: one probe, whatever it finds.                   *)
MonitorHearsOnce ==
  /\ polling /\ Outcome(Monitor)
  /\ Note(Monitor, reply[Monitor])
  /\ Ended(Monitor)
  /\ polling' = FALSE
  /\ UNCHANGED <<server, mounted, value, seen>>

(* The probe returns; the loop ends once the flag is up.                   *)
MonitorHears ==
  /\ polling /\ Outcome(Monitor)
  /\ Note(Monitor, reply[Monitor])
  /\ Ended(Monitor)
  /\ polling' = ~reachable'
  /\ UNCHANGED <<server, mounted, value, seen>>

-----------------------------------------------------------------------------
(* The server, or the way to it, goes and comes back.                      *)
ServerTurns ==
  /\ server' = IF server = "up" THEN "down" ELSE "up"
  /\ UNCHANGED <<flagVars, reply, polling, mounted, value, seen, stale>>

HealthInit ==
  /\ server = "up" /\ failures = 0 /\ reachable = TRUE
  /\ reply = [c \in Callers |-> "none"]
  /\ polling = FALSE
  /\ mounted = {}
  /\ value = [r \in Resources |-> "none"]
  /\ seen = [r \in Resources |-> TRUE]
  /\ stale = {}

PageSteps ==
  \/ \E q \in Requests : Send(q) \/ Abandon(q)
  \/ \E r \in Resources : Mount(r) \/ Unmount(r)
  \/ TenantChanges

Hearing == (\E q \in Requests : Hear(q)) \/ (\E r \in Resources : Load(r)) \/ MonitorHears

HealthNext ==
  \/ PageSteps \/ ServerTurns
  \/ \E c \in Callers : Serve(c)
  \/ Hearing
  \/ \E r \in Resources : Refetch(r)
  \/ MonitorRuns \/ MonitorProbes

HealthSpec == HealthInit /\ [][HealthNext]_healthVars

(* A call is answered or fails, a task that can go on is polled, a closure *)
(* that is due runs, and a timer fires.                                    *)
HealthFairness ==
  /\ \A c \in Callers : WF_healthVars(Serve(c))
  /\ \A q \in Requests : WF_healthVars(Hear(q))
  /\ \A r \in Resources : WF_healthVars(Load(r)) /\ WF_healthVars(Refetch(r))
  /\ WF_healthVars(MonitorHears) /\ WF_healthVars(MonitorRuns) /\ WF_healthVars(MonitorProbes)

FairHealthSpec == HealthSpec /\ HealthFairness
-----------------------------------------------------------------------------
(* Properties.                                                             *)

(* The flag and the count, written apart and each only on a change, tell   *)
(* the same story (fetch.rs, "The banner flips once this reaches").        *)
FlagIsCount == reachable <=> failures < Threshold

(* The poll runs exactly while the flag is down, whoever moved the flag:   *)
(* "idle (no network) while reachable, polling /ready on an interval while *)
(* down" (server_status.rs).                                               *)
PollFollowsFlag == Monitor \notin stale => (polling <=> ~reachable)

(* A page whose data was asked for under the other state of the flag asks  *)
(* again: "auto-refetches the moment the server comes back"                *)
(* (remote_data.rs).                                                       *)
RefetchFollowsFlag == \A r \in mounted \ stale : seen[r] = reachable

(* Once the server stays up the banner goes for good, with no help from    *)
(* the user, whose saves are disabled meanwhile; and if the user leaves    *)
(* the page alone everything on it has loaded again.                       *)
Quiet == <>[][~PageSteps]_healthVars
Recovered ==
  /\ reachable
  /\ \A r \in mounted : r \notin stale /\ seen[r] /\ reply[r] = "none" /\ Shown(r) = "ready"
RecoversWhenUp ==
  <>[](server = "up") => <>[]reachable /\ (Quiet => <>[]Recovered)

(* The inductive invariant.                                                *)
HealthInv == HealthTypeOK /\ FlagIsCount /\ PollFollowsFlag /\ RefetchFollowsFlag
=============================================================================
