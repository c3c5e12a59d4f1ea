---------------------------- MODULE AgentSession ----------------------------
(***************************************************************************)
(* The agent session of one page lifetime after another:                   *)
(*                                                                         *)
(*   src/hooks/auth.rs    AuthContext, rehydration, the mount-time         *)
(*                        confirmation, the refresh loops, the /me reconcile*)
(*   src/hooks/fetch.rs   the request path: a bearer renewed before it is  *)
(*                        sent, and the handling of a 401                  *)
(*   login.rs, auth_callback.rs, tenant_switcher.rs, sign_out.rs           *)
(*                                                                         *)
(* Every task that can call renew_access_token is a member of Waiters and  *)
(* has a program counter; an action is one poll of one task, from one      *)
(* await to the next.  What a task does to the renewal layer is a step of  *)
(* TokenRenewal, which this module extends and implements.                 *)
(***************************************************************************)
EXTENDS TokenRenewal

CONSTANTS
  Requests,         (* page tasks: authed requests                         *)
  Switchers,        (* those that ask for another tenant: the switcher is  *)
                    (* drawn only for users of two or more                 *)
  SignOuts,         (* tasks running sign_out                              *)
  Loaders,          (* use_current_user_loader                             *)
  Confirmers,       (* use_auth_provider's confirm_restored_session        *)
  OidcLoops,        (* use_token_refresh                                   *)
  StandaloneLoops,  (* use_standalone_token_refresh                        *)
  SignInStores,     (* where this deployment's sign-in persists a session  *)
  HasContactPlane   (* TRUE where contacts sign in on the same origin      *)

ASSUME AgentAssumption ==
  /\ Waiters = UNION {Requests, SignOuts, Loaders, Confirmers, OidcLoops, StandaloneLoops}
  /\ Switchers \subseteq Requests
  /\ OidcLoops \cap StandaloneLoops = {}
  /\ SignInStores \subseteq Stores
  /\ HasContactPlane \in BOOLEAN

(* Tasks whose /auth/me answer is applied to AuthContext.                  *)
Reconcilers == Loaders \cup Confirmers \cup OidcLoops

Labels == {"idle", "mount", "boot", "first", "ensure2", "second", "me", "single",
           "sent", "recover", "tick", "confirm", "revoke"}

(* In the middle of a poll: the task goes on before any other runs.        *)
MidPoll == {"mount", "ensure2", "me"}

VARIABLES
  pc,         (* where each task is                                        *)
  carried,    (* the session whose bearer a task's request carries         *)
  life,       (* expires_at of each bundle, against the 60 s window        *)
  last,       (* LAST_RENEWAL while it is recent: outcome and session      *)
  ctx,        (* AuthContext                                               *)
  contact,    (* a contact session is held (CONTACT_ACCESS_TOKEN)          *)
  pending,    (* a navigation to the login page is under way (browser), or *)
              (* SESSION_ENDED is raised (desktop)                         *)
  heard       (* history: what this page lifetime heard of the session     *)

agentOnly == <<pc, carried, life, last, ctx, contact, pending, heard>>
agentVars == <<agentOnly, renewalVars>>

Context == [user : BOOLEAN, tokens : BOOLEAN, loading : BOOLEAN,
            conf : {"confirmed", "unconfirmed", "ended"}]

AgentTypeOK ==
  /\ pc      \in [Waiters -> Labels]
  /\ carried \in [Waiters -> Families \cup {None}]
  /\ life    \in [Stores -> {"fresh", "window", "spent"}]
  /\ last    \in [ok : BOOLEAN, fam : Families \cup {None}] \cup {None}
  /\ ctx     \in Context
  /\ contact \in BOOLEAN
  /\ pending \in BOOLEAN
  /\ heard   \in {"nothing", "something", "yes"}

-----------------------------------------------------------------------------
(* Helpers.                                                                *)

(* AuthContext::default, and the context of a session that was ended.      *)
NobodyIn == [user |-> FALSE, tokens |-> FALSE, loading |-> FALSE, conf |-> "confirmed"]
EndedCtx == [NobodyIn EXCEPT !.conf = "ended"]
MarkConfirmed(c) == [c EXCEPT !.conf = "confirmed", !.loading = FALSE]

(* Mutant of FamOf: the token itself is remembered.                        *)
TokenOf(t) == t

FamOf(t) == IF t = None THEN None ELSE t.fam

(* access_token_is_stale                                                   *)
Stale == bearer # None /\ Persisted /\ life[Preferred] # "fresh"

Goto(w, l) == pc' = [pc EXCEPT ![w] = l]

(* A bundle just written is fresh; an absent one has no expiry.            *)
LifeAfter(written) ==
  life' = [s \in Stores |-> IF s \in written \/ store'[s] = None THEN "fresh" ELSE life[s]]

Hearing(h) == heard' = IF heard = "yes" THEN heard ELSE h

(* The request goes out with the bearer held now.                          *)
Send(w) ==
  /\ Goto(w, "sent")
  /\ carried' = [carried EXCEPT ![w] = FamOf(bearer)]

(* After its request a sign-out goes on to revoke; every other task is     *)
(* through.                                                                *)
Return(w) ==
  /\ Goto(w, IF w \in SignOuts THEN "revoke" ELSE "idle")
  /\ carried' = [carried EXCEPT ![w] = None]

(* renew_access_token: wait for a flight, at label l.                      *)
Await(w, l) ==
  /\ Join(w) \/ Start(w)
  /\ Goto(w, l)
  /\ UNCHANGED <<life, last, ctx, contact, pending, heard>>

(* renew_access_token: refused without a wait, for want of a refresh token.*)
RefusedNow(w) ==
  /\ Refused(w)
  /\ last' = [ok |-> FALSE, fam |-> FamOf(bearer)]

(* renew_access_token returns; only the caller that clears the flight      *)
(* records LAST_RENEWAL.  keys is what the caller goes on to clear.        *)
Awaited(w) == joined[w] # None /\ flights[joined[w]].st \in {"answered", "done"}
Result(w)  == Outcome(joined[w])
Hear(w, keys) ==
  LET fl == flights[joined[w]] IN
    /\ Awaited(w)
    /\ Resume(w, keys)
    /\ LifeAfter(IF fl.st = "answered" /\ Succeeded(fl.ans) THEN {fl.at} ELSE {})
    /\ last' = IF slot = joined[w] THEN [ok |-> Succeeded(fl.ans), fam |-> fl.tok.fam]
                                   ELSE last
    /\ Hearing(IF Succeeded(fl.ans) THEN "yes" ELSE "something")
    /\ UNCHANGED contact

-----------------------------------------------------------------------------
(* The request path.                                                       *)

(* ensure_fresh_access_token, then l1 if it has to wait and the send       *)
(* otherwise.                                                              *)
EnsureThenSend(w, l1) ==
  \/ /\ ~Stale
     /\ Send(w)
     /\ UNCHANGED <<renewalVars, life, last, ctx, contact, pending, heard>>
  \/ /\ Stale
     /\ Await(w, l1)
     /\ carried' = IF l1 = "second" THEN [carried EXCEPT ![w] = FamOf(bearer)] ELSE carried
  \/ /\ Stale
     /\ RefusedNow(w)
     /\ Send(w)
     /\ UNCHANGED <<life, ctx, contact, pending, heard>>

(* get_authed and its siblings: a first ensure_fresh_access_token.  A      *)
(* request without a bearer is nobody's session event and is left out.     *)
BeginRequest(w) ==
  /\ pc[w] = "idle"
  /\ w \in Requests \/ (w \in SignOuts /\ ctx.user)
  /\ bearer # None
  /\ EnsureThenSend(w, "first")

(* ... and, in the poll that resumes it, a second one in agent_lane_bearer.*)
AfterFirst(w) ==
  /\ pc[w] = "first"
  /\ Hear(w, {})
  /\ Goto(w, "ensure2")
  /\ UNCHANGED <<carried, ctx, pending>>

SecondEnsure(w) ==
  /\ pc[w] = "ensure2"
  /\ EnsureThenSend(w, "second")

(* "Re-read: the renewal above may have replaced what the caller holds."   *)
AfterSecond(w) ==
  /\ pc[w] = "second"
  /\ Hear(w, {})
  /\ Goto(w, "sent")
  /\ carried' = IF bearer' = None THEN carried
                                  ELSE [carried EXCEPT ![w] = bearer'.fam]
  /\ UNCHANGED <<ctx, pending>>

(* get_authed_typed: a single ensure_fresh_access_token.  The /me of the   *)
(* one-shot loader, of a loop and of the confirmation, and typed page      *)
(* requests such as the heartbeat's.                                       *)
BeginTyped(w) ==
  /\ \/ pc[w] = "me"
     \/ pc[w] = "boot" /\ ctx.user
     \/ pc[w] = "idle" /\ w \in Requests /\ bearer # None
  /\ EnsureThenSend(w, "single")

AfterSingle(w) ==
  /\ pc[w] = "single"
  /\ Hear(w, {})
  /\ Goto(w, "sent")
  /\ carried' = [carried EXCEPT ![w] = FamOf(bearer')]
  /\ UNCHANGED <<ctx, pending>>

(* 2xx.  refresh_user_from_me confirms the session with it.                *)
Accepted(w) ==
  /\ pc[w] = "sent"
  /\ carried[w] # None
  /\ Return(w)
  /\ IF w \in Reconcilers
     THEN ctx' = MarkConfirmed(ctx) /\ Hearing("yes")
     ELSE UNCHANGED <<ctx, heard>>
  /\ UNCHANGED <<renewalVars, life, last, contact, pending>>

(* No answer, or one that says nothing about the session.                  *)
Failed(w) ==
  /\ pc[w] = "sent"
  /\ Return(w)
  /\ IF w \in Reconcilers
     THEN ctx' = [ctx EXCEPT !.loading = FALSE] /\ Hearing("something")
     ELSE UNCHANGED <<ctx, heard>>
  /\ UNCHANGED <<renewalVars, life, last, contact, pending>>

(* What follows a 401 once note_agent_unauthorized is through: ends tells  *)
(* whether it ran end_agent_session.  refresh_user_from_me then clears a   *)
(* session without OIDC tokens.                                            *)
ClearsAfter401(w) == w \in Reconcilers /\ ~ctx.tokens

(* Mutant of KeysAfter401: the session is ended whatever the renewal said. *)
KeysAfterAny401(w, ends) == Stores

KeysAfter401(w, ends) == IF ends \/ ClearsAfter401(w) THEN Stores ELSE {}

(* Mutant of After401: the session ends and nobody is told.                *)
After401Untold(w, ends) ==
  /\ Return(w)
  /\ ctx' = IF ClearsAfter401(w) THEN EndedCtx ELSE ctx
  /\ UNCHANGED pending

After401(w, ends) ==
  /\ Return(w)
  /\ ctx' = IF ClearsAfter401(w) THEN EndedCtx ELSE ctx
  /\ pending' = (pending \/ ends)

(* A 401 that needs no renewal: one ended moments ago and answers for it,  *)
(* or the request carried no bearer.                                       *)
Rejected401(w) ==
  /\ pc[w] = "sent"
  /\ carried[w] = None \/ last # None
  /\ LET ends == carried[w] # None /\ ~last.ok
         keys == KeysAfter401(w, ends)
     IN /\ IF keys = {} THEN UNCHANGED renewalVars ELSE Clear(keys)
        /\ After401(w, ends)
  /\ LifeAfter({})
  /\ Hearing("something")
  /\ UNCHANGED <<last, contact>>

(* Mutant of Recover: the recent renewal is not consulted.                 *)
RecoverUndebounced(w) ==
  /\ pc[w] = "sent"
  /\ carried[w] # None
  /\ Await(w, "recover")
  /\ UNCHANGED carried

(* A 401 that asks for one renewal ...                                     *)
Recover(w) ==
  /\ pc[w] = "sent"
  /\ carried[w] # None
  /\ last = None
  /\ \/ Await(w, "recover") /\ UNCHANGED carried
     \/ /\ slot = None
        /\ ~Refreshable
        /\ last' = [ok |-> FALSE, fam |-> FamOf(bearer)]
        /\ Clear(Stores)
        /\ After401(w, TRUE)
        /\ LifeAfter({})
        /\ Hearing("something")
        /\ UNCHANGED contact

(* ... and is over for the session if that fails.                          *)
AfterRecover(w) ==
  /\ pc[w] = "recover"
  /\ Awaited(w)
  /\ LET ends == Result(w) # "ok" IN
       /\ Hear(w, KeysAfter401(w, ends))
       /\ After401(w, ends)

-----------------------------------------------------------------------------
(* The refresh loops and the mount-time confirmation.                      *)

(* end_oidc_session, end_standalone_session.                               *)
EndedByLoop == ctx' = EndedCtx /\ pending' = (pending \/ HasReload)

KeysOf(s) == IF s = "oidc" THEN Stores ELSE {s}

(* Mutant of Tick: a session without a refresh token is left to itself.    *)
TickOnlyRenews(w, s) ==
  /\ pc[w] = "idle"
  /\ Preferred = s
  /\ Persisted
  /\ life[s] # "fresh"
  /\ store[s].rt
  /\ Await(w, "tick")
  /\ UNCHANGED carried

(* One tick of the loop for the store s, up to its await.                  *)
Tick(w, s) ==
  /\ pc[w] = "idle"
  /\ Preferred = s
  /\ Persisted
  /\ life[s] # "fresh"
  /\ \/ /\ store[s].rt
        /\ Await(w, "tick")
        /\ UNCHANGED carried
     \/ /\ ~store[s].rt
        /\ life[s] = "spent"
        /\ Clear(KeysOf(s))
        /\ EndedByLoop
        /\ LifeAfter({})
        /\ UNCHANGED <<pc, carried, last, contact, heard>>

OidcTick(w)       == w \in OidcLoops /\ Tick(w, "oidc")
StandaloneTick(w) == w \in StandaloneLoops /\ Tick(w, "standalone")

(* Their renewal succeeded.  The bundle is mirrored into the context of an *)
(* OIDC session, which asks /me at once; in a standalone one there is      *)
(* nothing to mirror.                                                      *)
Honoured(w, mirrors, l) ==
  /\ Result(w) = "ok"
  /\ Hear(w, {})
  /\ ctx' = [MarkConfirmed(ctx) EXCEPT
               !.tokens = @ \/ (mirrors /\ store'["oidc"] # None)]
  /\ Goto(w, l)
  /\ UNCHANGED <<carried, pending>>

(* Mutant of Dead: the persisted bundle is left behind.                    *)
DeadUncleared(w, s) ==
  /\ Result(w) = "dead"
  /\ Hear(w, {})
  /\ EndedByLoop
  /\ Goto(w, "idle")
  /\ UNCHANGED carried

(* Their renewal failed unrecoverably.                                     *)
Dead(w, s) ==
  /\ Result(w) = "dead"
  /\ Hear(w, KeysOf(s))
  /\ EndedByLoop
  /\ Goto(w, "idle")
  /\ UNCHANGED carried

(* Mutants of Blip: every failure signs out; a failure counts as an answer;*)
(* the gate stays up.                                                      *)
BlipSignsOut(w, releases) ==
  /\ Result(w) = "transient"
  /\ Hear(w, Stores)
  /\ EndedByLoop
  /\ Goto(w, "idle")
  /\ UNCHANGED carried

BlipConfirms(w, releases) ==
  /\ Result(w) = "transient"
  /\ Hear(w, {})
  /\ ctx' = MarkConfirmed(ctx)
  /\ Goto(w, "idle")
  /\ UNCHANGED <<carried, pending>>

BlipHolds(w, releases) ==
  /\ Result(w) = "transient"
  /\ Hear(w, {})
  /\ Goto(w, "idle")
  /\ UNCHANGED <<carried, ctx, pending>>

(* Their renewal failed some other way: a loop keeps the session, and so   *)
(* does the confirmation, which lets it render.                            *)
Blip(w, releases) ==
  /\ Result(w) = "transient"
  /\ Hear(w, {})
  /\ ctx' = [ctx EXCEPT !.loading = @ /\ ~releases]
  /\ Goto(w, "idle")
  /\ UNCHANGED <<carried, pending>>

AfterTick(w) ==
  /\ pc[w] = "tick"
  /\ Awaited(w)
  /\ \/ w \in OidcLoops /\ (Honoured(w, TRUE, "me") \/ Dead(w, "oidc"))
     \/ w \in StandaloneLoops /\ (Honoured(w, FALSE, "idle") \/ Dead(w, "standalone"))
     \/ Blip(w, FALSE)

(* confirm_restored_session, in the first poll after the boot: the store   *)
(* still holds the bundle the boot restored, so the source's branch for a  *)
(* bundle gone since is not taken.                                         *)
Confirm(w) ==
  /\ pc[w] = "mount"
  /\ \/ /\ \/ ctx.conf # "unconfirmed"
           \/ Persisted /\ life[Preferred] = "fresh"
        /\ Goto(w, "idle")
        /\ UNCHANGED <<renewalVars, carried, life, last, ctx, contact, pending, heard>>
     \/ /\ ctx.conf = "unconfirmed"
        /\ Persisted
        /\ life[Preferred] # "fresh"
        /\ \/ Await(w, "confirm") /\ UNCHANGED carried
           \/ /\ slot = None
              /\ ~Refreshable
              /\ last' = [ok |-> FALSE, fam |-> FamOf(bearer)]
              /\ Clear(KeysOf(Preferred))
              /\ EndedByLoop
              /\ Goto(w, "idle")
              /\ LifeAfter({})
              /\ Hearing("something")
              /\ UNCHANGED <<carried, contact>>

(* At mount the slot is empty, so the flight is its own and tells which    *)
(* kind of session it asked about.                                         *)
AfterConfirm(w) ==
  /\ pc[w] = "confirm"
  /\ Awaited(w)
  /\ LET s == flights[joined[w]].at IN
       \/ Honoured(w, s = "oidc", "me")
       \/ Dead(w, s)
       \/ Blip(w, TRUE)

-----------------------------------------------------------------------------
(* Sign-in, switch, sign-out, boot.                                        *)

(* A session was signed in to in this page lifetime.                       *)
SignedInWith(s, fam, rt) ==
  /\ Install(s, fam, rt)
  /\ LifeAfter({s})
  /\ ctx' = [ctx EXCEPT !.user = TRUE, !.loading = FALSE, !.tokens = (s = "oidc")]
  /\ heard' = "yes"

(* The login form and the OIDC callback.  In a browser the callback is a   *)
(* page of its own, booted for it.                                         *)
SignIn(s, fam, rt) ==
  /\ s \in SignInStores
  /\ ~ctx.user
  /\ (s = "oidc" /\ HasReload) => slot = None /\ ~pending
  /\ SignedInWith(s, fam, rt)
  /\ contact' = FALSE
  /\ UNCHANGED <<pc, carried, last, pending>>

(* The tenant switcher: the answer to switch-tenant is a standalone        *)
(* session, also for a user who came in through OIDC, and is installed     *)
(* whatever became of the session that asked.                              *)
Switched(w, fam, rt) ==
  /\ pc[w] = "sent"
  /\ w \in Switchers
  /\ carried[w] # None
  /\ SignedInWith("standalone", fam, rt)
  /\ Return(w)
  /\ UNCHANGED <<last, contact, pending>>

(* sign_out: BeginRequest revokes the mokosh session; then the refresh     *)
(* token is revoked at the OP, and after that everything is cleared.       *)
SignOutWithoutBearer(w) ==
  /\ w \in SignOuts
  /\ pc[w] = "idle"
  /\ ctx.user
  /\ bearer = None
  /\ Goto(w, "revoke")
  /\ UNCHANGED <<renewalVars, carried, life, last, ctx, contact, pending, heard>>

SignOutClears(w) ==
  /\ pc[w] = "revoke"
  /\ Clear(Stores)
  /\ Goto(w, "idle")
  /\ pending' = TRUE
  /\ LifeAfter({})
  /\ UNCHANGED <<carried, last, ctx, contact, heard>>

(* clear_staff_session_for_plane_switch: a contact signs in on this origin.*)
ContactSignIn ==
  /\ HasContactPlane
  /\ contact' = TRUE
  /\ Clear(Stores)
  /\ LifeAfter({})
  /\ UNCHANGED <<pc, carried, last, ctx, pending, heard>>

(* rehydrate_from_storage, rehydrate_standalone: a bundle inside its       *)
(* window raises the render gate.                                          *)
Gated == Persisted /\ life[Preferred] # "fresh"

(* Mutant of RestoredContext: the gate is not raised.                      *)
UngatedContext ==
  IF Persisted
  THEN [user |-> TRUE, tokens |-> Preferred = "oidc", loading |-> FALSE, conf |-> "unconfirmed"]
  ELSE NobodyIn

RestoredContext ==
  IF Persisted
  THEN [user |-> TRUE, tokens |-> Preferred = "oidc", loading |-> Gated, conf |-> "unconfirmed"]
  ELSE NobodyIn

(* A reload, or the navigation to the login page arriving: a new page      *)
(* lifetime rebuilt from the session store.                                *)
Boot ==
  /\ Reload
  /\ pc' = [w \in Waiters |-> IF w \in Confirmers THEN "mount"
                              ELSE IF w \in Loaders THEN "boot" ELSE "idle"]
  /\ carried' = [w \in Waiters |-> None]
  /\ last' = None
  /\ ctx' = RestoredContext
  /\ pending' = FALSE
  /\ heard' = IF Gated THEN "nothing" ELSE "something"
  /\ UNCHANGED <<life, contact>>

(* Mutant of Watch: the flag is lowered and the context forgotten.         *)
WatchLowersOnly ==
  /\ ~HasReload
  /\ pending
  /\ pending' = FALSE
  /\ UNCHANGED <<renewalVars, pc, carried, life, last, ctx, contact, heard>>

(* use_session_end_watch, on the desktop.                                  *)
Watch ==
  /\ ~HasReload
  /\ pending
  /\ ctx' = EndedCtx
  /\ pending' = FALSE
  /\ UNCHANGED <<renewalVars, pc, carried, life, last, contact, heard>>

-----------------------------------------------------------------------------
(* The clock, the network, and components that go away.                    *)

Age(s) ==
  /\ store[s] # None
  /\ life[s] # "spent"
  /\ life' = [life EXCEPT ![s] = IF @ = "fresh" THEN "window" ELSE "spent"]
  /\ UNCHANGED <<renewalVars, pc, carried, last, ctx, contact, pending, heard>>

(* RENEWAL_DEBOUNCE_SECS since the last renewal.                           *)
DebounceElapses ==
  /\ last # None
  /\ last' = None
  /\ UNCHANGED <<renewalVars, pc, carried, life, ctx, contact, pending, heard>>

(* Mutant of Unmount: the flight goes with the page that waited for it.    *)
UnmountDroppingFlight(w) ==
  /\ w \in Requests
  /\ pc[w] # "idle"
  /\ slot' = IF slot = joined[w] THEN None ELSE slot
  /\ joined' = [joined EXCEPT ![w] = None]
  /\ UNCHANGED <<store, bearer, flights, used, opVars, lost, rotated>>
  /\ Goto(w, "idle")
  /\ carried' = [carried EXCEPT ![w] = None]
  /\ UNCHANGED <<life, last, ctx, contact, pending, heard>>

(* A page is left with its request outstanding.                            *)
Unmount(w) ==
  /\ w \in Requests
  /\ pc[w] # "idle"
  /\ IF joined[w] = None THEN UNCHANGED renewalVars ELSE Cancel(w)
  /\ Goto(w, "idle")
  /\ carried' = [carried EXCEPT ![w] = None]
  /\ UNCHANGED <<life, last, ctx, contact, pending, heard>>

OpStep ==
  /\ \/ \E f \in FlightIds : OpAnswers(f)
     \/ \E t \in Token : OpSeesOrphan(t)
     \/ \E fam \in Families : OpEndsGrant(fam)
  /\ UNCHANGED agentOnly

-----------------------------------------------------------------------------
AgentInit ==
  /\ RenewalInit
  /\ pc = [w \in Waiters |-> IF w \in Loaders THEN "boot" ELSE "idle"]
  /\ carried = [w \in Waiters |-> None]
  /\ life = [s \in Stores |-> "fresh"]
  /\ last = None
  /\ ctx = NobodyIn
  /\ contact = FALSE
  /\ pending = FALSE
  /\ heard = "something"

(* The rest of a poll that is under way.                                   *)
Continue(w) == SecondEnsure(w) \/ (pc[w] = "me" /\ BeginTyped(w)) \/ Confirm(w)

(* A task resumed by the end of a renewal.                                 *)
Wake(w) ==
  \/ AfterFirst(w) \/ AfterSecond(w) \/ AfterSingle(w)
  \/ AfterRecover(w) \/ AfterTick(w) \/ AfterConfirm(w)

Answered(w) == Accepted(w) \/ Failed(w) \/ Rejected401(w) \/ Recover(w)

Begin(w) ==
  \/ BeginRequest(w) \/ BeginTyped(w) \/ OidcTick(w) \/ StandaloneTick(w)
  \/ SignOutWithoutBearer(w)

Others ==
  \/ \E w \in Waiters : Begin(w) \/ Wake(w) \/ Answered(w) \/ SignOutClears(w) \/ Unmount(w)
  \/ \E s \in Stores, fam \in Families, rt \in BOOLEAN : SignIn(s, fam, rt)
  \/ \E w \in Waiters, fam \in Families, rt \in BOOLEAN : Switched(w, fam, rt)
  \/ ContactSignIn
  \/ Boot
  \/ Watch
  \/ \E s \in Stores : Age(s)
  \/ DebounceElapses
  \/ OpStep

AtRest == \A w \in Waiters : pc[w] \notin MidPoll

AgentNext ==
  \/ \E w \in Waiters : Continue(w)
  \/ AtRest /\ Others

AgentSpec == AgentInit /\ [][AgentNext]_agentVars

(* The network answers or fails every request, the executor polls what it  *)
(* has woken, and a navigation under way arrives.                          *)
AgentFairness ==
  /\ \A f \in FlightIds : WF_agentVars(OpStep /\ OpAnswers(f))
  /\ \A w \in Waiters : /\ WF_agentVars(Continue(w))
                        /\ WF_agentVars(AtRest /\ Wake(w))
                        /\ WF_agentVars(AtRest /\ Answered(w))
                        /\ WF_agentVars(AtRest /\ SignOutClears(w))
  /\ WF_agentVars(AtRest /\ pending /\ (Boot \/ Watch))

(* Further: time passes, the loops keep their 30 s cadence, and an OP that *)
(* is asked again and again about a grant it has ended says so in the end. *)
CadenceFairness ==
  /\ \A s \in Stores : WF_agentVars(AtRest /\ Age(s))
  /\ \A w \in Waiters : WF_agentVars(AtRest /\ (OidcTick(w) \/ StandaloneTick(w)))
  /\ \A f \in FlightIds : SF_agentVars(AtRest /\ OpRefuses(f) /\ UNCHANGED agentOnly)

FairAgentSpec == AgentSpec /\ AgentFairness

-----------------------------------------------------------------------------
(* Properties.                                                             *)

(* Whatever the tasks of the session do to the renewal layer is something  *)
(* TokenRenewal allows.                                                    *)
ImplementsRenewal == RenewalSpec

(* A session restored from a bundle whose token is spent is not rendered   *)
(* before the OP has been asked about it (auth.rs, MAPPS-661).             *)
GateHolds == ctx.user /\ ~ctx.loading => heard # "nothing"

(* A session on screen counts as confirmed only if it was signed in to, or *)
(* honoured by the OP, in this page lifetime (SessionConfirmation).        *)
ConfirmedIsHonoured == ctx.user /\ ctx.conf = "confirmed" => heard = "yes"

(* Nobody looks at a signed-in screen without a bearer behind it, unless   *)
(* they are on their way to the login page (fetch.rs:777-784).             *)
ShownIsBacked == ctx.user => bearer # None \/ pending

(* The held bearer came from the persisted session whose expiry decides    *)
(* when it is renewed (fetch.rs:531, persisted_expiry).                    *)
BearerIsPersisted == bearer # None /\ Persisted => bearer = store[Preferred].tok

(* A session is renewed only inside its window, or by a task whose request *)
(* came back 401 although it carried a bearer, and only if no recent       *)
(* renewal answers for that (fetch.rs:502-506).                            *)
RenewsOnlyWhenDue ==
  [][slot = None /\ slot' # None =>
       \/ life[Preferred] # "fresh"
       \/ /\ last = None
          /\ \E w \in Waiters : pc[w] = "sent" /\ carried[w] # None /\ pc'[w] = "recover"]_agentVars

(* A session is taken off the screen and out of the store, which the loops *)
(* and the confirmation do, only if it is lost: either the OP has ended it,*)
(* since a failed renewal is final only if "this session cannot come back  *)
(* from" it (auth.rs, renewal_is_unrecoverable), or nothing is there to    *)
(* renew it with.  Without a refresh token a tick waits until the token is *)
(* spent (auth.rs:856-864, 951-958); the confirmation of a restored session*)
(* ends it from the window on (auth.rs, confirm_restored_session).         *)
EndsOnlyTheLost ==
  [][ctx.user /\ ~ctx'.user /\ Persisted /\ ~Persisted' =>
       \/ grant[store[Preferred].tok.fam] # "live"
       \/ /\ ~store[Preferred].rt
          /\ \/ life[Preferred] = "spent"
             \/ ctx.conf = "unconfirmed" /\ life[Preferred] # "fresh"]_agentVars

(* "One renewal attempt: on success ... every use_resource closure ...     *)
(* re-fetches with the new token on its own": a 401 whose renewal succeeded*)
(* does not end the session (note_agent_unauthorized).                     *)
RenewedSurvives401 ==
  [][\A w \in Waiters :
       (pc[w] = "recover" /\ pc'[w] # "recover" /\ Awaited(w) /\ Result(w) = "ok" /\ Persisted)
         => Persisted']_agentVars

(* "so the two planes stay mutually exclusive within one browser origin".  *)
PlanesExclusive == contact => bearer = None

(* SessionConfirmation::Ended: "The persisted bundle has been cleared"     *)
(* (auth.rs:57); it is not persisted again behind the user's back.         *)
EndedIsCleared == ctx.conf = "ended" /\ ~ctx.user => ~Persisted

(* Where one kind of session is all there is, only its key is ever written,*)
(* every flight renews it, and the bearer is that of its bundle.           *)
OneStore(o) ==
  /\ \A s \in Stores : s # o => store[s] = None
  /\ \A f \in FlightIds : Running(f) => flights[f].at = o
  /\ bearer # None /\ store[o] # None => bearer = store[o].tok

(* A browser where everybody signs in through OIDC and stays in one tenant.*)
OidcBrowser == HasReload /\ SignInStores = {"oidc"} /\ Switchers = {}

(* Every flight a task can still ask about is of one OIDC session, of the  *)
(* one persisted if there is one, and runs only while the bundle persisted *)
(* could be renewed again.                                                 *)
OneSession ==
  /\ \A f \in FlightIds : Known(f) => flights[f].at = "oidc"
  /\ \A f, g \in FlightIds :
       Known(f) /\ Known(g) => flights[f].tok.fam = flights[g].tok.fam
  /\ store["oidc"] # None =>
       \A f \in FlightIds :
         /\ Known(f) => flights[f].tok.fam = store["oidc"].tok.fam
         /\ Running(f) => store["oidc"].rt

(* A flight that still runs can persist nothing.                           *)
Past ==
  \A f \in FlightIds :
    Running(f) => grant[flights[f].tok.fam] # "live" /\ ~Succeeded(flights[f].ans)

(* Nothing of a session is left in this page lifetime.                     *)
Untouched ==
  /\ bearer = None /\ ~pending
  /\ \A f \in FlightIds : ~Known(f)
  /\ \A w \in Waiters : joined[w] = None /\ pc[w] \in {"idle", "mount", "boot"}

(* Why EndedIsCleared, EndsOnlyTheLost and RenewedSurvives401 hold in      *)
(* such a browser: a session that has left the screen has left the store   *)
(* too, and no flight brings it back; until the next one is signed in to,  *)
(* either the page is on its way out or nothing of it is left.             *)
BrowserInv ==
  /\ OutcomeInv
  /\ OneStore("oidc")
  /\ OneSession
  /\ \A w \in StandaloneLoops : pc[w] # "tick"
  /\ ctx.user => ctx.tokens
  /\ ~ctx.user => ~Persisted /\ Past /\ (pending \/ Untouched)

(* The three below are promises to a user who stops reloading in the end.  *)
ReloadsEnd == <>[][~Boot]_agentVars

(* A restored tab is not left on the loading screen (auth.rs, MAPPS-661).  *)
GateIsReleased == ReloadsEnd => (ctx.loading ~> ~ctx.loading)

(* "What must not happen is the session ending with nothing on screen      *)
(* changing" (fetch.rs:782-784).                                           *)
LostSessionLeaves ==
  ReloadsEnd => ((ctx.user /\ bearer = None) ~> (~ctx.user \/ bearer # None))

(* A session the OP has ended is signed out in the end, with no request    *)
(* from any page: the loops see to it, as long as they keep their cadence. *)
DeadGrantSignsOut ==
  ReloadsEnd /\ CadenceFairness =>
    \A fam \in Families :
      (grant[fam] # "live" /\ Persisted /\ store[Preferred].tok.fam = fam)
        ~> ~(Persisted /\ store[Preferred].tok.fam = fam)
=============================================================================
