---------------------------- MODULE TokenRenewal ----------------------------
(***************************************************************************)
(* The single-flight renewal of the agent bearer:                          *)
(*                                                                         *)
(*   src/hooks/fetch.rs         renew_access_token, renew_persisted_session*)
(*   src/modules/oidc/storage.rs  the two persisted bundles                *)
(*   src/modules/oidc/flow.rs     refresh_tokens (the wire exchange)       *)
(*                                                                         *)
(* Any number of tasks (page requests, refresh loops, the mount-time       *)
(* confirmation) call renew_access_token.  A caller joins the flight in    *)
(* the RENEWAL slot or starts one; whichever caller polls the flight to    *)
(* its end writes the rotated bundle, swaps the bearer and clears the      *)
(* slot, all in one poll.  The others learn the outcome later, when the    *)
(* executor gets to them, and by then the slot may hold another flight.    *)
(*                                                                         *)
(* A token stands for one rotation of one session: the access token and    *)
(* the refresh token it came with.  A session (a "family") begins at       *)
(* every sign-in.  The identity provider and the clock are the environment.*)
(***************************************************************************)
EXTENDS Naturals, FiniteSets

CONSTANTS
  Waiters,        (* the tasks that may call renew_access_token            *)
  Families,       (* the sessions that may be signed in to, one each       *)
  FlightIds,      (* names for the flights that can be referred to at once *)
  MaxRotations,   (* bound: rotations the OP performs within one family    *)
  HasReload,      (* TRUE in a browser; a desktop window has no reload     *)
  None

ASSUME RenewalAssumption ==
  /\ MaxRotations \in Nat
  /\ HasReload \in BOOLEAN
  /\ None \notin FlightIds
  /\ None \notin [fam : Families, ver : 0..MaxRotations + 1]
  /\ None \notin [tok : [fam : Families, ver : 0..MaxRotations + 1], rt : BOOLEAN]

(* AUTH_KEY and STANDALONE_KEY, the two bundles of the session store.      *)
Stores == {"oidc", "standalone"}

Token == [fam : Families, ver : 0..MaxRotations + 1]

(* StoredTokens / StandaloneSession: rt tells whether it carries a refresh *)
(* token.  Its expiry is kept in AgentSession.                             *)
Bundle == [tok : Token, rt : BOOLEAN]

(* What the exchange came back with.  "bare" is a success that carries no  *)
(* refresh token; "dead" is an error renewal_is_unrecoverable recognises,  *)
(* "transient" is every other error.                                       *)
Answers == {"ok", "bare", "dead", "transient"}

Flight == [st  : {"idle", "sent", "answered", "done"},
           at  : Stores,
           tok : Token \cup {None},
           ans : Answers \cup {"none"}]

IdleFlight == [st |-> "idle", at |-> "oidc", tok |-> None, ans |-> "none"]

VARIABLES
  store,      (* the session store: a bundle or None under each key        *)
  bearer,     (* ACCESS_TOKEN, the agent bearer                            *)
  slot,       (* RENEWAL: the flight in the slot                           *)
  flights,    (* the shared futures, by flight id                          *)
  joined,     (* the flight each task awaits                               *)
  used,       (* families that exist                                       *)
  cur,        (* OP: version of the refresh token it would accept          *)
  grant,      (* OP: state of the grant                                    *)
  orphans,    (* tokens on the wire whose sender has been reloaded away    *)
  lost,       (* history: families one of whose answers never arrived      *)
  rotated     (* history: tokens the client received a successor for       *)

clientVars == <<store, bearer, slot, flights, joined>>
opVars     == <<cur, grant, orphans>>
renewalVars == <<store, bearer, slot, flights, joined, used,
                 cur, grant, orphans, lost, rotated>>

RenewalTypeOK ==
  /\ store   \in [Stores -> Bundle \cup {None}]
  /\ bearer  \in Token \cup {None}
  /\ slot    \in FlightIds \cup {None}
  /\ flights \in [FlightIds -> Flight]
  /\ joined  \in [Waiters -> FlightIds \cup {None}]
  /\ used    \subseteq Families
  /\ cur     \in [Families -> 0..MaxRotations + 1]
  /\ grant   \in [Families -> {"live", "ended", "reuse"}]
  /\ orphans \subseteq Token
  /\ lost    \subseteq Families
  /\ rotated \subseteq Token

-----------------------------------------------------------------------------
(* Helpers.                                                                *)

(* The bundle a renewal, persisted_expiry and a boot all look at first.    *)
Preferred == IF store["oidc"] # None THEN "oidc" ELSE "standalone"

Persisted == store[Preferred] # None

(* There is a refresh token to present.                                    *)
Refreshable == Persisted /\ store[Preferred].rt

Successor(t) == [t EXCEPT !.ver = @ + 1]

Running(f) == flights[f].st \in {"sent", "answered"}

(* RENEWAL_SEQ hands out an id nobody refers to; ids are recycled here     *)
(* once no task and no slot names them.                                    *)
Unreferenced(f) == slot # f /\ \A w \in Waiters : joined[w] # f
FreshFlight == CHOOSE f \in FlightIds : Unreferenced(f)

Succeeded(ans) == ans \in {"ok", "bare"}

(* The Result<(), String> the callers see.                                 *)
Outcome(f) == IF Succeeded(flights[f].ans) THEN "ok" ELSE flights[f].ans

-----------------------------------------------------------------------------
(* renew_access_token, up to its await.                                    *)

(* A flight is in the slot: await it.  If its answer is in already, this   *)
(* caller's first poll may be the one that finishes it: Join, then Finish. *)
Join(w) ==
  /\ joined[w] = None
  /\ slot # None
  /\ joined' = [joined EXCEPT ![w] = slot]
  /\ UNCHANGED <<store, bearer, slot, flights, used, opVars, lost, rotated>>

(* Mutant of Start: every caller renews on its own.                        *)
StartUnshared(w) ==
  /\ joined[w] = None
  /\ Refreshable
  /\ \E f \in FlightIds : Unreferenced(f)
  /\ slot' = FreshFlight
  /\ joined' = [joined EXCEPT ![w] = FreshFlight]
  /\ flights' = [flights EXCEPT ![FreshFlight] =
                   [st |-> "sent", at |-> Preferred,
                    tok |-> store[Preferred].tok, ans |-> "none"]]
  /\ UNCHANGED <<store, bearer, used, opVars, lost, rotated>>

(* No flight: start one.  Its first poll reads the preferred bundle and    *)
(* puts that bundle's refresh token on the wire.                           *)
Start(w) ==
  /\ joined[w] = None
  /\ slot = None
  /\ Refreshable
  /\ \E f \in FlightIds : Unreferenced(f)
  /\ LET f == FreshFlight IN
       /\ slot' = f
       /\ joined' = [joined EXCEPT ![w] = f]
       /\ flights' = [flights EXCEPT ![f] =
                        [st  |-> "sent", at |-> Preferred,
                         tok |-> store[Preferred].tok, ans |-> "none"]]
  /\ UNCHANGED <<store, bearer, used, opVars, lost, rotated>>

(* No flight and nothing to present: the flight fails in its first poll,   *)
(* and this caller clears it and returns without having waited.            *)
Refused(w) ==
  /\ joined[w] = None
  /\ slot = None
  /\ ~Refreshable
  /\ UNCHANGED renewalVars

(* Mutants of Leave: the caller clears whatever flight the slot holds; the *)
(* caller leaves the finished flight in the slot.                          *)
LeaveClearingAny(w, f) ==
  /\ slot' = None
  /\ joined' = [joined EXCEPT ![w] = None]
  /\ flights' = [flights EXCEPT ![f] =
                   IF \E v \in Waiters \ {w} : joined[v] = f
                   THEN [@ EXCEPT !.st = "done"]
                   ELSE IdleFlight]

LeaveUncleared(w, f) ==
  /\ joined' = [joined EXCEPT ![w] = None]
  /\ flights' = [flights EXCEPT ![f].st = "done"]
  /\ UNCHANGED slot

(* renew_access_token, after its await: a caller clears only its own       *)
(* flight.  The shared future is freed with its last caller.               *)
Leave(w, f) ==
  /\ slot' = IF slot = f THEN None ELSE slot
  /\ joined' = [joined EXCEPT ![w] = None]
  /\ flights' = [flights EXCEPT ![f] =
                   IF \E v \in Waiters \ {w} : joined[v] = f
                   THEN [@ EXCEPT !.st = "done"]
                   ELSE IdleFlight]

(* What a caller may go on to clear in the poll that resumes it: nothing,  *)
(* clear_standalone, or clear_auth (which clears both keys).  Every one of *)
(* them comes with set_access_token(None).                                 *)
Clearings == {{}, {"standalone"}, Stores}

Cleared(st, keys) == [s \in Stores |-> IF s \in keys THEN None ELSE st[s]]
BearerAfter(t, keys) == IF keys = {} THEN t ELSE None

(* Mutants of Finish: the rotated bundle is not persisted; the bearer is   *)
(* not swapped.                                                            *)
FinishUnpersisted(w, keys) ==
  /\ joined[w] # None
  /\ flights[joined[w]].st = "answered"
  /\ LET fl == flights[joined[w]]
         ok == Succeeded(fl.ans)
     IN
       /\ store' = Cleared(store, keys)
       /\ bearer' = BearerAfter(IF ok THEN Successor(fl.tok) ELSE bearer, keys)
       /\ rotated' = IF ok THEN rotated \cup {fl.tok} ELSE rotated
  /\ Leave(w, joined[w])
  /\ UNCHANGED <<used, opVars, lost>>

FinishUnswapped(w, keys) ==
  /\ joined[w] # None
  /\ flights[joined[w]].st = "answered"
  /\ LET fl == flights[joined[w]]
         ok == Succeeded(fl.ans)
     IN
       /\ store' = Cleared(IF ok THEN [store EXCEPT ![fl.at] =
                                        [tok |-> Successor(fl.tok), rt |-> fl.ans = "ok"]]
                                 ELSE store, keys)
       /\ bearer' = BearerAfter(bearer, keys)
       /\ rotated' = IF ok THEN rotated \cup {fl.tok} ELSE rotated
  /\ Leave(w, joined[w])
  /\ UNCHANGED <<used, opVars, lost>>

(* The poll that finishes the flight: the end of renew_persisted_session   *)
(* persists the rotated bundle and swaps the bearer, whatever the store    *)
(* holds by now, and the poll runs on into the caller it belongs to.       *)
Finish(w, keys) ==
  /\ joined[w] # None
  /\ flights[joined[w]].st = "answered"
  /\ LET fl  == flights[joined[w]]
         new == Successor(fl.tok)
         ok  == Succeeded(fl.ans)
     IN
       /\ store' = Cleared(IF ok THEN [store EXCEPT ![fl.at] =
                                        [tok |-> new, rt |-> fl.ans = "ok"]]
                                 ELSE store, keys)
       /\ bearer' = BearerAfter(IF ok THEN new ELSE bearer, keys)
       /\ rotated' = IF ok THEN rotated \cup {fl.tok} ELSE rotated
  /\ Leave(w, joined[w])
  /\ UNCHANGED <<used, opVars, lost>>

(* Mutant of Late: only the flight in the slot wakes its callers.          *)
LateInSlotOnly(w, keys) ==
  /\ joined[w] # None
  /\ slot = joined[w]
  /\ flights[joined[w]].st = "done"
  /\ Leave(w, joined[w])
  /\ store' = Cleared(store, keys)
  /\ bearer' = BearerAfter(bearer, keys)
  /\ UNCHANGED <<used, opVars, lost, rotated>>

(* A caller that did not finish the flight itself, woken afterwards.       *)
Late(w, keys) ==
  /\ joined[w] # None
  /\ flights[joined[w]].st = "done"
  /\ Leave(w, joined[w])
  /\ store' = Cleared(store, keys)
  /\ bearer' = BearerAfter(bearer, keys)
  /\ UNCHANGED <<used, opVars, lost, rotated>>

(* The component that awaited is unmounted and its task dropped.  The slot *)
(* keeps the flight alive, unpolled, until the next caller joins it.       *)
Cancel(w) ==
  /\ joined[w] # None
  /\ LET f == joined[w] IN
       flights' = IF flights[f].st = "done"
                     /\ \A v \in Waiters \ {w} : joined[v] # f
                  THEN [flights EXCEPT ![f] = IdleFlight]
                  ELSE flights
  /\ joined' = [joined EXCEPT ![w] = None]
  /\ UNCHANGED <<store, bearer, slot, used, opVars, lost, rotated>>

-----------------------------------------------------------------------------
(* Sessions come and go.                                                   *)

(* A sign-in or a tenant switch: set_access_token and save_auth or         *)
(* save_standalone.  Neither touches the other key.                        *)
Install(s, fam, rt) ==
  /\ fam \notin used
  /\ used' = used \cup {fam}
  /\ LET t == [fam |-> fam, ver |-> 0] IN
       /\ store' = [store EXCEPT ![s] = [tok |-> t, rt |-> rt]]
       /\ bearer' = t
  /\ UNCHANGED <<slot, flights, joined, opVars, lost, rotated>>

(* Every sign-out path.                                                    *)
Clear(keys) ==
  /\ store' = Cleared(store, keys)
  /\ bearer' = None
  /\ UNCHANGED <<slot, flights, joined, used, opVars, lost, rotated>>

(* A browser reload: memory is gone, the session store survives, and the   *)
(* boot rehydrates the bearer from the preferred bundle.  A request on the *)
(* wire may still reach the OP; an answer on the wire is lost.             *)
Reload ==
  /\ HasReload
  /\ bearer' = IF Persisted THEN store[Preferred].tok ELSE None
  /\ slot' = None
  /\ flights' = [f \in FlightIds |-> IdleFlight]
  /\ joined' = [w \in Waiters |-> None]
  /\ orphans' = orphans \cup {flights[f].tok : f \in {g \in FlightIds : flights[g].st = "sent"}}
  /\ lost' = lost \cup {flights[f].tok.fam : f \in {g \in FlightIds : Running(g)}}
  /\ UNCHANGED <<store, used, cur, grant, rotated>>

-----------------------------------------------------------------------------
(* The identity provider.  Not part of this code: modelled from what       *)
(* fetch.rs, auth.rs and storage.rs say they expect of it.                 *)

Sent(f) == flights[f].st = "sent"

Answer(f, ans) ==
  flights' = [flights EXCEPT ![f].st = "answered", ![f].ans = ans]

(* The token presented is the current one: rotate it.                      *)
OpRotates(f) ==
  /\ Sent(f)
  /\ LET t == flights[f].tok IN
       /\ grant[t.fam] = "live"
       /\ t.ver = cur[t.fam]
       /\ t.ver < MaxRotations
       /\ cur' = [cur EXCEPT ![t.fam] = @ + 1]
       /\ \/ Answer(f, "ok") /\ UNCHANGED lost
          \/ Answer(f, "transient") /\ lost' = lost \cup {t.fam}
  /\ UNCHANGED <<store, bearer, slot, joined, used, grant, orphans, rotated>>

(* A refresh response without a refresh token (OIDC only).                 *)
OpRenewsWithoutRotating(f) ==
  /\ Sent(f)
  /\ flights[f].at = "oidc"
  /\ LET t == flights[f].tok IN
       /\ grant[t.fam] = "live"
       /\ t.ver = cur[t.fam]
  /\ Answer(f, "bare")
  /\ UNCHANGED <<store, bearer, slot, joined, used, opVars, lost, rotated>>

(* A superseded token: reuse detection kills the grant.                    *)
OpDetectsReuse(f) ==
  /\ Sent(f)
  /\ LET t == flights[f].tok IN
       /\ grant[t.fam] = "live"
       /\ t.ver < cur[t.fam]
       /\ grant' = [grant EXCEPT ![t.fam] = "reuse"]
  /\ \E ans \in {"dead", "transient"} : Answer(f, ans)
  /\ UNCHANGED <<store, bearer, slot, joined, used, cur, orphans, lost, rotated>>

(* The grant is dead already: invalid_grant.                               *)
OpRefuses(f) ==
  /\ Sent(f)
  /\ grant[flights[f].tok.fam] # "live"
  /\ Answer(f, "dead")
  /\ UNCHANGED <<store, bearer, slot, joined, used, opVars, lost, rotated>>

(* The request never reached it, or it answered 5xx.                       *)
OpUnreachable(f) ==
  /\ Sent(f)
  /\ Answer(f, "transient")
  /\ UNCHANGED <<store, bearer, slot, joined, used, opVars, lost, rotated>>

(* A request whose page is gone arrives after all.                         *)
OpSeesOrphan(t) ==
  /\ t \in orphans
  /\ orphans' = orphans \ {t}
  /\ \/ /\ grant[t.fam] = "live" /\ t.ver = cur[t.fam] /\ t.ver < MaxRotations
        /\ cur' = [cur EXCEPT ![t.fam] = @ + 1]
        /\ UNCHANGED grant
     \/ /\ grant[t.fam] = "live" /\ t.ver < cur[t.fam]
        /\ grant' = [grant EXCEPT ![t.fam] = "reuse"]
        /\ UNCHANGED cur
     \/ UNCHANGED <<cur, grant>>
  /\ UNCHANGED <<clientVars, used, lost, rotated>>

(* The session is revoked, by a sign-out or elsewhere.                     *)
OpEndsGrant(fam) ==
  /\ fam \in used
  /\ grant[fam] = "live"
  /\ grant' = [grant EXCEPT ![fam] = "ended"]
  /\ UNCHANGED <<clientVars, used, cur, orphans, lost, rotated>>

-----------------------------------------------------------------------------
RenewalInit ==
  /\ store = [s \in Stores |-> None]
  /\ bearer = None
  /\ slot = None
  /\ flights = [f \in FlightIds |-> IdleFlight]
  /\ joined = [w \in Waiters |-> None]
  /\ used = {}
  /\ cur = [fam \in Families |-> 0]
  /\ grant = [fam \in Families |-> "live"]
  /\ orphans = {}
  /\ lost = {}
  /\ rotated = {}

Call(w) == Join(w) \/ Start(w) \/ Refused(w)
Resume(w, keys) == Finish(w, keys) \/ Late(w, keys)

OpAnswers(f) ==
  \/ OpRotates(f)
  \/ OpRenewsWithoutRotating(f)
  \/ OpDetectsReuse(f)
  \/ OpRefuses(f)
  \/ OpUnreachable(f)

RenewalNext ==
  \/ \E w \in Waiters : Call(w) \/ Cancel(w)
  \/ \E w \in Waiters, keys \in Clearings : Resume(w, keys)
  \/ \E s \in Stores, fam \in Families, rt \in BOOLEAN : Install(s, fam, rt)
  \/ \E keys \in Clearings \ {{}} : Clear(keys)
  \/ Reload
  \/ \E f \in FlightIds : OpAnswers(f)
  \/ \E t \in Token : OpSeesOrphan(t)
  \/ \E fam \in Families : OpEndsGrant(fam)

RenewalSpec == RenewalInit /\ [][RenewalNext]_renewalVars

-----------------------------------------------------------------------------
(* Properties.                                                             *)

(* Concurrent callers never have two exchanges outstanding, and none is    *)
(* outstanding outside the slot, where a new caller could not join it      *)
(* (fetch.rs:516-519).                                                     *)
SingleFlight ==
  \A f \in FlightIds : Running(f) => slot = f

(* The OP's reuse detection fires on this client only when an answer was   *)
(* lost on the way (fetch.rs:516-519: "the OP's reuse detection would read *)
(* as a replay and answer by killing the whole grant chain").              *)
KilledOnlyAfterLoss ==
  \A fam \in Families : grant[fam] = "reuse" => fam \in lost

(* Why the properties hold: the inductive invariant.                       *)

(* A flight in the slot is running: whoever finishes it clears the slot in *)
(* the same poll.                                                          *)
SlotHoldsRunning == slot # None => Running(slot)

RunningHasToken ==
  \A f \in FlightIds :
    Running(f) =>
      /\ flights[f].tok \in Token
      /\ flights[f].tok.ver <= MaxRotations
      /\ flights[f].st = "sent" => flights[f].ans = "none"
      /\ flights[f].ans = "ok" => flights[f].tok.ver < MaxRotations

(* Nothing refers to a session nobody has signed in to yet.                *)
UnusedIsUntouched ==
  \A fam \in Families \ used :
    /\ cur[fam] = 0
    /\ \A s \in Stores : store[s] # None => store[s].tok.fam # fam
    /\ \A f \in FlightIds : Running(f) => flights[f].tok.fam # fam
    /\ \A t \in orphans \cup rotated : t.fam # fam

(* A session is persisted under one key, and a flight writes back there.   *)
OneHomePerFamily ==
  /\ \A s1, s2 \in Stores :
       (store[s1] # None /\ store[s2] # None /\ store[s1].tok.fam = store[s2].tok.fam)
         => s1 = s2
  /\ \A s \in Stores, f \in FlightIds :
       (store[s] # None /\ Running(f) /\ store[s].tok.fam = flights[f].tok.fam)
         => s = flights[f].at

(* The persisted token and the one on the wire are newer than every token  *)
(* of their session that has been rotated away.                            *)
Newest(t) == \A r \in rotated : r.fam = t.fam => r.ver < t.ver
StoredIsNewest ==
  /\ \A s \in Stores : store[s] # None => Newest(store[s].tok)
  /\ \A s \in Stores : store[s] # None /\ store[s].rt => store[s].tok.ver <= MaxRotations
PresentedIsNewest == \A f \in FlightIds : Running(f) => Newest(flights[f].tok)

(* Until an answer is lost, the client and the OP agree on the version.    *)
InStep ==
  /\ \A t \in orphans : t.fam \in lost
  /\ \A f \in FlightIds :
       (Running(f) /\ flights[f].tok.fam \notin lost) =>
         cur[flights[f].tok.fam] =
           IF flights[f].ans = "ok" THEN flights[f].tok.ver + 1 ELSE flights[f].tok.ver
  /\ \A s \in Stores :
       (store[s] # None /\ store[s].rt /\ store[s].tok.fam \notin lost) =>
         \/ store[s].tok.ver = cur[store[s].tok.fam]
         \/ \E f \in FlightIds : /\ Running(f)
                                 /\ flights[f].ans = "ok"
                                 /\ flights[f].tok.fam = store[s].tok.fam

RenewalInv ==
  /\ RenewalTypeOK
  /\ SingleFlight
  /\ SlotHoldsRunning
  /\ RunningHasToken
  /\ UnusedIsUntouched
  /\ OneHomePerFamily
  /\ StoredIsNewest
  /\ PresentedIsNewest
  /\ InStep
  /\ KilledOnlyAfterLoss

(* What became of a flight can be asked as long as anyone refers to it.    *)
Known(f) == flights[f].st # "idle"

KnownHasToken == \A f \in FlightIds : Known(f) => flights[f].tok \in Token

(* The shared future outlives its callers: a task that awaits a flight     *)
(* never finds it freed, whichever other callers left, were woken first or *)
(* were dropped (fetch.rs:628-648).                                        *)
NobodyWaitsInVain == \A w \in Waiters : joined[w] # None => Known(joined[w])

(* An unrecoverable answer is final: its grant is over, and no flight of   *)
(* that session still running brings home another token                    *)
(* (auth.rs, renewal_is_unrecoverable).                                    *)
RefusedIsOver ==
  \A f \in FlightIds :
    Known(f) /\ flights[f].ans = "dead" =>
      /\ grant[flights[f].tok.fam] # "live"
      /\ \A g \in FlightIds :
           Running(g) /\ flights[g].tok.fam = flights[f].tok.fam => ~Succeeded(flights[g].ans)

OutcomeInv == KnownHasToken /\ NobodyWaitsInVain /\ RefusedIsOver

(* The client implements RefreshGrant: one exchange at a time, and never a *)
(* token whose successor it has received.                                  *)
Exchanging == {f \in FlightIds : Running(f)}
Grant == INSTANCE RefreshGrant WITH
           out <- IF Exchanging = {} THEN None
                  ELSE flights[CHOOSE f \in Exchanging : TRUE].tok
ImplementsGrant == Grant!Spec

(* Every task that awaits a renewal hears its outcome (or is dropped).     *)
EveryCallerHears ==
  \A w \in Waiters : joined[w] # None ~> joined[w] = None
=============================================================================
