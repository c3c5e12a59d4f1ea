------------------------ MODULE AgentSession_proofs ------------------------
(***************************************************************************)
(* Theorems about AgentSession, for every set of tasks, every number of    *)
(* sessions and rotations, and both platforms. First: every step of a task *)
(* is a step of TokenRenewal or leaves it alone, so that what is proved of *)
(* TokenRenewal holds of the whole session. Then: AgentInv, which is       *)
(* inductive given RenewalInv.  Then OneStore, where sessions are of one   *)
(* kind only, and RenewsOnlyWhenDue.  Last: BrowserInv, which is inductive *)
(* in a browser where all sign in through OIDC, and what it means for how  *)
(* sessions end there.                                                     *)
(***************************************************************************)
EXTENDS AgentSession, TokenRenewal_proofs

(* What a step of AgentSession is, seen from TokenRenewal.                 *)
RenewalStep == RenewalNext \/ UNCHANGED renewalVars

(* Waiting for a renewal is a call of renew_access_token.                  *)
LEMMA AwaitIsRenewalStep ==
  ASSUME NEW w \in Waiters, NEW l, Await(w, l)
  PROVE  RenewalStep
BY DEF Await, RenewalStep, RenewalNext, Call

(* So is asking for one when there is nothing to present.                  *)
LEMMA RefusedIsRenewalStep ==
  ASSUME NEW w \in Waiters, RefusedNow(w)
  PROVE  RenewalStep
BY DEF RefusedNow, RenewalStep, RenewalNext, Call

(* Being woken by one is its return.                                       *)
LEMMA HearIsRenewalStep ==
  ASSUME NEW w \in Waiters, NEW keys \in Clearings, Hear(w, keys)
  PROVE  RenewalStep
BY DEF Hear, RenewalStep, RenewalNext

(* Every sign-out path clears what TokenRenewal lets it clear.             *)
LEMMA ClearIsRenewalStep ==
  ASSUME NEW keys \in Clearings \ {{}}, Clear(keys)
  PROVE  RenewalStep
BY DEF RenewalStep, RenewalNext

(* What the paths clear is clear_auth or clear_standalone.                 *)
LEMMA KeysAreClearings ==
  /\ {} \in Clearings
  /\ Stores \in Clearings \ {{}}
  /\ KeysOf("oidc") \in Clearings \ {{}} /\ KeysOf("standalone") \in Clearings \ {{}}
  /\ KeysOf(Preferred) \in Clearings \ {{}}
  /\ \A w, ends : KeysAfter401(w, ends) \in Clearings
BY DEF Clearings, Stores, KeysOf, KeysAfter401, Preferred

(* ensure_fresh_access_token calls renew_access_token or does nothing.     *)
LEMMA EnsureIsRenewalStep ==
  ASSUME NEW w \in Waiters, NEW l, EnsureThenSend(w, l)
  PROVE  RenewalStep
BY AwaitIsRenewalStep, RefusedIsRenewalStep DEF EnsureThenSend, RenewalStep

(* Every step, action by action.                                           *)
LEMMA AgentStepIsRenewalStep ==
  ASSUME RenewalInv, [AgentNext]_agentVars
  PROVE  RenewalStep
<1> USE KeysAreClearings
<1>1. CASE UNCHANGED agentVars
  BY <1>1 DEF agentVars, RenewalStep
<1>2. ASSUME NEW w \in Waiters, Continue(w) PROVE RenewalStep
  BY <1>2, EnsureIsRenewalStep, AwaitIsRenewalStep, ClearIsRenewalStep
  DEF Continue, SecondEnsure, BeginTyped, Confirm, RenewalStep
<1>3. ASSUME NEW w \in Waiters, NEW s \in {"oidc", "standalone"}, Tick(w, s) PROVE RenewalStep
  BY <1>3, AwaitIsRenewalStep, ClearIsRenewalStep DEF Tick
<1>4. ASSUME NEW w \in Waiters, Begin(w) PROVE RenewalStep
  BY <1>3, <1>4, EnsureIsRenewalStep
  DEF Begin, BeginRequest, BeginTyped, OidcTick, StandaloneTick, SignOutWithoutBearer, RenewalStep
<1>5. ASSUME NEW w \in Waiters, Wake(w) PROVE RenewalStep
  <2>1. CASE AfterFirst(w) \/ AfterSecond(w) \/ AfterSingle(w) \/ AfterRecover(w)
    BY <2>1, HearIsRenewalStep DEF AfterFirst, AfterSecond, AfterSingle, AfterRecover
  <2>2. CASE AfterTick(w)
    BY <2>2, HearIsRenewalStep DEF AfterTick, Honoured, Dead, Blip
  <2>3. CASE AfterConfirm(w)
    <3>1. flights[joined[w]].at \in Stores
      BY <2>3, FlightFields DEF AfterConfirm, Awaited, RenewalInv, RenewalTypeOK
    <3>2. KeysOf(flights[joined[w]].at) \in Clearings
      BY <3>1 DEF Stores
    <3>. QED BY <2>3, <3>2, HearIsRenewalStep DEF AfterConfirm, Honoured, Dead, Blip
  <2>. QED BY <1>5, <2>1, <2>2, <2>3 DEF Wake
<1>6. ASSUME NEW w \in Waiters, Answered(w) PROVE RenewalStep
  <2>1. ASSUME NEW keys \in Clearings, IF keys = {} THEN UNCHANGED renewalVars ELSE Clear(keys)
        PROVE  RenewalStep
    BY <2>1, ClearIsRenewalStep DEF RenewalStep
  <2>. QED
    BY <1>6, <2>1, AwaitIsRenewalStep, ClearIsRenewalStep
    DEF Answered, Accepted, Failed, Rejected401, Recover, RenewalStep
<1>7. ASSUME NEW w \in Waiters, SignOutClears(w) \/ Unmount(w) PROVE RenewalStep
  BY <1>7, ClearIsRenewalStep DEF SignOutClears, Unmount, RenewalStep, RenewalNext
<1>8. ASSUME NEW s \in Stores, NEW fam \in Families, NEW rt \in BOOLEAN,
             SignIn(s, fam, rt) \/ \E w \in Waiters : Switched(w, fam, rt)
      PROVE  RenewalStep
  BY <1>8 DEF SignIn, Switched, SignedInWith, RenewalStep, RenewalNext, Stores
<1>9. CASE ContactSignIn \/ Boot
  BY <1>9, ClearIsRenewalStep DEF ContactSignIn, Boot, RenewalStep, RenewalNext
<1>10. CASE Watch \/ DebounceElapses \/ \E s \in Stores : Age(s)
  BY <1>10 DEF Watch, DebounceElapses, Age, RenewalStep
<1>11. CASE OpStep
  BY <1>11 DEF OpStep, RenewalStep, RenewalNext
<1>. QED
  BY <1>1, <1>2, <1>4, <1>5, <1>6, <1>7, <1>8, <1>9, <1>10, <1>11
  DEF AgentNext, Others, Stores

(* The renewal layer's inductive invariant holds throughout the session,   *)
(* for any mix of page requests, loops, sign-ins, sign-outs, switches and  *)
(* reloads.                                                                *)
THEOREM AgentKeepsRenewalInv == AgentSpec => []RenewalInv
<1>1. AgentInit => RenewalInv
  BY InitInv DEF AgentInit
<1>2. RenewalInv /\ [AgentNext]_agentVars => RenewalInv'
  BY AgentStepIsRenewalStep, StepInv DEF RenewalStep
<1>. QED BY <1>1, <1>2, PTL DEF AgentSpec

(* Whatever the tasks of the session do to the renewal layer is something  *)
(* TokenRenewal allows (ImplementsRenewal).                                *)
THEOREM AgentImplementsRenewal == AgentSpec => ImplementsRenewal
<1>1. AgentInit => RenewalInit
  BY DEF AgentInit
<1>2. RenewalInv /\ [AgentNext]_agentVars => [RenewalNext]_renewalVars
  BY AgentStepIsRenewalStep DEF RenewalStep
<1>. QED
  BY <1>1, <1>2, AgentKeepsRenewalInv, PTL DEF AgentSpec, ImplementsRenewal, RenewalSpec

(* The whole client never trips the OP's reuse detection unless an answer  *)
(* was lost on the way (fetch.rs:515-519).                                 *)
THEOREM AgentNeverReplays == AgentSpec => []KilledOnlyAfterLoss
BY AgentImplementsRenewal, RenewalNeverReplays, PTL DEF ImplementsRenewal

(* The whole client keeps the contract of RefreshGrant: one exchange at a  *)
(* time, never a token it holds the successor of.                          *)
THEOREM AgentImplementsGrant == AgentSpec => ImplementsGrant
BY AgentImplementsRenewal, RenewalImplementsGrant, PTL DEF ImplementsRenewal

-----------------------------------------------------------------------------
(* The properties of the session that hold on every platform, and one that *)
(* holds wherever contacts do not sign in on the agents' origin.           *)
(* RenewalInv is needed with it: a bearer on screen survives a renewal     *)
(* only because the flight carries a token.                                *)
AgentInv ==
  /\ AgentTypeOK
  /\ GateHolds
  /\ ConfirmedIsHonoured
  /\ HasContactPlane \/ ShownIsBacked

(* The session of the bearer.                                              *)
LEMMA FamOfType == bearer \in Token \cup {None} => FamOf(bearer) \in Families \cup {None}
BY SMT DEF FamOf, Token

(* LifeAfter keeps the type of life.                                       *)
LEMMA LifeType ==
  ASSUME AgentTypeOK, NEW written, LifeAfter(written)
  PROVE  life' \in [Stores -> {"fresh", "window", "spent"}]
BY DEF AgentTypeOK, LifeAfter

(* What a task hears from a renewal: a success is remembered as such, and  *)
(* the bearer survives if the task clears nothing.                         *)
LEMMA HearFacts ==
  ASSUME NEW w \in Waiters, NEW keys \in Clearings, AgentTypeOK, RenewalInv, Hear(w, keys)
  PROVE  /\ life' \in [Stores -> {"fresh", "window", "spent"}]
         /\ last' \in [ok : BOOLEAN, fam : Families \cup {None}] \cup {None}
         /\ heard' \in {"something", "yes"}
         /\ Result(w) = "ok" => heard' = "yes"
         /\ heard = "yes" => heard' = "yes"
         /\ contact' = contact
         /\ keys = {} /\ bearer # None => bearer' # None
<1>1. PICK f \in FlightIds : f = joined[w] /\ flights[f] \in Flight
  BY DEF Hear, Awaited, RenewalInv, RenewalTypeOK
<1>2. life' \in [Stores -> {"fresh", "window", "spent"}]
  BY LifeType DEF Hear
<1>3. last' \in [ok : BOOLEAN, fam : Families \cup {None}] \cup {None}
  <2>1. CASE slot = f
    <3>1. flights[f].tok \in Token
      BY <1>1, <2>1, RenewalAssumption DEF RenewalInv, SlotHoldsRunning, RunningHasToken
    <3>2. flights[f].tok.fam \in Families
      BY <3>1, SMT DEF Token
    <3>3. last' = [ok |-> Succeeded(flights[f].ans), fam |-> flights[f].tok.fam]
      BY <1>1, <2>1 DEF Hear
    <3>4. Succeeded(flights[f].ans) \in BOOLEAN
      BY DEF Succeeded
    <3>. QED BY <3>2, <3>3, <3>4
  <2>2. CASE slot # f
    BY <1>1, <2>2 DEF Hear, AgentTypeOK
  <2>. QED BY <2>1, <2>2
<1>4. /\ heard' \in {"something", "yes"}
      /\ heard = "yes" => heard' = "yes"
      /\ Succeeded(flights[f].ans) => heard' = "yes"
  BY <1>1 DEF Hear, Hearing, AgentTypeOK
<1>5. Result(w) = "ok" => Succeeded(flights[f].ans)
  BY <1>1 DEF Result, Outcome, Succeeded
<1>6. keys = {} /\ bearer # None => bearer' # None
  <2>1. CASE Late(w, keys)
    BY <2>1 DEF Late, BearerAfter
  <2>2. CASE Finish(w, keys)
    <3>1. flights[f].tok \in Token
      BY <1>1, <2>2 DEF Finish, RenewalInv, Running, RunningHasToken
    <3>2. Succeeded(flights[f].ans) /\ flights[f].ans = "ok" => flights[f].tok.ver < MaxRotations
      BY <1>1, <2>2 DEF Finish, RenewalInv, Running, RunningHasToken
    <3>3. flights[f].tok.ver <= MaxRotations
      BY <1>1, <2>2 DEF Finish, RenewalInv, Running, RunningHasToken
    <3>4. Successor(flights[f].tok) \in Token
      BY <3>1, <3>3, RenewalAssumption, SMT DEF Successor, Token
    <3>. QED BY <1>1, <2>2, <3>4, RenewalAssumption DEF Finish, BearerAfter, Token
  <2>. QED BY <2>1, <2>2 DEF Hear, Resume
<1>. QED BY <1>1, <1>2, <1>3, <1>4, <1>5, <1>6 DEF Hear

(* Waiting changes nothing but the task itself and the flight.             *)
LEMMA AwaitFacts ==
  ASSUME NEW w \in Waiters, NEW l, Await(w, l)
  PROVE  bearer' = bearer /\ UNCHANGED <<life, last, ctx, contact, pending, heard>> /\ Goto(w, l)
BY DEF Await, Join, Start

(* The way to a request: nothing on screen changes.                        *)
LEMMA EnsureInv ==
  ASSUME NEW w \in Waiters, NEW l \in {"first", "second", "single"}, RenewalInv, AgentInv, EnsureThenSend(w, l)
  PROVE  AgentInv'
<1>1. FamOf(bearer) \in Families \cup {None}
  BY FamOfType DEF RenewalInv, RenewalTypeOK
<1>2. bearer' = bearer /\ UNCHANGED <<life, ctx, contact, pending, heard>>
  BY AwaitFacts DEF EnsureThenSend, RefusedNow, Refused, renewalVars
<1>3. last' \in [ok : BOOLEAN, fam : Families \cup {None}] \cup {None}
  <2>1. [ok |-> FALSE, fam |-> FamOf(bearer)] \in [ok : BOOLEAN, fam : Families \cup {None}]
    BY <1>1
  <2>2. last' = last \/ last' = [ok |-> FALSE, fam |-> FamOf(bearer)]
    BY AwaitFacts DEF EnsureThenSend, RefusedNow
  <2>. QED BY <2>1, <2>2, Zenon DEF AgentInv, AgentTypeOK
<1>4. pc' \in [Waiters -> Labels] /\ carried' \in [Waiters -> Families \cup {None}]
  BY <1>1, AwaitFacts DEF EnsureThenSend, Send, Goto, Labels, AgentInv, AgentTypeOK
<1>. QED BY <1>2, <1>3, <1>4 DEF AgentInv, AgentTypeOK, GateHolds, ConfirmedIsHonoured, ShownIsBacked

(* The contexts the code builds are contexts, and keep their user.         *)
LEMMA ContextFacts ==
  ASSUME AgentTypeOK
  PROVE  /\ EndedCtx \in Context /\ EndedCtx.user = FALSE
         /\ MarkConfirmed(ctx) \in Context /\ MarkConfirmed(ctx).user = ctx.user
         /\ \A b \in BOOLEAN : [ctx EXCEPT !.loading = b] \in Context
         /\ \A b \in BOOLEAN : [MarkConfirmed(ctx) EXCEPT !.tokens = b] \in Context
         /\ \A b \in BOOLEAN : [MarkConfirmed(ctx) EXCEPT !.tokens = b].user = ctx.user
         /\ \A b \in BOOLEAN : [ctx EXCEPT !.loading = b].user = ctx.user
         /\ \A b \in BOOLEAN : [ctx EXCEPT !.loading = b].conf = ctx.conf
<1>1. ctx \in Context
  BY DEF AgentTypeOK
<1>2. NobodyIn \in Context /\ NobodyIn.user = FALSE
  BY DEF NobodyIn, Context
<1>3. EndedCtx \in Context /\ EndedCtx.user = FALSE
  <2>1. ASSUME NEW c \in Context
        PROVE  [c EXCEPT !.conf = "ended"] \in Context /\ [c EXCEPT !.conf = "ended"].user = c.user
    BY SMT DEF Context
  <2>. QED BY <1>2, <2>1 DEF EndedCtx
<1>4. ASSUME NEW c \in Context, NEW b \in BOOLEAN
      PROVE  /\ [c EXCEPT !.loading = b] \in Context
             /\ [c EXCEPT !.tokens = b] \in Context
             /\ [c EXCEPT !.conf = "confirmed"] \in Context
             /\ [c EXCEPT !.loading = b].user = c.user
             /\ [c EXCEPT !.loading = b].conf = c.conf
             /\ [c EXCEPT !.tokens = b].user = c.user
             /\ [c EXCEPT !.conf = "confirmed"].user = c.user
  BY SMT DEF Context
<1>5. MarkConfirmed(ctx) = [[ctx EXCEPT !.conf = "confirmed"] EXCEPT !.loading = FALSE]
  BY DEF MarkConfirmed
<1>6. MarkConfirmed(ctx) \in Context /\ MarkConfirmed(ctx).user = ctx.user
  BY <1>1, <1>4, <1>5
<1>. QED BY <1>1, <1>3, <1>4, <1>6

(* A request that waited goes on: its renewal leaves a bearer a bearer.    *)
LEMMA ResumedInv ==
  ASSUME NEW w \in Waiters, RenewalInv, RenewalInv', AgentInv,
         AfterFirst(w) \/ AfterSecond(w) \/ AfterSingle(w)
  PROVE  AgentInv'
<1>1. Hear(w, {}) /\ UNCHANGED <<ctx, pending>>
  BY DEF AfterFirst, AfterSecond, AfterSingle
<1>2. /\ life' \in [Stores -> {"fresh", "window", "spent"}]
      /\ last' \in [ok : BOOLEAN, fam : Families \cup {None}] \cup {None}
      /\ heard' \in {"something", "yes"}
      /\ heard = "yes" => heard' = "yes"
      /\ contact' = contact
      /\ bearer # None => bearer' # None
  BY <1>1, HearFacts DEF Clearings, AgentInv
<1>3. bearer' \in Token \cup {None}
  BY DEF RenewalInv, RenewalTypeOK
<1>4. FamOf(bearer') \in Families \cup {None} /\ (bearer' # None => bearer'.fam \in Families)
  BY <1>3, SMT DEF FamOf, Token
<1>5. carried' \in [Waiters -> Families \cup {None}]
  BY <1>4 DEF AfterFirst, AfterSecond, AfterSingle, AgentInv, AgentTypeOK
<1>6. pc' \in [Waiters -> Labels]
  BY DEF AfterFirst, AfterSecond, AfterSingle, Goto, Labels, AgentInv, AgentTypeOK
<1>. QED
  BY <1>1, <1>2, <1>5, <1>6
  DEF AgentInv, AgentTypeOK, GateHolds, ConfirmedIsHonoured, ShownIsBacked

(* After a 401 the bearer is gone only if the user is on the way out.      *)
LEMMA After401Inv ==
  ASSUME NEW w \in Waiters, NEW ends \in BOOLEAN, AgentInv,
         After401(w, ends),
         life' \in [Stores -> {"fresh", "window", "spent"}],
         last' \in [ok : BOOLEAN, fam : Families \cup {None}] \cup {None},
         heard' \in {"something", "yes"},
         heard = "yes" => heard' = "yes",
         contact' = contact,
         KeysAfter401(w, ends) = {} /\ bearer # None => bearer' # None
  PROVE  AgentInv'
<1>1. pc' \in [Waiters -> Labels] /\ carried' \in [Waiters -> Families \cup {None}]
  BY DEF After401, Return, Goto, Labels, AgentInv, AgentTypeOK
<1>2. /\ ctx' = IF ClearsAfter401(w) THEN EndedCtx ELSE ctx
      /\ pending' = (pending \/ ends)
  BY DEF After401
<1>3. ctx' \in Context /\ pending' \in BOOLEAN
  BY <1>2, ContextFacts DEF AgentInv, AgentTypeOK
<1>4. GateHolds' /\ ConfirmedIsHonoured'
  BY <1>2, ContextFacts DEF AgentInv, GateHolds, ConfirmedIsHonoured
<1>5. ShownIsBacked => ShownIsBacked'
  BY <1>2, ContextFacts DEF AgentInv, ShownIsBacked, KeysAfter401, Stores
<1>. QED BY <1>1, <1>3, <1>4, <1>5 DEF AgentInv, AgentTypeOK

(* The renewal a 401 asked for, answered.                                  *)
LEMMA AfterRecoverInv ==
  ASSUME NEW w \in Waiters, RenewalInv, AgentInv, AfterRecover(w)
  PROVE  AgentInv'
<1>1. PICK ends \in BOOLEAN : Hear(w, KeysAfter401(w, ends)) /\ After401(w, ends)
  BY DEF AfterRecover
<1>2. KeysAfter401(w, ends) \in Clearings
  BY DEF KeysAfter401, Clearings, Stores
<1>. QED BY <1>1, <1>2, HearFacts, After401Inv DEF AgentInv

(* A confirmed session was honoured just now.                              *)
LEMMA HonouredInv ==
  ASSUME NEW w \in Waiters, NEW mirrors, NEW l \in {"me", "idle"},
         RenewalInv, AgentInv, Honoured(w, mirrors, l)
  PROVE  AgentInv'
<1>1. Hear(w, {}) /\ Result(w) = "ok" /\ UNCHANGED <<carried, pending>> /\ Goto(w, l)
  BY DEF Honoured
<1>2. PICK b \in BOOLEAN : ctx' = [MarkConfirmed(ctx) EXCEPT !.tokens = b]
  <2>1. MarkConfirmed(ctx).tokens \in BOOLEAN
    BY ContextFacts, SMT DEF Context, AgentInv
  <2>. QED BY <2>1 DEF Honoured
<1>3. /\ life' \in [Stores -> {"fresh", "window", "spent"}]
      /\ last' \in [ok : BOOLEAN, fam : Families \cup {None}] \cup {None}
      /\ heard' = "yes"
      /\ contact' = contact
      /\ bearer # None => bearer' # None
  BY <1>1, HearFacts DEF Clearings, AgentInv
<1>4. ctx' \in Context /\ ctx'.user = ctx.user
  BY <1>2, ContextFacts DEF AgentInv
<1>5. pc' \in [Waiters -> Labels]
  BY <1>1 DEF Goto, Labels, AgentInv, AgentTypeOK
<1>. QED
  BY <1>1, <1>3, <1>4, <1>5
  DEF AgentInv, AgentTypeOK, GateHolds, ConfirmedIsHonoured, ShownIsBacked

(* A session ended by a loop is not on screen.                             *)
LEMMA EndedInv ==
  ASSUME AgentInv, EndedByLoop,
         pc' \in [Waiters -> Labels], carried' = carried,
         life' \in [Stores -> {"fresh", "window", "spent"}],
         last' \in [ok : BOOLEAN, fam : Families \cup {None}] \cup {None},
         heard' \in {"nothing", "something", "yes"},
         contact' = contact
  PROVE  AgentInv'
<1>1. ctx' = EndedCtx /\ ctx' \in Context /\ ctx'.user = FALSE
  BY ContextFacts DEF EndedByLoop, AgentInv
<1>2. pending' \in BOOLEAN
  BY RenewalAssumption DEF EndedByLoop, AgentInv, AgentTypeOK
<1>. QED BY <1>1, <1>2 DEF AgentInv, AgentTypeOK, GateHolds, ConfirmedIsHonoured, ShownIsBacked

(* An unrecoverable answer to a loop or to the confirmation.               *)
LEMMA DeadInv ==
  ASSUME NEW w \in Waiters, NEW s \in Stores, RenewalInv, AgentInv, Dead(w, s)
  PROVE  AgentInv'
<1>1. KeysOf(s) \in Clearings
  BY DEF KeysOf, Clearings, Stores
<1>2. pc' \in [Waiters -> Labels]
  BY DEF Dead, Goto, Labels, AgentInv, AgentTypeOK
<1>. QED BY <1>1, <1>2, HearFacts, EndedInv DEF Dead, AgentInv

(* Any other failure keeps what is on screen; the gate opens only after an *)
(* answer was heard.                                                       *)
LEMMA BlipInv ==
  ASSUME NEW w \in Waiters, NEW releases \in BOOLEAN, RenewalInv, AgentInv, Blip(w, releases)
  PROVE  AgentInv'
<1>1. Hear(w, {}) /\ UNCHANGED <<carried, pending>> /\ Goto(w, "idle")
  BY DEF Blip
<1>2. PICK b \in BOOLEAN : ctx' = [ctx EXCEPT !.loading = b]
  BY DEF Blip
<1>3. /\ life' \in [Stores -> {"fresh", "window", "spent"}]
      /\ last' \in [ok : BOOLEAN, fam : Families \cup {None}] \cup {None}
      /\ heard' \in {"something", "yes"}
      /\ heard = "yes" => heard' = "yes"
      /\ contact' = contact
      /\ bearer # None => bearer' # None
  BY <1>1, HearFacts DEF Clearings, AgentInv
<1>4. ctx' \in Context /\ ctx'.user = ctx.user /\ ctx'.conf = ctx.conf
  BY <1>2, ContextFacts DEF AgentInv
<1>5. pc' \in [Waiters -> Labels]
  BY <1>1 DEF Goto, Labels, AgentInv, AgentTypeOK
<1>. QED
  BY <1>1, <1>3, <1>4, <1>5
  DEF AgentInv, AgentTypeOK, GateHolds, ConfirmedIsHonoured, ShownIsBacked

(* The confirmation at mount, up to its wait.                              *)
LEMMA ConfirmInv ==
  ASSUME NEW w \in Waiters, RenewalInv, AgentInv, Confirm(w)
  PROVE  AgentInv'
<1>1. \A l \in Labels : Goto(w, l) => pc' \in [Waiters -> Labels]
  BY DEF Goto, AgentInv, AgentTypeOK
<1>2. "idle" \in Labels /\ "confirm" \in Labels
  BY DEF Labels
<1>3. CASE /\ Goto(w, "idle")
           /\ UNCHANGED <<renewalVars, carried, life, last, ctx, contact, pending, heard>>
  BY <1>1, <1>2, <1>3
  DEF renewalVars, AgentInv, AgentTypeOK, GateHolds, ConfirmedIsHonoured, ShownIsBacked
<1>4. CASE Await(w, "confirm") /\ UNCHANGED carried
  BY <1>1, <1>2, <1>4, AwaitFacts
  DEF AgentInv, AgentTypeOK, GateHolds, ConfirmedIsHonoured, ShownIsBacked
<1>5. CASE /\ last' = [ok |-> FALSE, fam |-> FamOf(bearer)]
           /\ EndedByLoop /\ Goto(w, "idle") /\ LifeAfter({}) /\ Hearing("something")
           /\ UNCHANGED <<carried, contact>>
  <2>1. last' \in [ok : BOOLEAN, fam : Families \cup {None}]
    <3>1. FamOf(bearer) \in Families \cup {None}
      BY FamOfType DEF RenewalInv, RenewalTypeOK
    <3>. QED BY <1>5, <3>1
  <2>2. heard' \in {"nothing", "something", "yes"}
    BY <1>5 DEF Hearing, AgentInv, AgentTypeOK
  <2>. QED BY <1>1, <1>2, <1>5, <2>1, <2>2, LifeType, EndedInv DEF AgentInv
<1>. QED BY <1>3, <1>4, <1>5 DEF Confirm

(* A tick of a loop, up to its wait.                                       *)
LEMMA TickInv ==
  ASSUME NEW w \in Waiters, NEW s \in Stores, RenewalInv, AgentInv, Tick(w, s)
  PROVE  AgentInv'
<1>1. CASE Await(w, "tick") /\ UNCHANGED carried
  BY <1>1, AwaitFacts
  DEF Goto, Labels, AgentInv, AgentTypeOK, GateHolds, ConfirmedIsHonoured, ShownIsBacked
<1>2. CASE EndedByLoop /\ LifeAfter({}) /\ UNCHANGED <<pc, carried, last, contact, heard>>
  BY <1>2, LifeType, EndedInv DEF AgentInv, AgentTypeOK
<1>. QED BY <1>1, <1>2 DEF Tick

(* An answer to a request.                                                 *)
LEMMA AnsweredInv ==
  ASSUME NEW w \in Waiters, RenewalInv, AgentInv, Answered(w)
  PROVE  AgentInv'
<1>1. pc' \in [Waiters -> Labels] /\ carried' \in [Waiters -> Families \cup {None}]
  BY AwaitFacts
  DEF Answered, Accepted, Failed, Rejected401, Recover, After401, Return, Goto, Labels,
      AgentInv, AgentTypeOK
<1>2. CASE Accepted(w)
  <2>1. /\ UNCHANGED <<renewalVars, life, last, contact, pending>>
        /\ (ctx' = ctx /\ heard' = heard) \/ (ctx' = MarkConfirmed(ctx) /\ heard' = "yes")
    BY <1>2 DEF Accepted, Hearing
  <2>2. ctx' \in Context /\ ctx'.user = ctx.user
    BY <2>1, ContextFacts DEF AgentInv, AgentTypeOK
  <2>. QED
    BY <1>1, <2>1, <2>2
    DEF renewalVars, AgentInv, AgentTypeOK, GateHolds, ConfirmedIsHonoured, ShownIsBacked
<1>3. CASE Failed(w)
  <2>1. /\ UNCHANGED <<renewalVars, life, last, contact, pending>>
        /\ \/ ctx' = ctx /\ heard' = heard
           \/ /\ ctx' = [ctx EXCEPT !.loading = FALSE]
              /\ heard' \in {"something", "yes"} 
              /\ heard = "yes" => heard' = "yes"
    BY <1>3 DEF Failed, Hearing
  <2>2. ctx' \in Context /\ ctx'.user = ctx.user /\ ctx'.conf = ctx.conf
    BY <2>1, ContextFacts DEF AgentInv, AgentTypeOK
  <2>. QED
    BY <1>1, <2>1, <2>2
    DEF renewalVars, AgentInv, AgentTypeOK, GateHolds, ConfirmedIsHonoured, ShownIsBacked
<1>4. CASE Rejected401(w)
  <2>1. PICK ends \in BOOLEAN :
          /\ IF KeysAfter401(w, ends) = {} THEN UNCHANGED renewalVars
                                           ELSE Clear(KeysAfter401(w, ends))
          /\ After401(w, ends)
    <3>1. (carried[w] # None /\ ~last.ok) \in BOOLEAN
      OBVIOUS
    <3>. QED BY <1>4, <3>1 DEF Rejected401
  <2>2. LifeAfter({}) /\ Hearing("something") /\ UNCHANGED <<last, contact>>
    BY <1>4 DEF Rejected401
  <2>3. heard' \in {"something", "yes"} /\ (heard = "yes" => heard' = "yes")
    BY <2>2 DEF Hearing
  <2>. QED
    BY <2>1, <2>2, <2>3, LifeType, After401Inv DEF renewalVars, AgentInv, AgentTypeOK
<1>5. CASE Recover(w)
  <2>1. CASE Await(w, "recover") /\ UNCHANGED carried
    BY <1>1, <2>1, AwaitFacts
    DEF AgentInv, AgentTypeOK, GateHolds, ConfirmedIsHonoured, ShownIsBacked
  <2>2. CASE /\ last' = [ok |-> FALSE, fam |-> FamOf(bearer)]
             /\ Clear(Stores) /\ After401(w, TRUE) /\ LifeAfter({}) /\ Hearing("something")
             /\ UNCHANGED contact
    <3>1. last' \in [ok : BOOLEAN, fam : Families \cup {None}]
      <4>1. FamOf(bearer) \in Families \cup {None}
        BY FamOfType DEF RenewalInv, RenewalTypeOK
      <4>. QED BY <2>2, <4>1
    <3>2. heard' \in {"something", "yes"} /\ (heard = "yes" => heard' = "yes")
      BY <2>2 DEF Hearing
    <3>3. KeysAfter401(w, TRUE) # {}
      BY DEF KeysAfter401, Stores
    <3>. QED BY <2>2, <3>1, <3>2, <3>3, LifeType, After401Inv DEF AgentInv
  <2>. QED BY <1>5, <2>1, <2>2 DEF Recover
<1>. QED BY <1>2, <1>3, <1>4, <1>5 DEF Answered

(* A sign-in or a tenant switch: heard of, and backed by a bearer.         *)
LEMMA SignedInInv ==
  ASSUME NEW s \in Stores, NEW fam \in Families, NEW rt \in BOOLEAN,
         RenewalInv, RenewalInv', AgentInv, SignedInWith(s, fam, rt),
         pc' \in [Waiters -> Labels], carried' \in [Waiters -> Families \cup {None}],
         last' = last, pending' = pending, contact' \in BOOLEAN
  PROVE  AgentInv'
<1>1. bearer' # None
  <2>1. bearer' = [fam |-> fam, ver |-> 0]
    BY DEF SignedInWith, Install
  <2>2. [fam |-> fam, ver |-> 0] \in Token
    BY RenewalAssumption, SMT DEF Token
  <2>. QED BY <2>1, <2>2, RenewalAssumption DEF Token
<1>2. ctx' \in Context
  <2>1. ASSUME NEW c \in Context, NEW b \in BOOLEAN
        PROVE  /\ [c EXCEPT !.user = b] \in Context
               /\ [c EXCEPT !.loading = b] \in Context
               /\ [c EXCEPT !.tokens = b] \in Context
    BY SMT DEF Context
  <2>2. ctx' = [[[ctx EXCEPT !.user = TRUE] EXCEPT !.loading = FALSE] EXCEPT !.tokens = (s = "oidc")]
    BY DEF SignedInWith
  <2>. QED BY <2>1, <2>2 DEF AgentInv, AgentTypeOK
<1>3. heard' = "yes" /\ LifeAfter({s})
  BY DEF SignedInWith
<1>. QED
  BY <1>1, <1>2, <1>3, LifeType
  DEF AgentInv, AgentTypeOK, GateHolds, ConfirmedIsHonoured, ShownIsBacked

(* The end of a sign-out: the bearer goes, the navigation is under way.    *)
LEMMA SignOutClearsInv ==
  ASSUME NEW w \in Waiters, AgentInv, SignOutClears(w)
  PROVE  AgentInv'
BY LifeType
DEF SignOutClears, Goto, Labels, AgentInv, AgentTypeOK, GateHolds, ConfirmedIsHonoured,
    ShownIsBacked

(* A page left behind changes nothing on screen.                           *)
LEMMA UnmountInv ==
  ASSUME NEW w \in Waiters, AgentInv, Unmount(w)
  PROVE  AgentInv'
<1>1. bearer' = bearer
  BY DEF Unmount, Cancel, renewalVars
<1>. QED
  BY <1>1
  DEF Unmount, Goto, Labels, AgentInv, AgentTypeOK, GateHolds, ConfirmedIsHonoured, ShownIsBacked

(* A contact's sign-in takes the agent's bearer: ShownIsBacked is not      *)
(* claimed where this can happen.                                          *)
LEMMA ContactSignInInv ==
  ASSUME AgentInv, ContactSignIn
  PROVE  AgentInv'
BY LifeType
DEF ContactSignIn, AgentInv, AgentTypeOK, GateHolds, ConfirmedIsHonoured

(* A boot restores a user only with a bearer, unconfirmed, and gated       *)
(* unless the bundle is fresh.                                             *)
LEMMA BootInv ==
  ASSUME RenewalInv, RenewalInv', AgentInv, Boot
  PROVE  AgentInv'
<1>1. pc' \in [Waiters -> Labels] /\ carried' \in [Waiters -> Families \cup {None}]
  BY DEF Boot, Labels
<1>2. ctx' \in Context /\ (ctx'.user => Persisted /\ ctx'.loading = Gated /\ ctx'.conf = "unconfirmed")
  BY DEF Boot, RestoredContext, NobodyIn, Context, Gated
<1>3. Persisted => bearer' # None
  <2>1. Persisted => store[Preferred] \in Bundle
    BY DEF Persisted, Preferred, Stores, RenewalInv, RenewalTypeOK
  <2>2. Persisted => store[Preferred].tok \in Token
    BY <2>1, SMT DEF Bundle
  <2>. QED BY <2>2, RenewalAssumption DEF Boot, Reload, Token
<1>4. /\ heard' = IF Gated THEN "nothing" ELSE "something"
      /\ pending' = FALSE /\ last' = None /\ UNCHANGED <<life, contact>>
  BY DEF Boot
<1>. QED
  BY <1>1, <1>2, <1>3, <1>4
  DEF AgentInv, AgentTypeOK, GateHolds, ConfirmedIsHonoured, ShownIsBacked

(* The desktop's way to the login page.                                    *)
LEMMA WatchInv ==
  ASSUME AgentInv, Watch
  PROVE  AgentInv'
BY ContextFacts
DEF Watch, renewalVars, AgentInv, AgentTypeOK, GateHolds, ConfirmedIsHonoured, ShownIsBacked

(* The clock and the OP change nothing on screen.                          *)
LEMMA EnvironmentInv ==
  ASSUME AgentInv, OpStep \/ DebounceElapses \/ \E s \in Stores : Age(s)
  PROVE  AgentInv'
<1>1. bearer' = bearer
  BY DEF OpStep, OpAnswers, OpRotates, OpRenewsWithoutRotating, OpDetectsReuse, OpRefuses,
         OpUnreachable, OpSeesOrphan, OpEndsGrant, clientVars, DebounceElapses, Age, renewalVars
<1>2. /\ UNCHANGED <<pc, carried, ctx, contact, pending, heard>>
      /\ last' \in {last, None}
      /\ life' \in [Stores -> {"fresh", "window", "spent"}]
  BY DEF OpStep, agentOnly, DebounceElapses, Age, AgentInv, AgentTypeOK
<1>. QED
  BY <1>1, <1>2 DEF AgentInv, AgentTypeOK, GateHolds, ConfirmedIsHonoured, ShownIsBacked

(* Every step keeps the invariant.                                         *)
LEMMA AgentStepInv ==
  ASSUME RenewalInv, RenewalInv', AgentInv, [AgentNext]_agentVars
  PROVE  AgentInv'
<1>1. CASE UNCHANGED agentVars
  BY <1>1
  DEF agentVars, agentOnly, renewalVars, AgentInv, AgentTypeOK, GateHolds, ConfirmedIsHonoured,
      ShownIsBacked
<1>2. ASSUME NEW w \in Waiters, Continue(w) PROVE AgentInv'
  BY <1>2, EnsureInv, ConfirmInv DEF Continue, SecondEnsure, BeginTyped
<1>3. ASSUME NEW w \in Waiters, Begin(w) PROVE AgentInv'
  <2>1. CASE SignOutWithoutBearer(w)
    BY <2>1
    DEF SignOutWithoutBearer, renewalVars, Goto, Labels, AgentInv, AgentTypeOK, GateHolds,
        ConfirmedIsHonoured, ShownIsBacked
  <2>2. CASE OidcTick(w) \/ StandaloneTick(w)
    BY <2>2, TickInv DEF OidcTick, StandaloneTick, Stores
  <2>. QED BY <1>3, <2>1, <2>2, EnsureInv DEF Begin, BeginRequest, BeginTyped
<1>4. ASSUME NEW w \in Waiters, Wake(w) PROVE AgentInv'
  <2>1. CASE AfterTick(w)
    BY <2>1, HonouredInv, DeadInv, BlipInv DEF AfterTick, Stores
  <2>2. CASE AfterConfirm(w)
    <3>1. flights[joined[w]].at \in Stores
      BY <2>2, FlightFields DEF AfterConfirm, Awaited, RenewalInv, RenewalTypeOK
    <3>. QED BY <2>2, <3>1, HonouredInv, DeadInv, BlipInv DEF AfterConfirm
  <2>. QED BY <1>4, <2>1, <2>2, ResumedInv, AfterRecoverInv DEF Wake
<1>5. ASSUME NEW s \in Stores, NEW fam \in Families, NEW rt \in BOOLEAN,
             SignIn(s, fam, rt) \/ \E w \in Waiters : Switched(w, fam, rt)
      PROVE  AgentInv'
  <2>1. CASE SignIn(s, fam, rt)
    BY <2>1, SignedInInv DEF SignIn, AgentInv, AgentTypeOK
  <2>2. ASSUME NEW w \in Waiters, Switched(w, fam, rt) PROVE AgentInv'
    <3>1. pc' \in [Waiters -> Labels] /\ carried' \in [Waiters -> Families \cup {None}]
      BY <2>2 DEF Switched, Return, Goto, Labels, AgentInv, AgentTypeOK
    <3>. QED BY <2>2, <3>1, SignedInInv DEF Switched, AgentInv, AgentTypeOK, Stores
  <2>. QED BY <1>5, <2>1, <2>2
<1>. QED
  BY <1>1, <1>2, <1>3, <1>4, <1>5, AnsweredInv, SignOutClearsInv, UnmountInv, ContactSignInInv,
     BootInv, WatchInv, EnvironmentInv
  DEF AgentNext, Others, Stores

(* It holds at the start.                                                  *)
LEMMA AgentInitInv == AgentInit => AgentInv
<1> SUFFICES ASSUME AgentInit PROVE AgentInv
  OBVIOUS
<1>1. ctx \in Context /\ ctx.user = FALSE
  BY DEF AgentInit, NobodyIn, Context
<1>. QED
  BY <1>1
  DEF AgentInit, Labels, AgentInv, AgentTypeOK, GateHolds, ConfirmedIsHonoured, ShownIsBacked

-----------------------------------------------------------------------------
(* The inductive invariant of the session.                                 *)
THEOREM AgentIsInvariant == AgentSpec => []AgentInv
<1>1. AgentInit => AgentInv
  BY AgentInitInv
<1>2. RenewalInv /\ RenewalInv' /\ AgentInv /\ [AgentNext]_agentVars => AgentInv'
  BY AgentStepInv
<1>. QED BY <1>1, <1>2, AgentKeepsRenewalInv, PTL DEF AgentSpec

(* Every variable of the session keeps its type.                           *)
THEOREM AgentIsTyped == AgentSpec => []AgentTypeOK
<1>1. AgentInv => AgentTypeOK
  BY DEF AgentInv
<1>. QED BY <1>1, AgentIsInvariant, PTL

(* A session restored from a bundle inside its window is not rendered      *)
(* before the OP was asked about it (auth.rs, confirmation_gates_render).  *)
THEOREM GateAlwaysHolds == AgentSpec => []GateHolds
<1>1. AgentInv => GateHolds
  BY DEF AgentInv
<1>. QED BY <1>1, AgentIsInvariant, PTL

(* A session on screen counts as confirmed only if this page lifetime      *)
(* signed in to it or had it honoured (auth.rs, SessionConfirmation).      *)
THEOREM ConfirmedIsAlwaysHonoured == AgentSpec => []ConfirmedIsHonoured
<1>1. AgentInv => ConfirmedIsHonoured
  BY DEF AgentInv
<1>. QED BY <1>1, AgentIsInvariant, PTL

(* Where contacts do not sign in on the agents' origin, a signed-in screen *)
(* has a bearer behind it or is on its way to the login page               *)
(* (fetch.rs:777-784).                                                     *)
THEOREM ShownIsAlwaysBacked == ~HasContactPlane => (AgentSpec => []ShownIsBacked)
<1> SUFFICES ASSUME ~HasContactPlane PROVE AgentSpec => []ShownIsBacked
  OBVIOUS
<1>1. AgentInv => ShownIsBacked
  BY DEF AgentInv
<1>. QED BY <1>1, AgentIsInvariant, PTL

-----------------------------------------------------------------------------
(* Sessions of one kind only: all standalone, or all OIDC and nobody       *)
(* switches tenant.                                                        *)
OnlyKind(o) == SignInStores = {o} /\ (o = "standalone" \/ Switchers = {})

(* The bundle looked at first is then the only one.                        *)
LEMMA OnlyIsPreferred ==
  ASSUME NEW o \in Stores, OneStore(o), Persisted
  PROVE  Preferred = o
BY DEF OneStore, Persisted, Preferred, Stores

(* A step of the renewal layer that installs no other kind keeps it so.    *)
LEMMA RenewalKeepsOneStore ==
  ASSUME NEW o \in Stores, RenewalInv, OneStore(o), RenewalNext,
         used' # used => \A s \in Stores : s # o => store'[s] = None
  PROVE  OneStore(o)'
<1>t. /\ store \in [Stores -> Bundle \cup {None}]
      /\ flights \in [FlightIds -> Flight]
  BY DEF RenewalInv, RenewalTypeOK
<1>i. IdleFlight.st = "idle"
  BY DEF IdleFlight
<1> USE DEF OneStore, Running
<1>1. ASSUME NEW w \in Waiters, Join(w) \/ Refused(w)  PROVE OneStore(o)'
  BY <1>1 DEF Join, Refused, renewalVars
<1>2. ASSUME NEW w \in Waiters, Start(w)  PROVE OneStore(o)'
  <2>1. Preferred = o
    BY <1>2, OnlyIsPreferred DEF Start, Refreshable
  <2>2. PICK f \in FlightIds :
          flights' = [flights EXCEPT ![f] = [st |-> "sent", at |-> Preferred,
                                             tok |-> store[Preferred].tok, ans |-> "none"]]
    BY <1>2, RenewalAssumption DEF Start, FreshFlight
  <2>3. \A g \in FlightIds : flights'[g].st \in {"sent", "answered"} => flights'[g].at = o
    BY <1>t, <2>1, <2>2
  <2> QED  BY <1>2, <2>3 DEF Start
<1>3. ASSUME NEW w \in Waiters, NEW f \in FlightIds, Leave(w, f)
      PROVE  \A g \in FlightIds : flights'[g].st \in {"sent", "answered"} => flights'[g].at = o
  <2>1. flights'[f].st \in {"done", "idle"}
    BY <1>3, <1>t, <1>i DEF Leave, Flight
  <2>2. \A g \in FlightIds : g # f => flights'[g] = flights[g]
    BY <1>3, <1>t DEF Leave
  <2> QED  BY <2>1, <2>2
<1>4. ASSUME NEW w \in Waiters, NEW keys \in Clearings, Finish(w, keys)
      PROVE  OneStore(o)'
  <2> DEFINE f == joined[w]
  <2>1. f \in FlightIds /\ flights[f].st = "answered" /\ flights[f].at = o
    BY <1>4 DEF Finish, RenewalInv, RenewalTypeOK
  <2>2. \A g \in FlightIds : flights'[g].st \in {"sent", "answered"} => flights'[g].at = o
    BY <1>3, <1>4, <2>1 DEF Finish
  <2>3. /\ store' = Cleared(IF Succeeded(flights[f].ans)
                            THEN [store EXCEPT ![o] = [tok |-> Successor(flights[f].tok),
                                                       rt |-> flights[f].ans = "ok"]]
                            ELSE store, keys)
        /\ bearer' = BearerAfter(IF Succeeded(flights[f].ans) THEN Successor(flights[f].tok)
                                                             ELSE bearer, keys)
    BY <1>4, <2>1 DEF Finish
  <2>4. \A s \in Stores : s # o => store'[s] = None
    BY <1>t, <2>3 DEF Cleared
  <2>5. CASE keys # {}
    BY <2>2, <2>3, <2>4, <2>5 DEF BearerAfter
  <2>6. CASE keys = {} /\ Succeeded(flights[f].ans)
    <3>1. bearer' = Successor(flights[f].tok) /\ store'[o].tok = Successor(flights[f].tok)
      BY <1>t, <2>3, <2>6 DEF BearerAfter, Cleared
    <3> QED  BY <2>2, <2>4, <3>1
  <2>7. CASE keys = {} /\ ~Succeeded(flights[f].ans)
    <3>1. bearer' = bearer /\ store'[o] = store[o]
      BY <1>t, <2>3, <2>7 DEF BearerAfter, Cleared
    <3> QED  BY <2>2, <2>4, <3>1
  <2> QED  BY <2>5, <2>6, <2>7
<1>5. ASSUME NEW keys \in SUBSET Stores,
             store' = Cleared(store, keys), bearer' \in {bearer, None},
             bearer' # None => keys = {},
             \A g \in FlightIds : flights'[g].st \in {"sent", "answered"} => flights'[g].at = o
      PROVE  OneStore(o)'
  BY <1>5, <1>t DEF Cleared
<1>6. ASSUME NEW w \in Waiters, NEW keys \in Clearings, Late(w, keys)
      PROVE  OneStore(o)'
  <2>1. joined[w] \in FlightIds
    BY <1>6 DEF Late, RenewalInv, RenewalTypeOK
  <2>2. \A g \in FlightIds : flights'[g].st \in {"sent", "answered"} => flights'[g].at = o
    BY <1>3, <1>6, <2>1 DEF Late
  <2>3. keys \in SUBSET Stores
    BY DEF Clearings, Stores
  <2> QED  BY <1>5, <1>6, <2>2, <2>3 DEF Late, BearerAfter
<1>7. ASSUME NEW w \in Waiters, Cancel(w)  PROVE OneStore(o)'
  <2>1. \A g \in FlightIds : flights'[g].st \in {"sent", "answered"} => flights'[g].at = o
    BY <1>7, <1>t, <1>i DEF Cancel
  <2> QED  BY <1>7, <2>1 DEF Cancel
<1>8. ASSUME NEW s \in Stores, NEW fam \in Families, NEW rt \in BOOLEAN, Install(s, fam, rt)
      PROVE  OneStore(o)'
  <2>1. /\ store' = [store EXCEPT ![s] = [tok |-> [fam |-> fam, ver |-> 0], rt |-> rt]]
        /\ bearer' = [fam |-> fam, ver |-> 0] /\ flights' = flights
        /\ fam \notin used /\ used' = used \cup {fam}
    BY <1>8 DEF Install
  <2>2. \A u \in Stores : u # o => store'[u] = None
    BY <2>1
  <2>3. store'[s].tok = [fam |-> fam, ver |-> 0] /\ store'[s] # None
    <3>1. store'[s] = [tok |-> [fam |-> fam, ver |-> 0], rt |-> rt]
      BY <1>t, <2>1
    <3>2. store'[s] \in Bundle
      <4>1. [fam |-> fam, ver |-> 0] \in Token
        BY RenewalAssumption, SMT DEF Token
      <4> QED  BY <3>1, <4>1, SMT DEF Bundle
    <3> QED  BY <3>1, <3>2, RenewalAssumption
  <2> QED  BY <2>1, <2>2, <2>3
<1>9. ASSUME NEW keys \in Clearings \ {{}}, Clear(keys)  PROVE OneStore(o)'
  BY <1>5, <1>9 DEF Clear, Clearings, Stores
<1>10. CASE Reload
  <2>1. \A g \in FlightIds : flights'[g].st = "idle"
    BY <1>10, <1>i DEF Reload
  <2>2. store' = store /\ bearer' = IF Persisted THEN store[Preferred].tok ELSE None
    BY <1>10 DEF Reload
  <2>3. Persisted => Preferred = o
    BY OnlyIsPreferred
  <2> QED  BY <2>1, <2>2, <2>3
<1>11. ASSUME NEW f \in FlightIds, OpAnswers(f)  PROVE OneStore(o)'
  <2>1. flights[f].st = "sent" /\ UNCHANGED <<store, bearer>>
    BY <1>11 DEF OpAnswers, OpRotates, OpRenewsWithoutRotating, OpDetectsReuse, OpRefuses,
                 OpUnreachable, Sent
  <2>2. PICK ans : flights' = [flights EXCEPT ![f].st = "answered", ![f].ans = ans]
    BY <1>11 DEF OpAnswers, OpRotates, OpRenewsWithoutRotating, OpDetectsReuse, OpRefuses,
                 OpUnreachable, Answer
  <2>3. \A g \in FlightIds : flights'[g].at = flights[g].at /\ (g # f => flights'[g] = flights[g])
    BY <1>t, <2>2 DEF Flight
  <2> QED  BY <2>1, <2>3
<1>12. CASE (\E t \in Token : OpSeesOrphan(t)) \/ (\E fam \in Families : OpEndsGrant(fam))
  BY <1>12 DEF OpSeesOrphan, OpEndsGrant, clientVars
<1> QED
  BY <1>1, <1>2, <1>4, <1>6, <1>7, <1>8, <1>9, <1>10, <1>11, <1>12
  DEF RenewalNext, Call, Resume

(* Families appear with a sign-in or a switch, and nowhere else.           *)
LEMMA OnlySignInsInstall ==
  ASSUME [AgentNext]_agentVars, used' # used
  PROVE  \E s \in Stores, fam \in Families, rt \in BOOLEAN :
           SignIn(s, fam, rt) \/ \E w \in Waiters : Switched(w, fam, rt)
<1>1. ASSUME NEW w \in Waiters, NEW l, Await(w, l)  PROVE used' = used
  BY <1>1 DEF Await, Join, Start
<1>2. ASSUME NEW w \in Waiters, NEW l, EnsureThenSend(w, l)  PROVE used' = used
  BY <1>1, <1>2 DEF EnsureThenSend, RefusedNow, Refused, renewalVars
<1>3. ASSUME NEW w \in Waiters, NEW keys, Hear(w, keys)  PROVE used' = used
  BY <1>3 DEF Hear, Resume, Finish, Late
<1>4. ASSUME NEW w \in Waiters, Continue(w) \/ Begin(w)  PROVE used' = used
  BY <1>1, <1>2, <1>4
  DEF Continue, Begin, SecondEnsure, BeginTyped, Confirm, BeginRequest, OidcTick,
      StandaloneTick, Tick, SignOutWithoutBearer, Clear, renewalVars
<1>5. ASSUME NEW w \in Waiters, Wake(w)  PROVE used' = used
  BY <1>3, <1>5
  DEF Wake, AfterFirst, AfterSecond, AfterSingle, AfterRecover, AfterTick, AfterConfirm,
      Honoured, Dead, Blip
<1>6. ASSUME NEW w \in Waiters, Answered(w) \/ SignOutClears(w) \/ Unmount(w)
      PROVE  used' = used
  BY <1>1, <1>6
  DEF Answered, Accepted, Failed, Rejected401, Recover, SignOutClears, Unmount, Cancel, Clear,
      renewalVars
<1>7. CASE ContactSignIn \/ Boot \/ Watch \/ DebounceElapses \/ \E s \in Stores : Age(s)
  BY <1>7 DEF ContactSignIn, Boot, Watch, DebounceElapses, Age, Clear, Reload, renewalVars
<1>8. CASE OpStep
  BY <1>8
  DEF OpStep, OpAnswers, OpRotates, OpRenewsWithoutRotating, OpDetectsReuse, OpRefuses,
      OpUnreachable, OpSeesOrphan, OpEndsGrant
<1>9. CASE UNCHANGED agentVars
  BY <1>9 DEF agentVars, renewalVars
<1> QED
  BY <1>4, <1>5, <1>6, <1>7, <1>8, <1>9 DEF AgentNext, Others, Stores

(* Where sessions are of one kind, they install that kind.                 *)
LEMMA OnlyKindIsInstalled ==
  ASSUME NEW o \in Stores, OnlyKind(o), OneStore(o), RenewalInv, [AgentNext]_agentVars, used' # used
  PROVE  \A s \in Stores : s # o => store'[s] = None
<1>1. PICK s \in Stores, fam \in Families, rt \in BOOLEAN :
        SignIn(s, fam, rt) \/ \E w \in Waiters : Switched(w, fam, rt)
  BY OnlySignInsInstall
<1>2. Install(o, fam, rt)
  BY <1>1 DEF SignIn, Switched, SignedInWith, OnlyKind
<1> QED  BY <1>2 DEF Install, OneStore

(* Where they are, the only key stays the only one.                        *)
LEMMA OneStoreStep ==
  ASSUME NEW o \in Stores, OnlyKind(o), RenewalInv, OneStore(o), [AgentNext]_agentVars
  PROVE  OneStore(o)'
<1>1. CASE RenewalNext
  BY <1>1, OnlyKindIsInstalled, RenewalKeepsOneStore
<1>2. CASE UNCHANGED renewalVars
  BY <1>2 DEF renewalVars, OneStore, Running
<1> QED  BY <1>1, <1>2, AgentStepIsRenewalStep DEF RenewalStep

(* Where sessions are of one kind only -- all standalone, or all OIDC and  *)
(* nobody switches tenant -- the held bearer is always that of the         *)
(* persisted session whose expiry decides when it is renewed               *)
(* (fetch.rs:531).  The run switch_from_oidc shows that the condition is   *)
(* needed.                                                                 *)
THEOREM BearerIsAlwaysPersisted ==
  ASSUME NEW o \in Stores, OnlyKind(o)
  PROVE  AgentSpec => []BearerIsPersisted
<1>1. AgentInit => OneStore(o)
  BY DEF AgentInit, RenewalInit, OneStore, Running, IdleFlight
<1>2. RenewalInv /\ OneStore(o) /\ [AgentNext]_agentVars => OneStore(o)'
  BY OneStoreStep
<1>3. OneStore(o) => BearerIsPersisted
  <2> SUFFICES ASSUME OneStore(o), bearer # None, Persisted
               PROVE  bearer = store[Preferred].tok
    BY DEF BearerIsPersisted
  <2>1. Preferred = o
    BY OnlyIsPreferred
  <2> QED  BY <2>1 DEF OneStore, Persisted
<1> QED  BY <1>1, <1>2, <1>3, AgentKeepsRenewalInv, PTL DEF AgentSpec

(* A task's program counter moves only in a step of that task, or when the *)
(* page is reloaded.                                                       *)
Acts(w) ==
  \/ Continue(w) \/ Begin(w) \/ Wake(w) \/ Answered(w) \/ SignOutClears(w) \/ Unmount(w)
  \/ \E fam \in Families, rt \in BOOLEAN : Switched(w, fam, rt)

(* What a task waits for moves no other.                                   *)
LEMMA EnsureMovesOwn ==
  ASSUME NEW v \in Waiters, NEW l, EnsureThenSend(v, l), NEW w \in Waiters, w # v, AgentTypeOK
  PROVE  pc'[w] = pc[w]
BY DEF EnsureThenSend, Await, RefusedNow, Send, Goto, AgentTypeOK

(* Whatever moves a task's program counter is a step of that task, or a    *)
(* reload.                                                                 *)
LEMMA OwnStep ==
  ASSUME AgentTypeOK, [AgentNext]_agentVars, NEW w \in Waiters, pc'[w] # pc[w]
  PROVE  Acts(w) \/ Boot
<1> USE DEF AgentTypeOK
<1>1. ASSUME NEW v \in Waiters, v # w, Continue(v) PROVE pc'[w] = pc[w]
  BY <1>1, EnsureMovesOwn DEF Continue, SecondEnsure, BeginTyped, Confirm, Await, Goto
<1>2. ASSUME NEW v \in Waiters, v # w, Begin(v) PROVE pc'[w] = pc[w]
  BY <1>2, EnsureMovesOwn
  DEF Begin, BeginRequest, BeginTyped, OidcTick, StandaloneTick, Tick, SignOutWithoutBearer,
      Await, Goto
<1>3. ASSUME NEW v \in Waiters, v # w, Wake(v) PROVE pc'[w] = pc[w]
  BY <1>3
  DEF Wake, AfterFirst, AfterSecond, AfterSingle, AfterRecover, AfterTick, AfterConfirm,
      Honoured, Dead, Blip, After401, Return, Goto
<1>4. ASSUME NEW v \in Waiters, v # w,
             \/ Answered(v) \/ SignOutClears(v) \/ Unmount(v)
             \/ \E fam \in Families, rt \in BOOLEAN : Switched(v, fam, rt)
      PROVE  pc'[w] = pc[w]
  BY <1>4
  DEF Answered, Accepted, Failed, Rejected401, Recover, After401, Return, Await, SignOutClears,
      Unmount, Switched, Goto
<1>5. ASSUME \/ \E s \in Stores, fam \in Families, rt \in BOOLEAN : SignIn(s, fam, rt)
             \/ ContactSignIn \/ Watch \/ DebounceElapses \/ OpStep
             \/ \E s \in Stores : Age(s)
             \/ UNCHANGED agentVars
      PROVE  pc' = pc
  BY <1>5
  DEF SignIn, ContactSignIn, Watch, DebounceElapses, OpStep, Age, agentVars, agentOnly
<1>. QED BY <1>1, <1>2, <1>3, <1>4, <1>5 DEF AgentNext, Others, Acts

(* A task that hears of a renewal and clears nothing leaves a persisted    *)
(* session persisted.                                                      *)
LEMMA HearingKeepsPersisted ==
  ASSUME NEW w \in Waiters, RenewalInv, RenewalInv', Hear(w, {}), Persisted
  PROVE  Persisted'
<1>1. PICK fl \in Flight : fl = flights[joined[w]]
  BY DEF Hear, Awaited, RenewalInv, RenewalTypeOK
<1>2. store \in [Stores -> Bundle \cup {None}] /\ fl.at \in Stores
  BY <1>1, FlightFields DEF RenewalInv, RenewalTypeOK
<1>3. CASE Late(w, {}) \/ ~Succeeded(fl.ans)
  <2>1. \A s \in Stores : store'[s] = store[s]
    BY <1>1, <1>3 DEF Hear, Resume, Finish, Late, Cleared
  <2>. QED BY <2>1 DEF Persisted, Preferred, Stores
<1>4. CASE Finish(w, {}) /\ Succeeded(fl.ans)
  <2>1. fl.tok \in Token /\ fl.tok.ver <= MaxRotations
    BY <1>1, <1>4 DEF Finish, RenewalInv, RenewalTypeOK, RunningHasToken, Running
  <2>2. Successor(fl.tok) \in Token
    BY <2>1, RenewalAssumption, SMT DEF Successor, Token
  <2>3. [tok |-> Successor(fl.tok), rt |-> fl.ans = "ok"] \in Bundle
    BY <2>2 DEF Bundle
  <2>4. store'[fl.at] = [tok |-> Successor(fl.tok), rt |-> fl.ans = "ok"]
    BY <1>1, <1>2, <1>4 DEF Finish, Cleared
  <2>5. store'[fl.at] # None
    BY <2>3, <2>4, RenewalAssumption DEF Bundle, Token
  <2>. QED BY <1>2, <2>5 DEF Persisted, Preferred, Stores
<1>. QED BY <1>3, <1>4 DEF Hear, Resume

(* An unrecoverable result is that of a flight refused.                    *)
LEMMA DeadResult ==
  ASSUME NEW w \in Waiters, RenewalInv, NEW keys, Hear(w, keys), Result(w) = "dead"
  PROVE  /\ joined[w] \in FlightIds
         /\ Known(joined[w]) /\ flights[joined[w]].ans = "dead"
BY DEF Hear, Awaited, RenewalInv, RenewalTypeOK, Known, Result, Outcome

-----------------------------------------------------------------------------
(* RenewsOnlyWhenDue.                                                      *)

(* ensure_access_token renews nothing that is fresh.                       *)
LEMMA EnsureRenewsWhenDue ==
  ASSUME NEW w \in Waiters, NEW l, EnsureThenSend(w, l), slot' # slot
  PROVE  life[Preferred] # "fresh"
BY DEF EnsureThenSend, RefusedNow, Refused, renewalVars, Stale

(* A 401 that starts a renewal is a task's own, on the way to its wait.    *)
LEMMA AnswerRenewsOn401 ==
  ASSUME AgentTypeOK, NEW w \in Waiters, Answered(w), slot = None, slot' # None
  PROVE  last = None /\ pc[w] = "sent" /\ carried[w] # None /\ pc'[w] = "recover"
BY DEF Answered, Accepted, Failed, Rejected401, Recover, Await, Goto, Clear, renewalVars,
       AgentTypeOK

(* A session is renewed only inside its window, or by a task whose request *)
(* came back 401 although it carried a bearer, and only if no recent       *)
(* renewal answers for that (fetch.rs:502-506).                            *)
THEOREM RenewalsAreDue == AgentSpec => RenewsOnlyWhenDue
<1> DEFINE On401 == /\ last = None
                    /\ \E w \in Waiters : pc[w] = "sent" /\ carried[w] # None /\ pc'[w] = "recover"
<1>1. ASSUME AgentTypeOK, [AgentNext]_agentVars, slot = None, slot' # None
      PROVE  life[Preferred] # "fresh" \/ On401
  <2>1. ASSUME NEW w \in Waiters, Continue(w) PROVE life[Preferred] # "fresh"
    BY <1>1, <2>1, EnsureRenewsWhenDue
    DEF Continue, SecondEnsure, BeginTyped, Confirm, Clear, renewalVars
  <2>2. ASSUME NEW w \in Waiters, Begin(w) PROVE life[Preferred] # "fresh"
    BY <1>1, <2>2, EnsureRenewsWhenDue
    DEF Begin, BeginRequest, BeginTyped, OidcTick, StandaloneTick, Tick, SignOutWithoutBearer,
        Clear, renewalVars
  <2>3. ASSUME NEW w \in Waiters, NEW keys, Hear(w, keys) PROVE FALSE
    BY <1>1, <2>3 DEF Hear, Resume, Finish, Late, Leave
  <2>4. ASSUME NEW w \in Waiters, Wake(w) PROVE FALSE
    BY <2>3, <2>4
    DEF Wake, AfterFirst, AfterSecond, AfterSingle, AfterRecover, AfterTick, AfterConfirm,
        Honoured, Dead, Blip
  <2>5. ASSUME NEW w \in Waiters, Answered(w) PROVE On401
    BY <1>1, <2>5, AnswerRenewsOn401
  <2>6. ASSUME NEW w \in Waiters, SignOutClears(w) \/ Unmount(w) PROVE FALSE
    BY <1>1, <2>6 DEF SignOutClears, Unmount, Cancel, Clear, renewalVars
  <2>7. ASSUME \/ \E s \in Stores, fam \in Families, rt \in BOOLEAN : SignIn(s, fam, rt)
               \/ \E w \in Waiters, fam \in Families, rt \in BOOLEAN : Switched(w, fam, rt)
               \/ ContactSignIn \/ Boot \/ Watch \/ DebounceElapses
               \/ \E s \in Stores : Age(s)
               \/ UNCHANGED agentVars
        PROVE  FALSE
    BY <1>1, <2>7
    DEF SignIn, Switched, SignedInWith, Install, ContactSignIn, Boot, Reload, Watch,
        DebounceElapses, Age, Clear, agentVars, renewalVars
  <2>8. ASSUME OpStep PROVE FALSE
    BY <1>1, <2>8
    DEF OpStep, OpAnswers, OpRotates, OpRenewsWithoutRotating, OpDetectsReuse, OpRefuses,
        OpUnreachable, OpSeesOrphan, OpEndsGrant, clientVars
  <2>. QED
    BY <1>1, <2>1, <2>2, <2>4, <2>5, <2>6, <2>7, <2>8 DEF AgentNext, Others
<1> DEFINE A == slot = None /\ slot' # None =>
                  \/ life[Preferred] # "fresh"
                  \/ /\ last = None
                     /\ \E w \in Waiters : pc[w] = "sent" /\ carried[w] # None /\ pc'[w] = "recover"
<1>2. AgentInv /\ [AgentNext]_agentVars => [A]_agentVars
  BY <1>1 DEF AgentInv
<1>3. AgentSpec => [][A]_agentVars
  BY <1>2, AgentIsInvariant, PTL DEF AgentSpec
<1>. QED BY <1>3 DEF RenewsOnlyWhenDue

-----------------------------------------------------------------------------
(* On every platform, a page's own 401 whose renewal succeeded leaves the  *)
(* session persisted.                                                      *)
LEMMA RecoveredStays ==
  ASSUME RenewalInv, RenewalInv', AgentTypeOK, [AgentNext]_agentVars,
         NEW w \in Waiters, ~ClearsAfter401(w),
         pc[w] = "recover", pc'[w] # "recover", Awaited(w), Result(w) = "ok", Persisted
  PROVE  Persisted'
<1>1. Acts(w) \/ Boot
  BY OwnStep
<1>2. CASE Boot
  BY <1>2 DEF Boot, Reload, Persisted, Preferred
<1>3. CASE Unmount(w)
  BY <1>3 DEF Unmount, Cancel, renewalVars, Persisted, Preferred
<1>4. CASE AfterRecover(w)
  <2>1. KeysAfter401(w, Result(w) # "ok") = {}
    BY DEF KeysAfter401
  <2>2. Hear(w, {})
    BY <1>4, <2>1 DEF AfterRecover
  <2>. QED BY <2>2, HearingKeepsPersisted
<1>. QED
  BY <1>1, <1>2, <1>3, <1>4
  DEF Acts, Continue, SecondEnsure, BeginTyped, Confirm, Begin, BeginRequest, OidcTick,
      StandaloneTick, Tick, SignOutWithoutBearer, Wake, AfterFirst, AfterSecond, AfterSingle,
      AfterTick, AfterConfirm, Answered, Accepted, Failed, Rejected401, Recover, SignOutClears,
      Switched

(* What a step may do to the flights: start one, or leave each as it is,   *)
(* bar its answer, until it is freed.                                      *)
LEMMA FlightsAge ==
  ASSUME RenewalInv, RenewalNext, \A w \in Waiters : ~Start(w)
  PROVE  \A f \in FlightIds :
           /\ Known(f)' => /\ Known(f)
                           /\ flights'[f].tok = flights[f].tok
                           /\ flights'[f].at = flights[f].at
           /\ Running(f)' => Running(f)
<1>0. /\ flights \in [FlightIds -> Flight]
      /\ joined \in [Waiters -> FlightIds \cup {None}]
  BY DEF RenewalInv, RenewalTypeOK
<1> DEFINE Aged(f) == /\ Known(f)' => /\ Known(f)
                                      /\ flights'[f].tok = flights[f].tok
                                      /\ flights'[f].at = flights[f].at
                      /\ Running(f)' => Running(f)
<1>1. ASSUME NEW f \in FlightIds, flights'[f] = flights[f] PROVE Aged(f)
  BY <1>1 DEF Known, Running
<1>2. ASSUME NEW f \in FlightIds, flights'[f] = IdleFlight PROVE Aged(f)
  BY <1>2 DEF Known, Running, IdleFlight
<1>3. ASSUME NEW f \in FlightIds, flights[f].st \in {"answered", "done"},
             flights'[f] = [flights[f] EXCEPT !.st = "done"]
      PROVE  Aged(f)
  <2>1. ASSUME NEW fl \in Flight
        PROVE  LET d == [fl EXCEPT !.st = "done"]
               IN  d.st = "done" /\ d.tok = fl.tok /\ d.at = fl.at
    BY DEF Flight
  <2>2. flights'[f].st = "done" /\ flights'[f].tok = flights[f].tok /\ flights'[f].at = flights[f].at
    BY <1>0, <1>3, <2>1
  <2>. QED BY <1>3, <2>2 DEF Known, Running
<1>4. ASSUME NEW w \in Waiters, NEW keys \in Clearings, Resume(w, keys), NEW f \in FlightIds
      PROVE  Aged(f)
  <2>1. joined[w] \in FlightIds /\ flights[joined[w]].st \in {"answered", "done"}
        /\ Leave(w, joined[w])
    BY <1>0, <1>4 DEF Resume, Finish, Late
  <2>2. \/ flights'[f] = flights[f]
        \/ flights'[f] = IdleFlight
        \/ f = joined[w] /\ flights'[f] = [flights[f] EXCEPT !.st = "done"]
    BY <1>0, <2>1 DEF Leave
  <2>. QED BY <1>1, <1>2, <1>3, <2>1, <2>2
<1>5. ASSUME NEW w \in Waiters, Cancel(w), NEW f \in FlightIds PROVE Aged(f)
  <2>1. flights'[f] = flights[f] \/ flights'[f] = IdleFlight
    BY <1>0, <1>5 DEF Cancel
  <2>. QED BY <1>1, <1>2, <2>1
<1>6. ASSUME NEW f \in FlightIds, NEW g \in FlightIds, OpAnswers(g) PROVE Aged(f)
  <2>1. PICK ans \in Answers : Sent(g) /\ Answer(g, ans)
    BY <1>6 DEF OpAnswers, OpRotates, OpRenewsWithoutRotating, OpDetectsReuse, OpRefuses,
                OpUnreachable, Answers
  <2>. QED BY <2>1, AnsweredFlight DEF Known, Running
<1>7. ASSUME Reload, NEW f \in FlightIds PROVE Aged(f)
  BY <1>2, <1>7 DEF Reload
<1>8. ASSUME UNCHANGED flights, NEW f \in FlightIds PROVE Aged(f)
  BY <1>1, <1>8
<1>9. SUFFICES ASSUME NEW f \in FlightIds PROVE Aged(f)
  OBVIOUS
<1> HIDE DEF Aged
<1>. QED
  BY <1>4, <1>5, <1>6, <1>7, <1>8
  DEF RenewalNext, Call, Join, Refused, Install, Clear, OpSeesOrphan, OpEndsGrant, clientVars,
      renewalVars

(* A flight started presents the bundle persisted, alone.                  *)
LEMMA StartedFlight ==
  ASSUME RenewalInv, OneStore("oidc"), NEW w \in Waiters, Start(w)
  PROVE  \E f \in FlightIds :
           /\ flights'[f] = [st |-> "sent", at |-> "oidc", tok |-> store["oidc"].tok, ans |-> "none"]
           /\ \A g \in FlightIds \ {f} : flights'[g] = flights[g] /\ ~Running(g)
           /\ store["oidc"] # None /\ store["oidc"].rt
           /\ store' = store
<1>1. Preferred = "oidc" /\ store["oidc"] # None /\ store["oidc"].rt
  BY OnlyIsPreferred DEF Start, Refreshable, Persisted, Stores
<1>2. PICK f \in FlightIds : f = FreshFlight
  BY DEF Start, FreshFlight
<1>3. /\ flights'[f] = [st |-> "sent", at |-> "oidc", tok |-> store["oidc"].tok, ans |-> "none"]
      /\ \A g \in FlightIds \ {f} : flights'[g] = flights[g]
      /\ store' = store
  BY <1>1, <1>2 DEF Start, RenewalInv, RenewalTypeOK
<1>4. \A g \in FlightIds : ~Running(g)
  BY RenewalAssumption DEF Start, RenewalInv, SingleFlight
<1>. QED BY <1>1, <1>3, <1>4

(* As long as no session begins, there is one: a renewal persists the      *)
(* successor of the token it presented.                                    *)
LEMMA OneSessionKept ==
  ASSUME RenewalInv, RenewalInv', OneStore("oidc"), OneSession, RenewalNext, used' = used
  PROVE  OneSession'
<1>0. \A f \in FlightIds : Running(f) => Known(f)
  BY DEF Running, Known
<1>1. CASE \E w \in Waiters : Start(w)
  <2>1. PICK f \in FlightIds :
           /\ flights'[f] = [st |-> "sent", at |-> "oidc", tok |-> store["oidc"].tok, ans |-> "none"]
           /\ \A g \in FlightIds \ {f} : flights'[g] = flights[g] /\ ~Running(g)
           /\ store["oidc"] # None /\ store["oidc"].rt
           /\ store' = store
    BY <1>1, StartedFlight
  <2>2. \A g \in FlightIds : Known(g)' =>
          /\ flights'[g].at = "oidc"
          /\ flights'[g].tok.fam = store["oidc"].tok.fam
    BY <2>1 DEF OneSession, Known
  <2>. QED BY <2>1, <2>2 DEF OneSession
<1>2. CASE \A w \in Waiters : ~Start(w)
  <2>1. \A f \in FlightIds :
           /\ Known(f)' => /\ Known(f)
                           /\ flights'[f].tok = flights[f].tok
                           /\ flights'[f].at = flights[f].at
           /\ Running(f)' => Running(f)
    BY <1>2, FlightsAge
  <2>2. /\ \A f \in FlightIds : Known(f)' => flights'[f].at = "oidc"
        /\ \A f, g \in FlightIds : Known(f)' /\ Known(g)' => flights'[f].tok.fam = flights'[g].tok.fam
    BY <2>1 DEF OneSession
  <2>3. ASSUME store'["oidc"] \in {store["oidc"], None} PROVE OneSession'
    BY <1>0, <2>1, <2>2, <2>3 DEF OneSession
  <2>4. ASSUME NEW w \in Waiters, NEW keys \in Clearings, Finish(w, keys) PROVE OneSession'
    <3>1. PICK f \in FlightIds : f = joined[w] /\ flights[f] \in Flight /\ Running(f) /\ slot = f
      BY <2>4, RenewalAssumption DEF Finish, RenewalInv, RenewalTypeOK, SingleFlight, Running
    <3>2. flights[f].at = "oidc" /\ flights[f].tok \in Token /\ Known(f)
      BY <1>0, <3>1 DEF OneSession, RenewalInv, RunningHasToken
    <3>3. \A g \in FlightIds : ~Running(g)'
      <4>1. slot' = None
        BY <2>4, <3>1 DEF Finish, Leave
      <4>2. \A g \in FlightIds : Running(g)' => slot' = g
        BY DEF RenewalInv, SingleFlight
      <4>. QED BY <4>1, <4>2, RenewalAssumption
    <3>4. store \in [Stores -> Bundle \cup {None}]
      BY DEF RenewalInv, RenewalTypeOK
    <3>5. \/ store'["oidc"] \in {store["oidc"], None}
          \/ store'["oidc"] = [tok |-> Successor(flights[f].tok), rt |-> flights[f].ans = "ok"]
      BY <2>4, <3>1, <3>2, <3>4 DEF Finish, Cleared, Stores
    <3>6. Successor(flights[f].tok).fam = flights[f].tok.fam
      BY <3>2 DEF Successor, Token
    <3>7. store'["oidc"] = [tok |-> Successor(flights[f].tok), rt |-> flights[f].ans = "ok"]
            => store'["oidc"].tok.fam = flights[f].tok.fam
      BY <3>6
    <3>8. \A g \in FlightIds : Known(g)' => flights'[g].tok.fam = flights[f].tok.fam
      BY <2>1, <3>2 DEF OneSession
    <3>. QED BY <2>2, <2>3, <3>3, <3>5, <3>7, <3>8 DEF OneSession
  <2>5. ASSUME NEW w \in Waiters, NEW keys \in Clearings, Late(w, keys) PROVE OneSession'
    BY <2>3, <2>5 DEF Late, Cleared, Stores
  <2>6. ASSUME NEW keys \in Clearings \ {{}}, Clear(keys) PROVE OneSession'
    BY <2>3, <2>6 DEF Clear, Cleared, Stores
  <2>. QED
    BY <1>2, <2>3, <2>4, <2>5, <2>6
    DEF RenewalNext, Call, Join, Refused, Cancel, Resume, Install, Reload, OpAnswers, OpRotates,
        OpRenewsWithoutRotating, OpDetectsReuse, OpRefuses, OpUnreachable, OpSeesOrphan,
        OpEndsGrant, clientVars, renewalVars
<1>. QED BY <1>1, <1>2

(* Without a bundle nothing starts, and what still runs persists nothing:  *)
(* the session stays gone.                                                 *)
LEMMA GoneStaysGone ==
  ASSUME RenewalInv, ~Persisted, Past, RenewalNext, used' = used
  PROVE  ~Persisted' /\ Past'
<1>0. /\ \A w \in Waiters : ~Start(w)
      /\ \A s \in Stores : store[s] = None
      /\ flights \in [FlightIds -> Flight]
  BY DEF Start, Refreshable, Persisted, Preferred, Stores, RenewalInv, RenewalTypeOK
<1>1. \A f \in FlightIds : Running(f)' =>
         Running(f) /\ flights'[f].tok = flights[f].tok /\ flights[f].tok \in Token
  BY <1>0, FlightsAge DEF Running, Known, RenewalInv, RunningHasToken
<1>2. \A f \in FlightIds : Running(f)' => grant'[flights'[f].tok.fam] # "live"
  <2>1. \A f \in FlightIds : Running(f)' => flights[f].tok.fam \in Families
    BY <1>1, SMT DEF Token
  <2>. QED BY <1>1, <2>1, GrantStaysOver DEF Past
<1>3. ASSUME NEW f \in FlightIds, Running(f)' PROVE ~Succeeded(flights'[f].ans)
  <2>1. CASE flights'[f] = flights[f]
    BY <1>1, <1>3, <2>1 DEF Past
  <2>2. ASSUME NEW g \in FlightIds, OpAnswers(g) PROVE ~Succeeded(flights'[f].ans)
    <3>1. PICK ans \in {"dead", "transient"} : Sent(g) /\ Answer(g, ans)
      BY <2>2
      DEF OpAnswers, OpRotates, OpRenewsWithoutRotating, OpDetectsReuse, OpRefuses,
          OpUnreachable, Sent, Running, Past
    <3>2. ans \in Answers /\ ~Succeeded(ans)
      BY DEF Answers, Succeeded
    <3>. QED BY <1>1, <1>3, <3>1, <3>2, AnsweredFlight DEF Past
  <2>3. ASSUME NEW w \in Waiters, NEW keys \in Clearings, Resume(w, keys)
        PROVE  flights'[f] = flights[f]
    <3>1. flights'[f] = flights[f] \/ flights'[f].st \in {"idle", "done"}
      BY <1>0, <2>3 DEF Resume, Finish, Late, Leave, IdleFlight, Flight
    <3>. QED BY <1>3, <3>1 DEF Running
  <2>4. CASE Reload
    BY <1>3, <2>4 DEF Reload, IdleFlight, Running
  <2>5. ASSUME NEW w \in Waiters, Cancel(w) PROVE flights'[f] = flights[f]
    BY <1>0, <1>3, <2>5 DEF Cancel, IdleFlight, Running
  <2>. QED
    BY <1>0, <2>1, <2>2, <2>3, <2>4, <2>5
    DEF RenewalNext, Call, Join, Refused, Install, Clear, OpSeesOrphan, OpEndsGrant,
        clientVars, renewalVars
<1>4. \A s \in Stores : store'[s] = None
  <2>1. ASSUME NEW w \in Waiters, NEW keys, Finish(w, keys) PROVE \A s \in Stores : store'[s] = None
    <3>1. ~Succeeded(flights[joined[w]].ans)
      BY <2>1 DEF Finish, RenewalInv, RenewalTypeOK, Running, Past
    <3>. QED BY <1>0, <2>1, <3>1 DEF Finish, Cleared
  <2>2. ASSUME NEW s \in Stores, NEW fam \in Families, NEW rt, Install(s, fam, rt) PROVE FALSE
    BY <2>2 DEF Install
  <2>. QED
    BY <1>0, <2>1, <2>2
    DEF RenewalNext, Call, Join, Refused, Cancel, Resume, Late, Clear, Cleared, Reload,
        OpAnswers, OpRotates, OpRenewsWithoutRotating, OpDetectsReuse, OpRefuses, OpUnreachable,
        OpSeesOrphan, OpEndsGrant, clientVars, renewalVars
<1>. QED BY <1>2, <1>3, <1>4 DEF Past, Persisted, Preferred, Stores

(* Where nothing of a session is left, nothing of one appears.             *)
Idle ==
  /\ bearer = None
  /\ \A f \in FlightIds : ~Known(f)
  /\ \A w \in Waiters : joined[w] = None

(* Nothing but a sign-in starts anything there.                            *)
LEMMA IdleStaysIdle ==
  ASSUME RenewalInv, ~Persisted, Idle, RenewalNext, used' = used
  PROVE  Idle'
<1>1. slot = None /\ \A f \in FlightIds : ~Running(f)
  BY DEF Idle, RenewalInv, RenewalTypeOK, SlotHoldsRunning, Running, Known
<1>2. \A w \in Waiters : ~Start(w) /\ ~Join(w) /\ ~Cancel(w) /\ \A keys : ~Resume(w, keys)
  BY <1>1 DEF Start, Refreshable, Join, Cancel, Resume, Finish, Late, Idle
<1>3. \A f \in FlightIds : ~Known(f)'
  BY <1>2, FlightsAge DEF Idle
<1>4. \A f \in FlightIds : ~OpAnswers(f)
  BY <1>1
  DEF OpAnswers, OpRotates, OpRenewsWithoutRotating, OpDetectsReuse, OpRefuses, OpUnreachable,
      Sent, Running
<1>5. \A s \in Stores, fam \in Families, rt \in BOOLEAN : ~Install(s, fam, rt)
  BY DEF Install
<1>6. bearer' = None /\ \A w \in Waiters : joined'[w] = None
  BY <1>2, <1>4, <1>5
  DEF RenewalNext, Call, Refused, Clear, Reload, OpSeesOrphan, OpEndsGrant, clientVars,
      renewalVars, Idle
<1>. QED BY <1>3, <1>6 DEF Idle

(* How a loop or the confirmation comes to end a session: nothing to renew *)
(* it with once it is spent, nothing to renew it with at mount, or an      *)
(* unrecoverable answer.                                                   *)
EndsSpent(s) == /\ Preferred = s /\ Persisted /\ ~store[s].rt /\ life[s] = "spent"
                /\ Clear(KeysOf(s)) /\ EndedByLoop

EndsUnconfirmed == /\ slot = None /\ Persisted /\ ~store[Preferred].rt
                   /\ ctx.conf = "unconfirmed" /\ life[Preferred] # "fresh"
                   /\ Clear(KeysOf(Preferred)) /\ EndedByLoop

EndsDead(w) ==
  \/ pc[w] = "tick" /\ w \in OidcLoops /\ Dead(w, "oidc")
  \/ pc[w] = "tick" /\ w \in StandaloneLoops /\ Dead(w, "standalone")
  \/ pc[w] = "confirm" /\ Dead(w, flights[joined[w]].at)

(* Updates of the context that leave its user alone.                       *)
LEMMA UserKept ==
  ASSUME NEW c \in Context
  PROVE  /\ [c EXCEPT !.conf = "confirmed", !.loading = FALSE].user = c.user
         /\ [c EXCEPT !.conf = "confirmed", !.loading = FALSE].tokens = c.tokens
         /\ [c EXCEPT !.conf = "confirmed", !.loading = FALSE] \in Context
         /\ \A b : [c EXCEPT !.loading = b].user = c.user /\ [c EXCEPT !.loading = b].tokens = c.tokens
         /\ \A b : [c EXCEPT !.tokens = b].user = c.user /\ [c EXCEPT !.tokens = b].tokens = b
BY DEF Context

(* Which steps put a user on screen or take one off it.                    *)
LEMMA ContextStep ==
  ASSUME AgentTypeOK, [AgentNext]_agentVars
  PROVE  \/ ctx'.user = ctx.user /\ (ctx.tokens => ctx'.tokens)
         \/ ~ctx.tokens /\ ctx' = EndedCtx
         \/ \E s \in Stores, fam \in Families, rt \in BOOLEAN :
              SignIn(s, fam, rt) \/ \E w \in Waiters : Switched(w, fam, rt)
         \/ Boot \/ Watch
         \/ \E s \in Stores : EndsSpent(s)
         \/ EndsUnconfirmed
         \/ \E w \in Waiters : EndsDead(w)
<1> DEFINE Kept == ctx'.user = ctx.user /\ (ctx.tokens => ctx'.tokens)
<1>0. ctx \in Context
  BY DEF AgentTypeOK
<1>1. ASSUME ctx' = ctx PROVE Kept
  BY <1>1
<1>2. ASSUME ctx' = MarkConfirmed(ctx) PROVE Kept
  BY <1>0, <1>2, UserKept DEF MarkConfirmed
<1>3. ASSUME NEW b, ctx' = [ctx EXCEPT !.loading = b] PROVE Kept
  BY <1>0, <1>3, UserKept
<1>4. ASSUME NEW w \in Waiters, NEW l, EnsureThenSend(w, l) PROVE ctx' = ctx
  BY <1>4 DEF EnsureThenSend, Await
<1>5. ASSUME NEW w \in Waiters, NEW mirrors, NEW l, Honoured(w, mirrors, l) PROVE Kept
  <2>1. PICK b \in BOOLEAN : /\ ctx' = [MarkConfirmed(ctx) EXCEPT !.tokens = b]
                             /\ MarkConfirmed(ctx).tokens => b
    <3>1. PICK b \in BOOLEAN : b = (MarkConfirmed(ctx).tokens \/ (mirrors /\ store'["oidc"] # None))
      OBVIOUS
    <3>. QED BY <1>5, <3>1 DEF Honoured
  <2>2. /\ MarkConfirmed(ctx) \in Context
        /\ MarkConfirmed(ctx).user = ctx.user /\ MarkConfirmed(ctx).tokens = ctx.tokens
    BY <1>0, UserKept DEF MarkConfirmed
  <2>3. ctx'.user = ctx.user /\ ctx'.tokens = b
    BY <2>1, <2>2, UserKept
  <2>. QED BY <2>1, <2>2, <2>3
<1>6. ASSUME NEW w \in Waiters, NEW releases, Blip(w, releases) PROVE Kept
  BY <1>3, <1>6 DEF Blip
<1>7. ASSUME NEW w \in Waiters, NEW ends, After401(w, ends)
      PROVE  Kept \/ (~ctx.tokens /\ ctx' = EndedCtx)
  BY <1>1, <1>7 DEF After401, ClearsAfter401
<1>8. ASSUME NEW w \in Waiters, Continue(w) PROVE Kept \/ EndsUnconfirmed
  BY <1>1, <1>4, <1>8 DEF Continue, SecondEnsure, BeginTyped, Confirm, Await, Refreshable, EndsUnconfirmed
<1>9. ASSUME NEW w \in Waiters, Begin(w) PROVE Kept \/ \E s \in Stores : EndsSpent(s)
  <2>1. ASSUME NEW s \in Stores, Tick(w, s) PROVE Kept \/ EndsSpent(s)
    BY <1>1, <2>1 DEF Tick, Await, EndsSpent
  <2>. QED
    BY <1>1, <1>4, <1>9, <2>1
    DEF Begin, BeginRequest, BeginTyped, OidcTick, StandaloneTick, SignOutWithoutBearer, Stores
<1>10. ASSUME NEW w \in Waiters, Wake(w)
       PROVE  Kept \/ EndsDead(w) \/ (~ctx.tokens /\ ctx' = EndedCtx)
  <2>1. CASE AfterFirst(w) \/ AfterSecond(w) \/ AfterSingle(w)
    BY <1>1, <2>1 DEF AfterFirst, AfterSecond, AfterSingle
  <2>2. CASE AfterRecover(w)
    BY <1>7, <2>2 DEF AfterRecover
  <2>3. CASE AfterTick(w)
    BY <1>5, <1>6, <2>3 DEF AfterTick, EndsDead
  <2>4. CASE AfterConfirm(w)
    BY <1>5, <1>6, <2>4 DEF AfterConfirm, EndsDead
  <2>. QED BY <1>10, <2>1, <2>2, <2>3, <2>4 DEF Wake
<1>11. ASSUME NEW w \in Waiters, Answered(w)
       PROVE  Kept \/ (~ctx.tokens /\ ctx' = EndedCtx)
  BY <1>1, <1>2, <1>3, <1>7, <1>11
  DEF Answered, Accepted, Failed, Rejected401, Recover, Await
<1>12. ASSUME \/ \E w \in Waiters : SignOutClears(w) \/ Unmount(w)
              \/ ContactSignIn \/ DebounceElapses \/ OpStep
              \/ \E s \in Stores : Age(s)
              \/ UNCHANGED agentVars
       PROVE  Kept
  BY <1>1, <1>12
  DEF SignOutClears, Unmount, ContactSignIn, DebounceElapses, OpStep, Age, agentVars, agentOnly
<1> HIDE DEF Kept
<1>13. Kept => ctx'.user = ctx.user /\ (ctx.tokens => ctx'.tokens)
  BY DEF Kept
<1>14. "oidc" \in Stores
  BY DEF Stores
<1>. QED
  BY <1>8, <1>9, <1>10, <1>11, <1>12, <1>13, <1>14 DEF AgentNext, Others

(* An answer that ends a session ends the one persisted, whose grant is    *)
(* over, as is every flight's.                                             *)
LEMMA DeadIsPast ==
  ASSUME RenewalInv, BrowserInv, NEW w \in Waiters, NEW keys, Hear(w, keys), Result(w) = "dead"
  PROVE  /\ Past
         /\ store["oidc"] # None => grant[store["oidc"].tok.fam] # "live"
<1>1. PICK f \in FlightIds : f = joined[w] /\ Known(f) /\ flights[f].ans = "dead"
  BY DeadResult
<1>2. \A g \in FlightIds : Running(g) => Known(g)
  BY DEF Running, Known
<1>. QED
  BY <1>1, <1>2 DEF BrowserInv, OutcomeInv, RefusedIsOver, OneSession, Past

(* When a session ends, all of it ends.                                    *)
LEMMA EndsWhole ==
  ASSUME RenewalInv, BrowserInv, OidcBrowser,
         \/ \E s \in Stores : EndsSpent(s)
         \/ EndsUnconfirmed
         \/ \E w \in Waiters : EndsDead(w)
  PROVE  ~ctx'.user /\ ~Persisted' /\ Past' /\ pending'
<1>0. EndedCtx.user = FALSE
  BY DEF EndedCtx, NobodyIn
<1>1. Persisted => Preferred = "oidc"
  BY OnlyIsPreferred DEF BrowserInv, Stores
<1>2. ASSUME EndedByLoop PROVE ~ctx'.user /\ pending'
  BY <1>0, <1>2 DEF EndedByLoop, OidcBrowser
<1>3. ASSUME NEW s \in Stores, EndsSpent(s) \/ EndsUnconfirmed
      PROVE  ~ctx'.user /\ ~Persisted' /\ Past' /\ pending'
  <2>1. Clear(Stores) /\ EndedByLoop
    BY <1>1, <1>3 DEF EndsSpent, EndsUnconfirmed, KeysOf
  <2>2. ~Persisted'
    BY <2>1 DEF Clear, Cleared, Persisted, Preferred, Stores
  <2>3. \A f \in FlightIds : ~Running(f)
    BY <1>1, <1>3, RenewalAssumption
    DEF EndsSpent, EndsUnconfirmed, BrowserInv, OneSession, RenewalInv, SingleFlight, Persisted
  <2>4. Past'
    BY <2>1, <2>3 DEF Clear, Past, Running
  <2>. QED BY <1>2, <2>1, <2>2, <2>4
<1>4. ASSUME NEW w \in Waiters, EndsDead(w)
      PROVE  ~ctx'.user /\ ~Persisted' /\ Past' /\ pending'
  <2>1. Dead(w, "oidc")
    <3>1. pc[w] = "confirm" /\ Dead(w, flights[joined[w]].at) => flights[joined[w]].at = "oidc"
      BY DeadResult DEF Dead, BrowserInv, OneSession
    <3>. QED BY <1>4, <3>1 DEF EndsDead, BrowserInv
  <2>2. Hear(w, Stores) /\ Result(w) = "dead" /\ EndedByLoop
    BY <2>1 DEF Dead, KeysOf
  <2>3. Past
    BY <2>2, DeadIsPast
  <2>4. ~Persisted'
    BY <2>2 DEF Hear, Resume, Finish, Late, Cleared, Persisted, Preferred, Stores
  <2>5. grant' = grant
    BY <2>2 DEF Hear, Resume, Finish, Late, opVars
  <2>6. \A f \in FlightIds : Running(f)' => Running(f) /\ flights'[f] = flights[f]
    BY <2>2 DEF Hear, Resume, Finish, Late, Leave, IdleFlight, Running, RenewalInv, RenewalTypeOK, Flight
  <2>. QED BY <1>2, <2>2, <2>3, <2>4, <2>5, <2>6 DEF Past
<1>. QED BY <1>3, <1>4, Zenon DEF Stores

(* The standalone loop has nothing to renew in such a browser.             *)
LEMMA StandaloneLoopRests ==
  ASSUME AgentTypeOK, OneStore("oidc"), [AgentNext]_agentVars,
         NEW w \in StandaloneLoops, pc[w] # "tick"
  PROVE  pc'[w] # "tick"
<1>1. w \in Waiters /\ w \notin OidcLoops
  BY AgentAssumption
<1>2. ~StandaloneTick(w)
  BY OnlyIsPreferred DEF StandaloneTick, Tick, Stores
<1>3. ASSUME NEW l \in {"first", "second", "single"}, EnsureThenSend(w, l) PROVE pc'[w] # "tick"
  BY <1>1, <1>3 DEF EnsureThenSend, Await, RefusedNow, Send, Goto, AgentTypeOK
<1>4. ASSUME NEW ends, After401(w, ends) PROVE pc'[w] # "tick"
  BY <1>1, <1>4 DEF After401, Return, Goto, AgentTypeOK
<1>5. CASE Boot
  BY <1>1, <1>5 DEF Boot
<1>6. CASE Continue(w) \/ Begin(w)
  BY <1>1, <1>2, <1>3, <1>6
  DEF Continue, SecondEnsure, BeginTyped, Confirm, Begin, BeginRequest, OidcTick,
      SignOutWithoutBearer, Await, Goto, AgentTypeOK
<1>7. CASE Wake(w)
  BY <1>1, <1>4, <1>7
  DEF Wake, AfterFirst, AfterSecond, AfterSingle, AfterRecover, AfterTick, AfterConfirm,
      Honoured, Dead, Blip, Goto, AgentTypeOK
<1>8. CASE Answered(w) \/ SignOutClears(w) \/ Unmount(w)
            \/ \E fam \in Families, rt \in BOOLEAN : Switched(w, fam, rt)
  BY <1>1, <1>4, <1>8
  DEF Answered, Accepted, Failed, Rejected401, Recover, Await, Return, SignOutClears, Unmount,
      Switched, Goto, AgentTypeOK
<1>. QED
  BY <1>1, <1>5, <1>6, <1>7, <1>8, OwnStep DEF Acts

(* In a page lifetime in which nothing of a session is left, no task gets  *)
(* anywhere.                                                               *)
LEMMA NothingMoves ==
  ASSUME AgentTypeOK, ~ctx.user, ~Persisted, Untouched, [AgentNext]_agentVars,
         NEW w \in Waiters
  PROVE  pc'[w] \in {"idle", "mount", "boot"}
<1>1. pc[w] \in {"idle", "mount", "boot"} /\ joined[w] = None /\ bearer = None
  BY DEF Untouched
<1>2. CASE pc'[w] = pc[w]
  BY <1>1, <1>2
<1>3. CASE Boot
  BY <1>3 DEF Boot
<1>4. CASE Unmount(w)
  BY <1>4 DEF Unmount, Goto, AgentTypeOK
<1>5. CASE Continue(w)
  BY <1>1, <1>5 DEF Continue, SecondEnsure, BeginTyped, Confirm, Goto, AgentTypeOK
<1>6. ~Begin(w) /\ ~Wake(w) /\ ~Answered(w) /\ ~SignOutClears(w)
      /\ \A fam, rt : ~Switched(w, fam, rt)
  BY <1>1
  DEF Begin, BeginRequest, BeginTyped, OidcTick, StandaloneTick, Tick, SignOutWithoutBearer,
      Wake, AfterFirst, AfterSecond, AfterSingle, AfterRecover, AfterTick, AfterConfirm,
      Answered, Accepted, Failed, Rejected401, Recover, SignOutClears, Switched
<1>. QED BY <1>2, <1>3, <1>4, <1>5, <1>6, OwnStep DEF Acts

(* What a boot without a bundle leaves.                                    *)
LEMMA BootWithoutBundle ==
  ASSUME ~Persisted, Boot
  PROVE  ~ctx'.user /\ ~Persisted' /\ Past' /\ Untouched'
BY DEF Boot, Reload, RestoredContext, NobodyIn, Persisted, Preferred, Past, Untouched, Known,
       Running, IdleFlight

(* A navigation under way is not called off.                               *)
LEMMA PendingStays ==
  ASSUME [AgentNext]_agentVars, pending, ~Boot, ~Watch
  PROVE  pending'
<1>1. ASSUME NEW w \in Waiters, NEW l, EnsureThenSend(w, l) PROVE pending'
  BY <1>1 DEF EnsureThenSend, Await
<1>2. ASSUME NEW w \in Waiters, Continue(w) \/ Begin(w) PROVE pending'
  BY <1>1, <1>2
  DEF Continue, SecondEnsure, BeginTyped, Confirm, Begin, BeginRequest, OidcTick,
      StandaloneTick, Tick, SignOutWithoutBearer, Await, EndedByLoop
<1>3. ASSUME NEW w \in Waiters, Wake(w) PROVE pending'
  BY <1>3
  DEF Wake, AfterFirst, AfterSecond, AfterSingle, AfterRecover, AfterTick, AfterConfirm,
      Honoured, Dead, Blip, After401, EndedByLoop
<1>4. ASSUME NEW w \in Waiters, Answered(w) \/ SignOutClears(w) \/ Unmount(w) PROVE pending'
  BY <1>4
  DEF Answered, Accepted, Failed, Rejected401, Recover, After401, Await, SignOutClears, Unmount
<1>5. ASSUME \/ \E s \in Stores, fam \in Families, rt \in BOOLEAN : SignIn(s, fam, rt)
             \/ \E w \in Waiters, fam \in Families, rt \in BOOLEAN : Switched(w, fam, rt)
             \/ ContactSignIn \/ DebounceElapses \/ OpStep
             \/ \E s \in Stores : Age(s)
             \/ UNCHANGED agentVars
      PROVE  pending'
  BY <1>5
  DEF SignIn, Switched, ContactSignIn, DebounceElapses, OpStep, Age, agentVars, agentOnly
<1>. QED BY <1>2, <1>3, <1>4, <1>5 DEF AgentNext, Others

(* A user comes on screen with OIDC tokens, and a user who leaves it       *)
(* leaves nothing.                                                         *)
LEMMA BrowserStep ==
  ASSUME RenewalInv, RenewalInv', AgentTypeOK, OidcBrowser, BrowserInv, [AgentNext]_agentVars
  PROVE  BrowserInv'
<1>0. RenewalStep
  BY AgentStepIsRenewalStep
<1>1. OutcomeInv'
  BY <1>0, OutcomeStep DEF RenewalStep, BrowserInv
<1>2. OneStore("oidc")'
  BY OneStoreStep DEF OidcBrowser, OnlyKind, BrowserInv, Stores
<1>3. \A w \in StandaloneLoops : pc'[w] # "tick"
  BY StandaloneLoopRests DEF BrowserInv
<1>4. ASSUME used' # used PROVE ~ctx.user /\ ctx'.user /\ ctx'.tokens /\ OneSession'
  <2>1. PICK fam \in Families, rt \in BOOLEAN : SignIn("oidc", fam, rt)
    BY <1>4, OnlySignInsInstall DEF OidcBrowser, SignIn, Switched
  <2>2. ~ctx.user /\ ~pending
    BY <2>1 DEF SignIn, OidcBrowser
  <2>3. ctx'.user /\ ctx'.tokens
    BY <2>1 DEF SignIn, SignedInWith, AgentTypeOK, Context
  <2>4. \A f \in FlightIds : ~Known(f)'
    BY <2>1, <2>2 DEF BrowserInv, Untouched, Known, SignIn, SignedInWith, Install
  <2>. QED BY <2>2, <2>3, <2>4 DEF OneSession, Known, Running
<1>5. ASSUME used' = used PROVE OneSession'
  <2>1. CASE RenewalNext
    BY <1>5, <2>1, OneSessionKept DEF BrowserInv
  <2>2. CASE UNCHANGED renewalVars
    BY <2>2 DEF BrowserInv, OneSession, renewalVars, Known, Running
  <2>. QED BY <1>0, <2>1, <2>2 DEF RenewalStep
<1>6. ASSUME used' = used, ~ctx.user
      PROVE  ~Persisted' /\ Past' /\ (~pending /\ ~pending' => Untouched')
  <2>1. ~Persisted /\ Past /\ (~pending => Untouched)
    BY <1>6 DEF BrowserInv
  <2>2. ~Persisted' /\ Past'
    <3>1. CASE RenewalNext
      BY <1>6, <2>1, <3>1, GoneStaysGone
    <3>2. CASE UNCHANGED renewalVars
      BY <2>1, <3>2 DEF renewalVars, Persisted, Preferred, Past, Running
    <3>. QED BY <1>0, <3>1, <3>2 DEF RenewalStep
  <2>3. ASSUME ~pending, ~pending' PROVE Untouched'
    <3>1. Idle'
      <4>1. Idle
        BY <2>1, <2>3 DEF Untouched, Idle
      <4>2. CASE RenewalNext
        BY <1>6, <2>1, <4>1, <4>2, IdleStaysIdle
      <4>3. CASE UNCHANGED renewalVars
        BY <4>1, <4>3 DEF renewalVars, Idle, Known
      <4>. QED BY <1>0, <4>2, <4>3 DEF RenewalStep
    <3>2. \A w \in Waiters : pc'[w] \in {"idle", "mount", "boot"}
      BY <1>6, <2>1, <2>3, NothingMoves
    <3>. QED BY <2>3, <3>1, <3>2 DEF Idle, Untouched
  <2>. QED BY <2>2, <2>3
<1>7. ASSUME Boot
      PROVE  /\ ctx'.user => ctx'.tokens
             /\ ~ctx'.user => ~Persisted' /\ Past' /\ (pending' \/ Untouched')
  <2>1. CASE Persisted
    <3>1. Preferred = "oidc"
      BY <2>1, OnlyIsPreferred DEF BrowserInv, Stores
    <3>. QED BY <1>7, <2>1, <3>1 DEF Boot, RestoredContext
  <2>2. CASE ~Persisted
    BY <1>7, <2>2, BootWithoutBundle
  <2>. QED BY <2>1, <2>2
<1>8. ASSUME ~Boot, ctx.user
      PROVE  /\ ctx'.user => ctx'.tokens
             /\ ~ctx'.user => ~Persisted' /\ Past' /\ (pending' \/ Untouched')
  <2>1. ctx.tokens
    BY <1>8 DEF BrowserInv
  <2>2. \A s \in Stores, fam \in Families, rt \in BOOLEAN :
          ~SignIn(s, fam, rt) /\ \A w \in Waiters : ~Switched(w, fam, rt)
    BY <1>8 DEF SignIn, Switched, OidcBrowser
  <2>3. ~Watch
    BY DEF Watch, OidcBrowser
  <2>4. \/ ctx'.user /\ ctx'.tokens
        \/ \E s \in Stores : EndsSpent(s)
        \/ EndsUnconfirmed
        \/ \E w \in Waiters : EndsDead(w)
    BY <1>8, <2>1, <2>2, <2>3, ContextStep
  <2>. QED BY <2>4, EndsWhole
<1>9. ASSUME ~Boot, ~ctx.user, used' = used
      PROVE  ~ctx'.user /\ (pending' \/ Untouched')
  <2>1. ~Watch
    BY DEF Watch, OidcBrowser
  <2>2. \A s \in Stores, fam \in Families, rt \in BOOLEAN :
          ~SignIn(s, fam, rt) /\ \A w \in Waiters : ~Switched(w, fam, rt)
    BY <1>9 DEF SignIn, Switched, SignedInWith, Install
  <2>3. ~ctx'.user
    <3>1. EndedCtx.user = FALSE
      BY DEF EndedCtx, NobodyIn
    <3>2. \/ ctx'.user = ctx.user \/ ctx' = EndedCtx
          \/ \E v \in Stores : EndsSpent(v)
          \/ EndsUnconfirmed
          \/ \E w \in Waiters : EndsDead(w)
      BY <1>9, <2>1, <2>2, ContextStep
    <3>. QED BY <1>9, <3>1, <3>2, EndsWhole
  <2>4. pending => pending'
    BY <1>9, <2>1, PendingStays
  <2>5. pending' \/ (~pending /\ ~pending')
    BY <2>4
  <2>. QED BY <1>6, <1>9, <2>3, <2>5
<1>. QED
  BY <1>1, <1>2, <1>3, <1>4, <1>5, <1>6, <1>7, <1>8, <1>9 DEF BrowserInv

(* In a browser where everybody signs in through OIDC and nobody switches  *)
(* tenant, whatever its pages, loops, loaders and sign-outs do and whether *)
(* or not contacts sign in there too: a session that has left the screen   *)
(* has left the store, and no renewal still under way persists it again.   *)
THEOREM BrowserIsInvariant ==
  ASSUME OidcBrowser
  PROVE  AgentSpec => []BrowserInv
<1>1. AgentInit => BrowserInv
  <2> SUFFICES ASSUME AgentInit PROVE BrowserInv
    OBVIOUS
  <2>1. OutcomeInv
    BY InitOutcome DEF AgentInit
  <2>2. /\ \A f \in FlightIds : ~Known(f) /\ ~Running(f)
        /\ \A s \in Stores : store[s] = None
        /\ ~ctx.user
    BY DEF AgentInit, RenewalInit, IdleFlight, Known, Running, NobodyIn
  <2>3. \A w \in Waiters : joined[w] = None /\ pc[w] \in {"idle", "mount", "boot"}
    BY DEF AgentInit, RenewalInit
  <2>4. \A w \in StandaloneLoops : pc[w] # "tick"
    BY <2>3, AgentAssumption
  <2>. QED
    BY <2>1, <2>2, <2>3, <2>4
    DEF AgentInit, RenewalInit, BrowserInv, OneStore, OneSession, Past, Untouched, Persisted,
        Preferred, Stores
<1>2. RenewalInv /\ RenewalInv' /\ AgentInv /\ BrowserInv /\ [AgentNext]_agentVars => BrowserInv'
  BY BrowserStep DEF AgentInv
<1>. QED BY <1>1, <1>2, AgentKeepsRenewalInv, AgentIsInvariant, PTL DEF AgentSpec

(* SessionConfirmation::Ended: "The persisted bundle has been cleared"     *)
(* (auth.rs:57), and stays so in such a browser.  Elsewhere a renewal on   *)
(* the wire can persist it again: after a sign-out on the desktop, or      *)
(* after a /me answered 401 has ended a standalone session.                *)
THEOREM EndedIsAlwaysCleared ==
  ASSUME OidcBrowser
  PROVE  AgentSpec => []EndedIsCleared
<1>1. BrowserInv => EndedIsCleared
  BY DEF BrowserInv, EndedIsCleared
<1>. QED BY <1>1, BrowserIsInvariant, PTL

(* How a session on screen in such a browser may be ended in one step.     *)
LEMMA EndedWasLost ==
  ASSUME RenewalInv, RenewalInv', AgentTypeOK, OidcBrowser, BrowserInv, [AgentNext]_agentVars,
         ctx.user, ~ctx'.user, Persisted, ~Persisted'
  PROVE  \/ grant[store[Preferred].tok.fam] # "live"
         \/ /\ ~store[Preferred].rt
            /\ \/ life[Preferred] = "spent"
               \/ ctx.conf = "unconfirmed" /\ life[Preferred] # "fresh"
<1>1. Preferred = "oidc" /\ store["oidc"] # None
  BY OnlyIsPreferred DEF BrowserInv, Stores, Persisted
<1>2. ctx.tokens
  BY DEF BrowserInv
<1>3. ~Boot
  BY DEF Boot, Reload, Persisted, Preferred
<1>4. ~Watch
  BY DEF Watch, OidcBrowser
<1>5. \A s \in Stores, fam \in Families, rt \in BOOLEAN :
        ~SignIn(s, fam, rt) /\ \A w \in Waiters : ~Switched(w, fam, rt)
  BY DEF SignIn, Switched, OidcBrowser
<1>6. \/ \E s \in Stores : EndsSpent(s)
      \/ EndsUnconfirmed
      \/ \E w \in Waiters : EndsDead(w)
  BY <1>2, <1>3, <1>4, <1>5, ContextStep
<1>7. ASSUME NEW s \in Stores, EndsSpent(s)
      PROVE  ~store[Preferred].rt /\ life[Preferred] = "spent"
  BY <1>7 DEF EndsSpent
<1>8. ASSUME NEW w \in Waiters, EndsDead(w)
      PROVE  grant[store[Preferred].tok.fam] # "live"
  <2>1. \E s : Dead(w, s)
    BY <1>8 DEF EndsDead
  <2>. QED BY <1>1, <2>1, DeadIsPast DEF Dead
<1>. QED BY <1>6, <1>7, <1>8 DEF EndsUnconfirmed

(* In such a browser a step that takes a session off the screen and out of *)
(* the store finds it lost: the unrecoverable answer it acts on is about   *)
(* the session it ends (auth.rs:773-797), even if a reload, a sign-out or  *)
(* another flight came in between, or the bundle has no refresh token and  *)
(* is spent, or inside its window with the restored session unconfirmed.   *)
THEOREM OnlyLostSessionsEnd ==
  ASSUME OidcBrowser
  PROVE  AgentSpec => EndsOnlyTheLost
<1> DEFINE Lost == \/ grant[store[Preferred].tok.fam] # "live"
                   \/ /\ ~store[Preferred].rt
                      /\ \/ life[Preferred] = "spent"
                         \/ ctx.conf = "unconfirmed" /\ life[Preferred] # "fresh"
           A == ctx.user /\ ~ctx'.user /\ Persisted /\ ~Persisted' => Lost
<1>1. RenewalInv /\ RenewalInv' /\ AgentInv /\ BrowserInv /\ [AgentNext]_agentVars => [A]_agentVars
  BY EndedWasLost DEF AgentInv
<1>2. AgentSpec => [][A]_agentVars
  BY <1>1, AgentKeepsRenewalInv, AgentIsInvariant, BrowserIsInvariant, PTL DEF AgentSpec
<1>. QED BY <1>2 DEF EndsOnlyTheLost

(* "One renewal attempt: on success ... every use_resource closure ...     *)
(* re-fetches with the new token on its own": in such a browser a 401      *)
(* whose renewal succeeded never ends the session, for any task.  The run  *)
(* standalone_401 shows that standalone sessions are different.            *)
THEOREM RenewedAlwaysSurvives401 ==
  ASSUME OidcBrowser
  PROVE  AgentSpec => RenewedSurvives401
<1> DEFINE A == \A w \in Waiters :
                  (pc[w] = "recover" /\ pc'[w] # "recover" /\ Awaited(w) /\ Result(w) = "ok" /\ Persisted)
                     => Persisted'
<1>1. RenewalInv /\ RenewalInv' /\ AgentInv /\ BrowserInv /\ [AgentNext]_agentVars => [A]_agentVars
  <2>1. BrowserInv /\ Persisted => \A w : ~ClearsAfter401(w)
    BY DEF BrowserInv, ClearsAfter401
  <2>. QED BY <2>1, RecoveredStays DEF AgentInv
<1>2. AgentSpec => [][A]_agentVars
  BY <1>1, AgentKeepsRenewalInv, AgentIsInvariant, BrowserIsInvariant, PTL DEF AgentSpec
<1>. QED BY <1>2 DEF RenewedSurvives401

(* On every platform and for every kind of session, a page's request whose *)
(* 401 was answered by a successful renewal does not end the session: only *)
(* the tasks that reconcile /auth/me can (refresh_user_from_me).           *)
PagesSurvive401 ==
  [][\A w \in Waiters \ Reconcilers :
       (pc[w] = "recover" /\ pc'[w] # "recover" /\ Awaited(w) /\ Result(w) = "ok" /\ Persisted)
         => Persisted']_agentVars

(* So it is, for every deployment: the sessions standalone_401 loses are   *)
(* lost by the reconcilers alone.                                          *)
THEOREM PagesAlwaysSurvive401 == AgentSpec => PagesSurvive401
<1> DEFINE A == \A w \in Waiters \ Reconcilers :
                  (pc[w] = "recover" /\ pc'[w] # "recover" /\ Awaited(w) /\ Result(w) = "ok" /\ Persisted)
                     => Persisted'
<1>1. RenewalInv /\ RenewalInv' /\ AgentInv /\ [AgentNext]_agentVars => [A]_agentVars
  BY RecoveredStays DEF AgentInv, ClearsAfter401
<1>2. AgentSpec => [][A]_agentVars
  BY <1>1, AgentKeepsRenewalInv, AgentIsInvariant, PTL DEF AgentSpec
<1>. QED BY <1>2 DEF PagesSurvive401

(* No caller of renew_access_token is left waiting for a flight that was   *)
(* freed, and what an unrecoverable answer says holds, throughout the      *)
(* session.                                                                *)
THEOREM AgentKeepsOutcomes == AgentSpec => []OutcomeInv
BY AgentImplementsRenewal, OutcomesAreFinal, PTL DEF ImplementsRenewal
=============================================================================
