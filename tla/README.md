# Verification of the mokosh front end

mokosh-apps is one Rust (Dioxus) program built twice: as a WASM single-page
application that runs in a browser tab, and as a desktop window. This directory
holds TLA+ modules of the parts of it that have state and concurrency of their
own, the TLC configurations that model-check them on small instances, and
TLAPS proofs of their main properties for every instance. Paths below are
relative to the repository; `fetch.rs` and `auth.rs` are `src/hooks/fetch.rs`
and `src/hooks/auth.rs`.

## 1. Inventory

Everything runs on one cooperative executor. A task runs without interruption
from one `await` to the next, so the unit of interleaving is the poll; what a
task read before an `await` may be stale after it. In the browser, a reload
destroys all memory and keeps the session store; a desktop window has no
reload.

| Component | State | Operations | What is hard about it |
|---|---|---|---|
| Agent bearer renewal (`fetch.rs` 452-716, `modules/oidc/storage.rs`, `refresh_tokens` in `modules/oidc/flow.rs`) | `ACCESS_TOKEN`, `RENEWAL` (slot with a shared future), `RENEWAL_SEQ`, `LAST_RENEWAL`, the OIDC and the standalone bundle | join or start a flight, finish it, clear it, drop out of it; install, clear, rehydrate a session | refresh tokens are single use and a second use kills the grant; callers are cancelled; a flight outlives the session it belongs to; reloads lose answers |
| Agent session (`auth.rs`, request helpers and 401 handling in `fetch.rs`, `pages/login.rs`, `pages/auth_callback.rs`, `components/tenant_switcher.rs`, `modules/auth/sign_out.rs`) | `AuthContext` with `SessionConfirmation` and `is_loading`, `SESSION_ENDED`, the position of each task | rehydrate, confirm, refresh ticks, `/me` reconcile, request with renewal before and after, sign-in, switch, sign-out, plane switch, end of session | state used after an `await`; two layers that both end a session; a render gate lowered by an asynchronous check |
| OIDC sign-in flow (`modules/oidc/flow.rs`, `native_flow.rs`, `storage.rs`, `pages/auth_callback.rs`, `platform/loopback.rs`) | `PendingFlow`, restart counter, `IN_PROGRESS`, `CAPTURED_QUERY` | start, complete, restart, report a failure | single use and expiry of a flow across reloads and tabs; a bounded login loop |
| Server reachability (`fetch.rs` 90-270, `hooks/server_status.rs`, `hooks/remote_data.rs`) | `SERVER_REACHABLE`, `CONSECUTIVE_FAILURES` | record an outcome, recovery poll | which outcomes are recorded; a poll that must stop and must not stop |
| Update check (`hooks/update_check.rs`) | `UPDATE_PENDING`, `SKEW_PROBE_REQUESTED`, time of detection | poll, probe, reload at a boundary | sticky flag; a probe requested while one runs; a deferral cap |
| Contact portal session (`hooks/contact_auth.rs`, `hooks/capabilities.rs`, `pages/contact_portal/`) | contact token pair, capabilities, company | bootstrap from the cookie, sign in and out; the periodic refresh is not mounted | two planes on one origin; a token nothing renews |
| Unsaved changes and window close (`hooks/unsaved_guard.rs`, `platform/window_close.rs`, the forms that use them: `pages/knowledge_base.rs`) | `UNSAVED_CHANGES`, `CLOSE_CONFIRM`, re-show flag, the form's own signals | mirror dirtiness, close request, confirm, cancel; edit, upload, submit, cancel | a copied flag that two hosts trust; hide-then-show; a document that ends on its own for a new build |
| Memberships and tenant switcher (`auth.rs` 605-691, `pages/pick_tenant.rs`, `pages/create_org.rs`) | `memberships`, `memberships_loaded`, `TENANT_GENERATION` | load, clear, switch | a loaded flag against the paths that clear the list |
| Request helpers and pagination (`fetch.rs` 1340-3500) | none | one request; whole-list reads | page cap at its boundary |
| Paged lists (`pages/tickets.rs`, `components/table.rs`, `components/bulk_actions.rs`, `hooks/debounce.rs`) | search and its debounced copy, filters, page, rows, selection, the bulk delete | type, filter, turn pages, select, delete | late timers, overtaken fetches, rows of another query under the user's hand |
| Shared lists (`hooks/shared_list.rs`) | a wanted flag per list | ask; refetch | late answers |
| Account deletion (`fetch.rs` 113-142, `auth.rs` 976-1034) | `ACCOUNT_DELETED` | raise once; heartbeat | one-way flag |
| Offline edit queue (`hooks/edit_queue.rs`) | an always empty queue | none yet | a scaffold |
| Branding, theme, preferences; platform layer; routing; the other pages; pure helpers; build | presentation state, wrappers, functions | | not modelled, see section 7 |

How they interact. Pages call the request helpers; the helpers renew the
bearer before a request and after a 401, through `renew_access_token`, which
the refresh loops and the mount-time confirmation call too. The renewal layer
writes the session store and the bearer and bumps `TENANT_GENERATION`, which
re-drives every mounted resource. The helpers cannot reach `AuthContext`, so
when they end a session they navigate (browser) or raise `SESSION_ENDED`
(desktop). Sign-in, switch and sign-out write the store, the bearer and the
context directly. Every answer feeds the reachability counter, and some of them
request an update probe.

What makes each component correct:

- renewal: one exchange at a time; no superseded refresh token is presented;
  everybody who waits hears the outcome; what is persisted is what is held;
- session: what is on screen, what is held and what is persisted agree; a
  session is confirmed only by the identity provider; only a dead session is
  ended and a dead session is ended; the loading screen goes away;
- sign-in flow: a flow completes at most once and only while it is young; the
  login loop is bounded; the desktop guard is always released;
- reachability: down only after consecutive failures, and up again by itself,
  with everything on the page loaded anew;
- update check: a detected build is applied in the end, and never un-detected;
- contact session: the planes exclude each other;
- unsaved changes: no edits go with their document unless the user was asked;
- lists: at rest they show what their controls say, and nothing the user has
  deleted.

## 2. Modules

`RefreshGrant` is the abstract specification: what the client promises the
identity provider (OP). One exchange at a time, never for a token whose
successor has been received.

`TokenRenewal` is the renewal layer in detail. It EXTENDS nothing of the
project; the OP is part of it, as its environment.

| Variable | Code |
|---|---|
| `store` | the session store: `AUTH_KEY` (`"oidc"`) and `STANDALONE_KEY` (`"standalone"`) |
| `bearer` | `ACCESS_TOKEN` |
| `slot`, `flights` | `RENEWAL` and the shared futures it and its callers hold |
| `joined` | which flight each task awaits |
| `used` | the sessions (families) signed in to so far |
| `cur`, `grant`, `orphans` | the OP: the version it accepts, the state of each grant, requests whose page is gone |
| `lost`, `rotated` | history: sessions that lost an answer, tokens that have a successor |

A token is a session (family) and a version, standing for the access token and
the refresh token minted with it. `Join`, `Start` and `Refused` are
`renew_access_token` up to its `await`; `Finish` is the poll that completes
`renew_persisted_session` and returns to its caller; `Late` is the return of a
caller that did not complete it. `Finish` and `Late` take the set of keys the
caller goes on to clear in the same poll, because in the code nothing can come
between. `Cancel` drops a task. `Install`, `Clear` and `Reload` are how
sessions come and go.

`AgentSession` EXTENDS `TokenRenewal` with everything above it. `pc` is the
point at which each task waits; one action is one poll. Tasks come in kinds,
each a CONSTANT set: page requests (those in `Switchers` may be a tenant switch),
sign-outs, the one-shot user loader, the mount-time confirmation, the OIDC loop,
the standalone loop. Three program
points lie inside a poll (`MidPoll`); `AtRest` keeps every other step out until
the poll is over. `life` is the expiry of each bundle against the 60 s window,
`last` is `LAST_RENEWAL` while it is younger than 30 s, `ctx` is what the model
keeps of `AuthContext`, `pending` is a navigation to the login page under way
or `SESSION_ENDED`, `heard` records what this page lifetime has heard of the
session.

| Action | Code |
|---|---|
| `BeginRequest`, `AfterFirst`, `SecondEnsure`, `AfterSecond` | `get_authed` and its string siblings: `ensure_fresh_access_token`, then `agent_lane_bearer` |
| `BeginTyped`, `AfterSingle` | `get_authed_typed` |
| `Accepted`, `Failed` | the answer, and `refresh_user_from_me` on it |
| `Rejected401`, `Recover`, `AfterRecover` | `note_agent_unauthorized`, then `refresh_user_from_me` on a 401 |
| `OidcTick`, `StandaloneTick`, `AfterTick` | one tick of `use_token_refresh`, `use_standalone_token_refresh` |
| `Confirm`, `AfterConfirm` | `confirm_restored_session` |
| `SignIn`, `Switched` | `install_session` of the login page, the callback page, the tenant switcher |
| `SignOutWithoutBearer`, `SignOutClears` | `sign_out` |
| `ContactSignIn` | `on_contact_signin_clear_staff_side` |
| `Boot`, `Watch` | `initial_auth_context`; `use_session_end_watch` |
| `Age`, `DebounceElapses`, `Unmount`, `OpStep` | the clock, a page that is left, the OP |

`CodeFlow` is the abstract specification of the sign-in: one flow open at a time,
its code sent once and while it is young, and no session but from its answer.

`LoginFlow` is the sign-in flow in detail: from a page without a session to the session
the callback page installs. It stands beside the two above: it ends where
`SignIn` of `AgentSession` begins. One module describes both builds; `build`
says which one runs and never changes. A flow is one `PendingFlow` (state,
nonce, verifier).

| Variable | Code |
|---|---|
| `screen` | the page mounted: the guard's placeholder, Login before and after its effect, the callback page in each of its states, `away` at the OP |
| `pending`, `retries`, `signedIn` | the session store: `STATE_KEY`, `CALLBACK_RETRY_KEY`, a bundle |
| `answer` | `current_search`: `INITIAL_SEARCH` in a browser, `CAPTURED_QUERY` on the desktop |
| `bar`, `leaving` | a browser's address bar and the navigation under way |
| `exchange` | the code `complete_login` has sent |
| `inProgress`, `listener`, `reports` | `IN_PROGRESS`, the loopback listener, the navigations `report_failure` has spawned |
| `open` | requests at the OP the user can still answer |
| `latest`, `presented`, `restarts` | history |

| Action | Code |
|---|---|
| `WebStart`, `WebStartFails` | `start_login` in a browser |
| `StartDeclined`, `DesktopStart`, `DesktopStartFails`, `ReportRouted` | `start_login`, `kickoff`, `report_failure` on the desktop |
| `Connects`, `RequestArrives`, `ConnectionFails`, `AcceptTimesOut` | `serve_one`, and the task that waits for it |
| `CallbackFails`, `SendCode`, `TokensArrive`, `ExchangeFails` | `AuthCallbackPage` and `complete_login`, up to the request and after it |
| `TryAgain`, `SessionEnds`, `Expire` | the error screen's link, the end of a session, the flow's time limit |
| `Leave`, `WebAnswered`, `Reload`, `Visit`, `BackToCallback` | the browser: a navigation arrives, the OP sends back, reload, a bare URL, Back |

`ServerHealth` is the reachability flag with everything that writes or reads it:
requests of pages (some behind a button that is disabled while the flag is
down), resources made with `use_remote_resource`, and the recovery poll.
`Recording` is the set of callers whose helper classifies a success as well as
errors; the string helpers classify errors only, so an answered request need
not raise the flag.

| Variable | Code |
|---|---|
| `failures`, `reachable` | `CONSECUTIVE_FAILURES`, `SERVER_REACHABLE` |
| `reply` | per caller, the call it waits for |
| `polling` | the monitor's closure is in its loop |
| `mounted`, `value` | resources on screen and the `Result` each holds |
| `stale` | closures whose signals were written since they ran |
| `seen` | history: the flag as each resource's last run has read it |

`Note` is `note_response_status` and `note_transport_error`; `Hear`, `Load` and
`MonitorHears` are the returns of a request, a fetcher and a probe; `Refetch` and
`MonitorRuns` are a closure run again, which drops the run before.

`UpdateCheck` is how a tab comes to run the deployed build, up to the call of
`location.reload()`. `EditorPage` EXTENDS it with a page that holds an
`ArticleForm`, the unsaved-changes guard and the two hosts, and says what becomes
of that call: the document is replaced, or the browser's prompt stands in the
way. `host` says which host runs.

| Variable | Code |
|---|---|
| `live`, `bundle` | the deployed build, the one this document has loaded |
| `pending`, `overdue` | `UPDATE_PENDING`; `DETECTED_AT_SECS` is `MAX_DEFERRED_SECS` ago |
| `skew`, `probe`, `poll` | `SKEW_PROBE_REQUESTED`, the probe's closure, the polling loop |
| `hidden`, `leaving` | `document.hidden`; a reload called, or held by a prompt |
| `form`, `edited`, `article`, `upload`, `submitting`, `confirming` | `ArticleForm`: mounted, its fields against what it opened with, `article_id` and `auto_created`, `upload_image`, `is_submitting`, `confirming_cancel` |
| `unsaved`, `effect` | `UNSAVED_CHANGES`; the guard's effect is due |
| `window`, `visible`, `reshow`, `asking` | the desktop window, the handler's cell, `CLOSE_CONFIRM` |

| Action | Code |
|---|---|
| `Suspect`, `ProbeRuns`, `ProbeEnds` | `note_possible_version_skew` and the probe |
| `PollFetches`, `PollEnds`, `PollReloads`, `VisibilityChanges` | the poll and the listener |
| `Mirror`, and `Unmounted` within others | `use_unsaved_guard`: its effect, its drop |
| `OpenForm` to `LeavePage` | `ArticleForm` |
| `BeforeUnload`, `PromptLeave`, `PromptStay` | `use_beforeunload` and the browser's prompt |
| `CloseRequested`, `LaterEvent`, `CancelClose`, `ConfirmClose` | `use_close_guard` with what dioxus-desktop does next, `cancel_close`, `confirm_close` |

`TicketList` is the ticket list: a paged list whose search, filters, order and
pages are the server's, with a bulk delete. Its search is debounced by
`use_debounced_signal`, whose generations and sleepers are `edits` and `timers`.
`due`, `fetch` and `shown` are the resource: to be run again, its run, its value
(which stays until a run is over). `selection`, `confirm`, `running` and
`unanswered` are the bulk delete; `alive` is the server's, `gone` is history.
Status, queue, priority and order are one variable, `filter`, as the code writes
each with the same two statements. A write to a signal the resource reads always
makes it `due`, the value that was there before included, which is what the code
relies on when it resets the page.

`MCAgentSession`, `MCLoginFlow`, `MCServerHealth`, `MCEditorPage` and
`MCTicketList` instantiate them for TLC. `TokenRenewal_proofs`,
`AgentSession_proofs`, `LoginFlow_proofs`, `ServerHealth_proofs`,
`EditorPage_proofs` and `TicketList_proofs` hold the theorems. The last three
components stand beside the session: what the session does to a list or a form
is to unmount it, and the tenant generation is a step of `ServerHealth`.

## 3. Runs

Passing runs:

| Run | Instance | Question |
|---|---|---|
| `agent_oidc` | a page request, both loops, the confirmation, reloads; sign-in through OIDC | the states of the context against bundle, bearer and history; when renewals start, what ends a session, and that it stays ended (the inductive invariant `BrowserInv`); `ImplementsRenewal` |
| `agent_desktop` | a page request (which may be a switch), the standalone loop, 2 sessions, no reload | the renewal layer in the composed system, where one session follows another: `SingleFlight`, `KilledOnlyAfterLoss`, the inductive invariant `RenewalInv`, and `ImplementsGrant` |
| `agent_signout` | a sign-out, the user loader, the standalone loop, no reload | `LostSessionLeaves`: a window whose session the fetch layer has ended leaves the signed-in screen, whatever else is under way |
| `agent_live` | the confirmation and both loops, both kinds of session, a contact plane, reloads | `GateIsReleased`, `DeadGrantSignsOut`, `EveryCallerHears`; and `BearerIsPersisted` for one session of either kind |
| `login` | both builds, 3 flows, the code's budget of 2 restarts, reloads, Back, expiry, late answers | `ImplementsCodeFlow`; codes are single use and the latest flow's; restarts are bounded and end (`LoopEnds`); the guard is up with its listener; the inductive invariant `LoginInv`, type correctness, the bound on restarts and `NotStranded` in it |
| `health` | a resource, a request that records its successes, a gated one that does not, the poll | the flag and the count tell one story; the poll runs while the flag is down; a page asks again when the flag turns; once the server stays up the banner goes and the page is loaded anew (`RecoversWhenUp`) |
| `editor` | both hosts, 2 builds, a new or an opened article | `EditsLeaveByConsent`; the flag says what the form says (`GuardFollowsForm`); a probe that was asked for is run; a stale tab is reloaded in the end (`StaleIsReplaced`); the inductive invariant `EditorInv`, with "a hidden window is shown again" in it |
| `tickets` | 2 tickets on pages of 1, a search that finds one of them, 2 filters, 1 write to the search box | at rest the list answers what the controls show (`QuietShowsQuery`) and lists nothing deleted from it (`OwnDeletesVanish`); a user who leaves the controls alone is answered (`ControlsAreAnswered`); the inductive invariant `TicketInv` |

Four further runs find what a comment of the code says of it violated; each is
a finding in `PROJECT.json` with the line it quotes:

| Run | Property | Counterexample |
|---|---|---|
| `planes` | `PlanesExclusive` | a tick has a renewal on the wire; a contact signs in; the answer puts the staff bearer and bundle back |
| `standalone_401` | `RenewedSurvives401` | `/me` is answered 401; the fetch layer renews successfully; `refresh_user_from_me` clears the session all the same |
| `switch_from_oidc` | `BearerIsPersisted` | a switch out of an OIDC session leaves the OIDC bundle, which is the one consulted for expiry and renewal |
| `login_guard` | `GuardIsReleased` | a client connects to the loopback port and says nothing: `serve_one` bounds the accept, not the read, so `IN_PROGRESS` stays up and every later start is declined |

`BearerIsPersisted` holds in `agent_live`, where a session may be of either kind and
none follows another. In a window that knows both kinds it fails without a switch
too: a user signs out of an OIDC session with a renewal on the wire, its answer puts
the OIDC bundle back, and the login form then installs a standalone session beside
it. `RenewedSurvives401` holds in `agent_oidc`, and
with it `EndedIsCleared` and `EndsOnlyTheLost`. These three are properties of a
browser whose users sign in through OIDC and stay in one tenant (`OidcBrowser`),
and section 4 proves them for every such browser. Outside it each fails:

- `RenewedSurvives401` with a standalone session, as above;
- `EndedIsCleared` in a window with a sign-out, and in a browser where a `/me`
  answered 401 ends a standalone session: the answer of a renewal on the wire
  persists the session again, by the same lines as in `planes`;
- `EndsOnlyTheLost` with a standalone session, when `/me` is answered 401 (an access
  token that is refused is not a grant that has ended), and in a window with a tenant
  switch, which installs a session while a loop waits for the renewal of the one
  before: the loop then applies a refusal of the old session to the new one.

TLC finds each in a state space of some thousand states, in instances like those of
the runs with the tasks named added.

"Lost" has two meanings in `EndsOnlyTheLost`: the OP has ended the grant, or the
bundle has no refresh token. In the second case a grant that is still live is given
up, and not at the same moment by everybody: a tick waits until the access token is
spent ("While the access token is still good there is nothing to do", `auth.rs`
856), while the confirmation of a restored session asks for a renewal from the
window on, 60 s earlier, and takes the refusal for want of a refresh token as final.

The agent runs set `CHECK_DEADLOCK FALSE`: the number of sessions is bounded, and
a tab that has signed out of the last one may stay on the login page for good.
Deadlock is checked in every other run.

### Bounds

- `Families`: one session, or two where one session following another matters.
  Nothing in the code relates three.
- `MaxRotations = 1`: the OP rotates each session's token once; a second
  rotation is not offered. One rotation is enough for a token to be superseded,
  replayed and lost; a token without a refresh token (`rt = FALSE`) can have
  version 2.
- `Waiters`: one task per kind that the question needs, so that a flight has
  one caller that finishes it and one that is late, and either may start the
  next. The proofs are for any number.
- `FlightIds`: one more than there are tasks, so a flight can always start.
  Ids are recycled once nobody refers to them; the code's counter is 64 bits.
- `Flows`: three in `login`: the one pending, an older one open at the OP and
  one behind. A name the client holds nothing of may be given to a new flow, as
  states and verifiers are random; an old request under that name is taken to
  be one nobody answers. `MaxReports = 2`: two failed starts not yet routed, as
  one render after the first can fail again.
- `health`: `Threshold = 2` is the code's; `MaxFailures = 3` stands for the
  saturation at `u32::MAX`, one past the threshold. One caller of each sort: a
  second of the same sort adds no write that the first does not make.
- `editor`: one form, as the code mounts one at a time; 2 builds, as only
  equality is looked at. A roll-back is among the deploys.
- `tickets`: a page of 1 and 2 tickets give two pages, a last page that
  empties and a search that shortens the list; `MaxEdits = 1` writes to the
  search box beside the sleeper of the mount are two generations, one of them
  superseded. The proofs are for any of these.
- `life` has three values (outside the 60 s window, inside it, past expiry);
  every comparison in the code is against one of the two boundaries.

### Fairness

Safety runs assume none. The two live runs assume that the network answers or
fails every request (the browser and the HTTP client time out), that the
executor polls a task it has woken, and that a navigation under way arrives
(`AgentFairness`). Nothing obliges a user to do anything; a user may reload as
often as they like, so the promises about a page are made to one who stops in
the end (`ReloadsEnd`). `DeadGrantSignsOut` further takes as its premise
(`CadenceFairness`) that time passes, that the loops keep their 30 s cadence
(`use_token_refresh` sleeps and ticks in an endless loop), and that an OP asked
again and again about a grant it has ended says so in the end: strong fairness
on `OpRefuses`, since a transient failure in between starts another flight.

`LoginFairness`: a page that is mounted is polled (`Start`, `CallbackSteps`), a
navigation arrives, a spawned task runs, an exchange is answered or fails, and
the accept has its timer. The read of the loopback request has none, which is
what `login_guard` shows. `LoopEnds` is promised to a user who leaves the page
alone in the end (`UserQuiet`), whatever the OP answers; it does not rely on the
OP answering, as waiting there is no loop of the app.

`HealthFairness`: a call is answered or fails, a closure that is due runs, the
poll's timer fires. `RecoversWhenUp` has the server staying up as its premise,
and, for the part about the page, a user who leaves it alone.

`EditorFairness`: the poll's timer fires and the deferral runs out, an effect
that is due runs, a prompt is answered. The poll's own steps are strongly fair,
and so is `BeforeUnload`: they wait behind prompts and renders that come and go
but do not stay, and a fetch of the configuration is not refused for ever.
`StaleIsReplaced` is promised once deploys stop and the user stops answering
Stay. Nothing is assumed of the user's hiding the tab: the deferral cap alone
must do it.

`TicketFairness`: sleepers wake, the resource is polled, requests are answered or
fail. `ControlsAreAnswered` is promised to a user who in the end leaves the
controls alone and starts no further delete.

## 4. Proofs

Assumptions: `RenewalAssumption`, `AgentAssumption`, `LoginAssumption`,
`HealthAssumption`, `UpdateAssumption` and `TicketAssumption`, which say that the
constants have their types, that `None` is none of the other values, that the
threshold is positive and reached before the count saturates, and that the
tickets are finite in number. TLC evaluates each in every run of its module.

`RenewalInv` is the inductive invariant of `TokenRenewal`. `SingleFlight` and
`KilledOnlyAfterLoss` are not inductive as they stand:

- a start must know that an empty slot means no running flight (`SingleFlight`)
  and a join that a full slot means a running one (`SlotHoldsRunning`);
- reuse detection can only be excluded if, until an answer is lost, the version
  on the wire and the one persisted are those the OP accepts (`InStep`), which
  needs that a session lives under one key (`OneHomePerFamily`), that a new
  session meets no trace of itself (`UnusedIsUntouched`), and what a flight in
  each state carries (`RunningHasToken`);
- the refinement of `RefreshGrant` needs that the persisted and the presented
  token are newer than every token rotated away (`StoredIsNewest`,
  `PresentedIsNewest`).

`OutcomeInv` says what a caller may conclude from a flight: the one it awaits has not
been freed and holds a token (`NobodyWaitsInVain`, `KnownHasToken`), and after an
unrecoverable answer the grant is over and no other flight of that session can
still succeed (`RefusedIsOver`). It is inductive given `RenewalInv`, since grants
once over stay so (`GrantStaysOver`) and flights of one session do not overlap.

`TokenRenewal_proofs` proves initiation and one lemma per action, then
`RenewalIsInvariant`, its corollaries `RenewalIsSingleFlight` and
`RenewalNeverReplays`, `OutcomesAreFinal`, and `RenewalImplementsGrant`: under the
mapping that takes the exchange outstanding from the running flight, every step
presents, rotates, gives up, or stutters.

`AgentSession_proofs` first shows that every step of `AgentSession` is a step
of `TokenRenewal` or leaves its variables alone (`AgentImplementsRenewal`); the
renewal layer's invariant, its outcomes, replay freedom and refinement carry over
without another case analysis. `AgentInv` then adds type correctness, `GateHolds`,
`ConfirmedIsHonoured`, and `ShownIsBacked` where there is no contact plane
(with one, a contact's sign-in clears the staff bearer and leaves
`AuthContext.user`, see `ContactSignIn`). Two action properties need no more than
that, for every deployment: `RenewalsAreDue` (outside the window, the task that
starts a renewal is one whose own request came back 401), and `PagesAlwaysSurvive401`, which
confines what `standalone_401` finds to the tasks that reconcile `/auth/me`.

`BrowserInv` is inductive where `OidcBrowser` holds, with sign-outs, loaders,
contacts and any number of tasks and sessions besides. `EndedIsCleared` alone is not:
a renewal still on its way persists what it is answered with. What keeps it from
doing so is that whoever takes the user off the screen knows the session to be over
(`Past`: no flight still running can succeed). And before the next sign-in the
document goes with everything that waits in it (`pending`), unless nothing of a
session is left in memory (`Untouched`), so no late answer about the old session is
applied to the new one. To conclude `Past` from the one answer that a caller
holds, every flight that anybody can still ask about must be of one session, the one
persisted (`OneSession`). The proof goes from the flights up:

- `FlightsAge`, `OneSessionKept`, `GoneStaysGone` and `IdleStaysIdle` are about
  steps of `TokenRenewal`: what a step may do to a flight, and that neither a session
  that is gone nor a page with nothing in it comes to life;
- `ContextStep` sorts the steps of `AgentSession` by what they do to the user on
  screen, `EndsWhole` shows that each that ends a session ends all of it;
- `BrowserStep` puts them together.

`EndedIsAlwaysCleared`, `OnlyLostSessionsEnd` and `RenewedAlwaysSurvives401` follow:
the second by `ContextStep` again, with the guard under which each of its steps ends
a session, the third from the step that leaves the wait (`OwnStep`: a task is moved
by itself or by a reload).

`LoginInv` is the inductive invariant of `LoginFlow`, for both builds, every
number of flows and every budget. `RestartsBounded` needs that a restart is
counted in the store before it is made (`RestartsAreCounted`), as a reload may
come between. `CapturedIsPending` needs that nothing is there to complete while
the listener waits, and that it waits for the pending flow
(`ListenerAwaitsPending`). `NoCodeTwice` and `ExchangesTheLatest` are about
`SendCode` alone and need `PendingIsLatest`: what is pending is the last flow
minted, and its code is unused. `LoginFlow_proofs` has one lemma per action,
`LoginIsInvariant`, its corollaries, and the two action properties. The refinement
of `CodeFlow` (`LoginImplementsCodeFlow`) maps the open flow to the pending one while
it is fresh, so expiry is a step of its own; it needs that a code is on its way only
while its callback page is mounted (`ExchangeHasPage`), as a page that starts a
login would otherwise open a second flow beside it. `OneFlowAtATime` is proved of
`CodeFlow` and holds of the sign-in through the refinement.

`BearerIsPersisted` is false in general (see `switch_from_oidc`).
`BearerIsAlwaysPersisted` proves it for a tab that can sign in by one kind of
session only (`OnlyKind`), by the invariant that the other key is then empty
(`OneStore`). `agent_live` checks it for one session of either kind.

`HealthInv` is inductive because every write of the flag leaves its readers
`stale` (`Readers`), and a closure reads the flag before its first `await`:
`PollFollowsFlag` and `RefetchFollowsFlag` are each about the closures that are
not `stale`.

`EditorInv` joins the page's types, the update check's invariant and the guard.
`EditsAlwaysLeaveByConsent` follows from `GuardFollowsForm`: the hosts read a
copy, made by an effect that is run before the host is heard again (`Settled`),
and every step that can change the form's memo leaves that effect due.

`TicketInv`: a sleeper of the current generation holds what the box holds
(`SleepersFollow`), and until it has written there is one; a run that is not
about to be overtaken is for the key the resource reads (`RunIsCurrent`), so at
rest its answer is; and when the fan-out ends the fetch in flight is replaced, so
no answer older than the deletes is left on its way (`NothingOlder`).

Every invariant, action property and refinement that a passing run checks is stated
by a theorem. Model-checked only is liveness, which is beyond the prover: `LoopEnds`,
`RecoversWhenUp`, `StaleIsReplaced`, `ControlsAreAnswered`, `EveryCallerHears`,
`GateIsReleased`, `DeadGrantSignsOut`, `LostSessionLeaves`. Some theorems have a
hypothesis on the deployment, since what they state is not true of every one:
`OidcBrowser` for `BrowserIsInvariant` and the three that follow from it (section 3
says how they fail elsewhere), `OnlyKind` for `BearerIsAlwaysPersisted`, no contact
plane for `ShownIsAlwaysBacked`.

## 5. Abstractions

- Token contents, claims, scopes and the wire format are left out; an exchange
  has four outcomes, the ones the callers tell apart.
- `AuthContext` is reduced to: is there a user, are there OIDC tokens,
  `is_loading`, `confirmation`. Whose user it is, and the memberships, are not
  modelled.
- A request without a bearer does not concern the session and is left out; so
  are the retries pages make.
- The OP is modelled from what the code's comments say they expect of it. It
  may answer late, fail, rotate and have its answer lost, end a grant at any
  time.
- The pieces of the store and of memory are one thread's: the page's in the browser,
  the one that polls the `VirtualDom` on the desktop. `RENEWAL` is a thread-local and
  the renewal in it a boxed future that is not `Send` (`fetch.rs` 622), so the single
  slot of the model is what the code has.

- In `LoginFlow`, configuration, PKCE and token contents are reduced to the
  outcome of a start or an exchange. Noise on the loopback port is
  `ConnectionFails`. After a sign-in, the deep link and the dashboard are both
  `home`. A tab that was duplicated, and so shares its store's contents with
  another, is not modelled: every module describes one tab or window.
- In `ServerHealth` an answer's class is all there is of it. What a request does
  with its answer is its page's affair.
- In `EditorPage` the fields of the form are one bit, equal to what it opened with
  or not; a DELETE or a second POST the form sends is not tracked on the server.
  The dialog about orphaned comments, which only delays a submit, is left out. A
  reload while a submit is on its way is not counted as a loss of edits: the memo
  says so (`is_submitting`), and the code's own guard stays silent then.
- In `TicketList` other users' changes, saved-view management, leaving the page
  and the disabled button while the server is down are left out. Refused deletes
  and deletes whose answer is lost are in.
- The flow's time limit is twice the accept's; `Expire` therefore waits for the
  accept to be over. Once somebody has connected there is no such bound.

## 6. What is known and not shown by a run

Noticed while reading; what of it is a hazard of the code is in `PROJECT.json`,
with a note:

- `use_contact_auto_refresh` (`contact_auth.rs` 176) is mounted nowhere, though
  `contact_auth.rs` 15-20 describes it as running; a contact's access token runs
  out and nothing renews it.
- The string helpers record nothing of a 2xx (`get_with_auth`, `fetch.rs`
  1348-1366), while `fetch.rs` 187-190 has the count reset "on any response".
  `health` has both sorts of caller: the flag is raised by the poll all the same.
- `set_ticket_search` resets the page at once and the search settles 300 ms
  later: the reset alone re-runs the resource, and a page chosen in between is
  kept for the new search (`tickets.rs` 1375-1384, 1597-1607).
- After a bulk delete or a narrower search the page can lie past the end, where
  no pager is drawn (`table.rs` 491-493, 625-633).
- A submit of `ArticleForm` while its upload is creating the row sends a second
  POST (`knowledge_base.rs` 3759-3762).
- The autosave and guard of the form builder (`forms.rs` 1468-1541) capture the
  values of the first render and read no signal.

Of the earlier plan, what is left: `Memberships` (whose `/me` is applied, the
loaded flag), `SharedList`, and `LoginFlow` composed with `AgentSession` at the
callback page. Theorems left: abstract specifications of the remaining components,
and what of `BrowserInv` survives on the desktop.

## 7. Not modelled

The repository is some 180,000 lines, most of them pages: they render the
server's data and send its forms, in one of two shapes, the list and the long
form, of which `TicketList` and `EditorPage` model one each. A module for each
further page would repeat those two with other field names, so the modules map a
small share of the lines and most of the state that outlives a render. Branding,
themes and preferences have one writer; their tests are the right tool. Contact
sessions are not modelled since their refreshes do not run (section 6),
memberships since the model keeps no identities, shared lists since one fetch
with one wanted flag has no interleaving that the ticket list lacks. The platform
layer is modelled only in what the session needs of it (`HasReload`). The
offline edit queue is a scaffold that nothing fills. Pure helpers (money,
dates, line diff) are sequential functions with unit tests. Build and
deployment scripts are no part of the program. `PROJECT.json` lists every
component with its reason.
