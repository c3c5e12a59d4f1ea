------------------------------ MODULE LoginFlow ------------------------------
(***************************************************************************)
(* The OIDC sign-in flow, from the page that has no session to the session *)
(* that page installs:                                                     *)
(*                                                                         *)
(*   src/modules/oidc/flow.rs         start_login, complete_login          *)
(*   src/modules/oidc/storage.rs      PendingFlow, the restart counter     *)
(*   src/modules/oidc/native_flow.rs  the desktop's loopback hand-off      *)
(*   src/platform/loopback.rs         its listener                         *)
(*   src/pages/auth_callback.rs       the page that completes a flow       *)
(*   src/lib.rs                       AuthGuard and Login, which start one *)
(*                                                                         *)
(* In the browser the document itself leaves for the identity provider     *)
(* (OP) and a new page, whose memory is empty, completes the flow.  On the *)
(* desktop the window stays, the user's own browser goes, and a listener   *)
(* on the loopback interface takes the answer.  One module describes both; *)
(* build tells which one is running and never changes.                     *)
(*                                                                         *)
(* A flow is one PendingFlow: its state, nonce and verifier.               *)
(***************************************************************************)
EXTENDS Naturals

CONSTANTS
  Builds,              (* the builds considered                            *)
  Flows,               (* names for the flows that are known at once       *)
  MaxCallbackRetries,  (* MAX_CALLBACK_RETRIES, 2 in the code              *)
  MaxReports,          (* bound: failures reported and not yet routed      *)
  LoginPage,           (* the target of a restart                          *)
  None

ASSUME LoginAssumption ==
  /\ Builds \subseteq {"web", "desktop"}
  /\ MaxCallbackRetries \in Nat
  /\ MaxReports \in Nat
  /\ LoginPage \notin Flows
  /\ None \notin Flows \cup {LoginPage}
  /\ None \notin [flow : Flows, fresh : BOOLEAN]
  /\ None \notin [flow : Flows, at : {"accept", "read"}]
  /\ None \notin [flow : Flows \cup {None}, kind : {"code", "reauth", "refused"}]

(* What the OP, or the loopback listener in its place, may say: a code; an *)
(* error that REAUTH_ERROR_CODES lists; any other error.                   *)
Kinds == {"code", "reauth", "refused"}

(* A URL query that answers an authorization request.  An error the        *)
(* desktop makes up itself (error_query) names no flow.                    *)
Answer == [flow : Flows \cup {None}, kind : Kinds]
LoopbackFailed == [flow |-> None, kind |-> "refused"]

(* guard       AuthGuard's placeholder on a protected page                 *)
(* login       the Login page, its effect not yet run; waiting: run        *)
(* away        the document is at the OP (browser)                         *)
(* callback    AuthCallbackPage, "Signing you in"                          *)
(* restarting  the same page after restart_login, waiting to be replaced   *)
(* error       the same page, "Sign-in failed"                             *)
(* home        signed in                                                   *)
Screens == {"guard", "login", "waiting", "away", "callback", "restarting",
            "error", "home"}

VARIABLES
  build,       (* target_arch                                              *)
  screen,
  signedIn,    (* a token bundle is in the session store                   *)
  pending,     (* STATE_KEY: the PendingFlow; fresh: younger than its TTL  *)
  retries,     (* CALLBACK_RETRY_KEY                                       *)
  answer,      (* current_search: INITIAL_SEARCH, or CAPTURED_QUERY        *)
  bar,         (* browser: the query in the address bar                    *)
  leaving,     (* browser: where a navigation under way goes               *)
  exchange,    (* the flow whose code complete_login has sent              *)
  inProgress,  (* desktop: IN_PROGRESS                                     *)
  listener,    (* desktop: the loopback listener                           *)
  reports,     (* desktop: navigations report_failure has spawned          *)
  open,        (* OP: requests a user can still answer                     *)
  latest,      (* history: the flow minted last                            *)
  presented,   (* history: flows whose code was sent to the token endpoint *)
  restarts     (* history: restarts since the last sign-in                 *)

loginVars == <<build, screen, signedIn, pending, retries, answer, bar, leaving,
               exchange, inProgress, listener, reports, open, latest,
               presented, restarts>>
webVars     == <<bar, leaving>>
desktopVars == <<inProgress, listener, reports>>
budget      == <<retries, restarts>>

(* A window has no document to navigate, a tab no listener.                *)
LoginTypeOK ==
  /\ build      \in Builds
  /\ screen     \in Screens
  /\ signedIn   \in BOOLEAN
  /\ pending    \in [flow : Flows, fresh : BOOLEAN] \cup {None}
  /\ retries    \in 0..MaxCallbackRetries + 1
  /\ answer     \in Answer \cup {None}
  /\ bar        \in Answer \cup {None}
  /\ leaving    \in Flows \cup {LoginPage, None}
  /\ exchange   \in Flows \cup {None}
  /\ inProgress \in BOOLEAN
  /\ listener   \in [flow : Flows, at : {"accept", "read"}] \cup {None}
  /\ reports    \in 0..MaxReports
  /\ open       \subseteq Flows
  /\ latest     \in Flows \cup {None}
  /\ presented  \subseteq Flows
  /\ restarts   \in 0..MaxCallbackRetries + 1
  /\ build = "web"     => ~inProgress /\ listener = None /\ reports = 0
  /\ build = "desktop" => bar = None /\ leaving = None /\ screen \notin {"away", "restarting"}

-----------------------------------------------------------------------------
(* Helpers.                                                                *)

(* A tab has memory of its own until it loads another document; what it    *)
(* leaves behind is the session store (pending, retries, signedIn).        *)
BootAt(page, query) ==
  /\ screen'   = page
  /\ answer'   = query
  /\ bar'      = query
  /\ leaving'  = None
  /\ exchange' = None

(* Nothing the client holds names f: a new flow may take the name.  An old *)
(* request of that name, still open at the OP, is one nobody answers.      *)
Unnamed(f) ==
  /\ f \notin {leaving, exchange}
  /\ \A holder \in {pending, answer, bar, listener} : holder # None => holder.flow # f

(* authorize_url: mint a flow and save it over whatever flow was pending.  *)
Mint(f) ==
  /\ Unnamed(f)
  /\ pending'   = [flow |-> f, fresh |-> TRUE]
  /\ latest'    = f
  /\ presented' = presented \ {f}

(* The detached tasks of report_failure run before the window hears of     *)
(* anything from outside; only a render may come first.                    *)
Settled == reports = 0

(* AuthGuard starts a login on every render; Login once, in its effect.    *)
AfterStart == IF screen = "login" THEN "waiting" ELSE screen
Starting   == screen \in {"guard", "login"}

(* navigate_to_callback.  Routing to the page already on screen does not   *)
(* mount it again.                                                         *)
Callback == IF screen \in {"callback", "error"} THEN screen ELSE "callback"

-----------------------------------------------------------------------------
(* Starting a flow.                                                        *)

(* Browser: mint and set_href.  A second render before the document is     *)
(* replaced mints again and redirects the navigation.                      *)
WebStart(f) ==
  /\ build = "web" /\ Starting
  /\ Mint(f)
  /\ leaving' = f
  /\ screen'  = AfterStart
  /\ open'    = open \ {f}
  /\ UNCHANGED <<build, signedIn, budget, answer, bar, exchange, desktopVars>>

(* The session store refuses the flow, or the browser the navigation:      *)
(* logged, no more.                                                        *)
WebStartFails ==
  /\ build = "web" /\ Starting
  /\ \/ UNCHANGED <<pending, latest, presented, open>>
     \/ \E f \in Flows : Mint(f) /\ open' = open \ {f}
  /\ screen' = AfterStart
  /\ UNCHANGED <<build, signedIn, budget, answer, webVars, exchange, desktopVars>>

(* Desktop: a flow is waiting on its listener already.                     *)
StartDeclined ==
  /\ build = "desktop" /\ Starting /\ inProgress
  /\ screen' = AfterStart
  /\ UNCHANGED <<build, signedIn, pending, budget, answer, webVars, exchange,
                 desktopVars, open, latest, presented>>

(* Mutant of DesktopStart: the query of an earlier flow is kept.           *)
DesktopStartKeepingQuery(f) ==
  /\ build = "desktop" /\ Starting /\ ~inProgress
  /\ Mint(f)
  /\ inProgress' = TRUE
  /\ listener'   = [flow |-> f, at |-> "accept"]
  /\ open'       = open \cup {f}
  /\ screen'     = AfterStart
  /\ UNCHANGED <<build, signedIn, budget, answer, webVars, exchange, reports>>

(* Desktop: bind, mint, open the browser, leave a task at the listener.    *)
DesktopStart(f) ==
  /\ build = "desktop" /\ Starting /\ ~inProgress
  /\ Mint(f)
  /\ answer'     = None
  /\ inProgress' = TRUE
  /\ listener'   = [flow |-> f, at |-> "accept"]
  /\ open'       = open \cup {f}
  /\ screen'     = AfterStart
  /\ UNCHANGED <<build, signedIn, budget, webVars, exchange, reports>>

(* Mutants of DesktopStartFails: the guard is kept; nobody is told.        *)
DesktopStartFailsGuarded ==
  /\ build = "desktop" /\ Starting /\ ~inProgress
  /\ reports < MaxReports
  /\ answer'     = LoopbackFailed
  /\ reports'    = reports + 1
  /\ inProgress' = TRUE
  /\ screen'     = AfterStart
  /\ UNCHANGED <<build, signedIn, pending, budget, webVars, exchange, listener,
                 open, latest, presented>>

DesktopStartFailsUntold ==
  /\ build = "desktop" /\ Starting /\ ~inProgress
  /\ screen' = AfterStart
  /\ UNCHANGED <<build, signedIn, pending, budget, answer, webVars, exchange,
                 desktopVars, open, latest, presented>>

(* Desktop: kickoff returns an error, before or after the flow was minted; *)
(* the guard is released and the reason is sent to the callback page.      *)
DesktopStartFails ==
  /\ build = "desktop" /\ Starting /\ ~inProgress
  /\ reports < MaxReports
  /\ \/ UNCHANGED <<pending, latest, presented, open>>
     \/ \E f \in Flows : Mint(f) /\ open' = open \ {f}
  /\ answer'  = LoopbackFailed
  /\ reports' = reports + 1
  /\ screen'  = AfterStart
  /\ UNCHANGED <<build, signedIn, budget, webVars, exchange, inProgress, listener>>

(* The task that report_failure spawned.                                   *)
ReportRouted ==
  /\ reports > 0
  /\ reports' = reports - 1
  /\ screen'  = Callback
  /\ UNCHANGED <<build, signedIn, pending, budget, answer, webVars, exchange,
                 inProgress, listener, open, latest, presented>>

-----------------------------------------------------------------------------
(* The answer.                                                             *)

(* The navigation arrives: a new document, at the OP or at Login.          *)
Leave ==
  /\ leaving # None
  /\ BootAt(IF leaving = LoginPage THEN "login" ELSE "away", None)
  /\ open' = open \cup ({leaving} \ {LoginPage})
  /\ UNCHANGED <<build, signedIn, pending, budget, desktopVars, latest, presented>>

(* Browser: the OP sends the document back.  The user may have gone back   *)
(* to the page of an earlier request and have answered that one.           *)
WebAnswered(f, k) ==
  /\ screen = "away" /\ f \in open
  /\ BootAt("callback", [flow |-> f, kind |-> k])
  /\ open' = open \ {f}
  /\ UNCHANGED <<build, signedIn, pending, budget, desktopVars, latest, presented>>

(* serve_one returns a query, or an error in its place.                    *)
ListenerReturns(a) ==
  /\ answer'     = a
  /\ inProgress' = FALSE
  /\ listener'   = None
  /\ screen'     = Callback
  /\ UNCHANGED <<build, signedIn, pending, budget, webVars, exchange, reports,
                 latest, presented>>

(* Somebody connects: the user's browser with the answer, the same browser *)
(* ahead of need, or another local program.                                *)
Connects ==
  /\ listener # None /\ listener.at = "accept" /\ Settled
  /\ listener' = [listener EXCEPT !.at = "read"]
  /\ UNCHANGED <<build, screen, signedIn, pending, budget, answer, webVars,
                 exchange, inProgress, reports, open, latest, presented>>

(* The connection carries the answer of the OP.                            *)
RequestArrives(k) ==
  /\ listener # None /\ listener.at = "read" /\ Settled
  /\ listener.flow \in open
  /\ ListenerReturns([flow |-> listener.flow, kind |-> k])
  /\ open' = open \ {listener.flow}

(* It carries something else, or is closed.                                *)
ConnectionFails ==
  /\ listener # None /\ listener.at = "read" /\ Settled
  /\ ListenerReturns(LoopbackFailed)
  /\ UNCHANGED open

(* Nobody connects within REDIRECT_TIMEOUT.                                *)
AcceptTimesOut ==
  /\ listener # None /\ listener.at = "accept" /\ Settled
  /\ ListenerReturns(LoopbackFailed)
  /\ UNCHANGED open

-----------------------------------------------------------------------------
(* AuthCallbackPage: complete_login, then what is made of its result.      *)

(* Counts are not told apart beyond the budget.                            *)
OneMore(n) == IF n > MaxCallbackRetries THEN n ELSE n + 1

(* Mutant of Counted: the restart is not written down.                     *)
CountedNot == retries

(* bump_callback_retry.                                                    *)
Counted == OneMore(retries)

(* restart_login.  Unless the counter can be kept and the budget lasts and *)
(* the document can be navigated, which a window cannot, the error shows.  *)
Restart ==
  \/ /\ retries' = Counted /\ Counted <= MaxCallbackRetries
     /\ build = "web"
     /\ leaving'  = LoginPage
     /\ screen'   = "restarting"
     /\ restarts' = OneMore(restarts)
  \/ /\ retries' \in {retries, Counted}
     /\ screen' = "error"
     /\ UNCHANGED <<leaving, restarts>>

(* classify_flow_error, behind the query being stripped from the address   *)
(* bar (replace_state).                                                    *)
Recover(recovery) ==
  /\ bar' = None
  /\ \/ recovery = "Restart" /\ Restart
     \/ /\ recovery = "Show" /\ screen' = "error"
        /\ UNCHANGED <<budget, leaving>>

(* What complete_login makes of the query before it asks the OP anything.  *)
(* A code without a state, or neither, is a query of no use.               *)
Carries(kind) == answer # None /\ answer.kind = kind

(* Mutant of Live: an old flow is as good as a young one.                  *)
LiveForever == pending # None

Live == pending # None /\ pending.fresh

(* Mutant of Matches: state is not compared.                               *)
MatchesAny == Live

Matches == Live /\ pending.flow = answer.flow

Unpolled == screen = "callback" /\ exchange = None

(* The poll ends here: the page failed before anything was sent.           *)
CallbackFails ==
  /\ Unpolled
  /\ \/ answer = None      /\ Recover("Restart") /\ UNCHANGED pending
     \/ Carries("reauth")  /\ Recover("Restart") /\ UNCHANGED pending
     \/ Carries("refused") /\ Recover("Show")    /\ UNCHANGED pending
     \/ Carries("code") /\ ~Live /\ Recover("Restart") /\ pending' = None
     \/ Carries("code") /\ Live /\ ~Matches /\ Recover("Show") /\ pending' = None
  /\ UNCHANGED <<build, signedIn, answer, exchange, desktopVars, open, latest, presented>>

(* Mutant of SendCode: the pending flow is read and not taken.             *)
SendCodePeeking ==
  /\ Unpolled /\ Carries("code") /\ Matches
  /\ exchange'  = answer.flow
  /\ presented' = presented \cup {answer.flow}
  /\ UNCHANGED <<build, screen, signedIn, pending, budget, answer, webVars,
                 desktopVars, open, latest>>

(* take_pending succeeds and the state is ours: send the code.             *)
SendCode ==
  /\ Unpolled /\ Carries("code") /\ Matches
  /\ pending'   = None
  /\ exchange'  = answer.flow
  /\ presented' = presented \cup {answer.flow}
  /\ UNCHANGED <<build, screen, signedIn, budget, answer, webVars, desktopVars,
                 open, latest>>

(* The token endpoint answers with tokens: the bundle is saved, the budget *)
(* restored and the page left, by the router or by loading the deep link.  *)
TokensArrive ==
  /\ exchange # None
  /\ exchange' = None
  /\ signedIn' = TRUE
  /\ retries'  = 0 /\ restarts' = 0
  /\ screen'   = "home"
  /\ bar'     = None
  /\ answer' = answer \/ (build = "web" /\ answer' = None)
  /\ UNCHANGED <<build, pending, leaving, desktopVars, open, latest, presented>>

(* It refuses, does not answer, or answers with an id_token of another     *)
(* flow or of no usable subject.                                           *)
ExchangeFails ==
  /\ exchange # None
  /\ exchange' = None
  /\ \E recovery \in {"Restart", "Show"} : Recover(recovery)
  /\ UNCHANGED <<build, signedIn, pending, answer, desktopVars, open, latest, presented>>

-----------------------------------------------------------------------------
(* The user, the clock, and the layers above.                              *)

(* The link on the error screen, routed inside the document.               *)
TryAgain ==
  /\ screen = "error" /\ Settled
  /\ screen' = "login"
  /\ UNCHANGED <<build, signedIn, pending, budget, answer, webVars, exchange,
                 desktopVars, open, latest, presented>>

(* The page's route is loaded afresh, with what the address bar holds.     *)
RouteOf(s) == IF s \in {"restarting", "error"} THEN "callback"
              ELSE IF s = "waiting" THEN "login" ELSE s

Reload ==
  /\ build = "web" /\ screen # "away"
  /\ BootAt(RouteOf(screen), bar)
  /\ UNCHANGED <<build, signedIn, pending, budget, desktopVars, open, latest, presented>>

(* A page of the app is loaded by its bare URL: a bookmark, a restored     *)
(* tab, Back from the OP.  (The Login page starts a flow as the guard does.)*)
Visit ==
  /\ build = "web"
  /\ \E page \in {"callback", IF signedIn THEN "home" ELSE "guard"} : BootAt(page, None)
  /\ UNCHANGED <<build, signedIn, pending, budget, desktopVars, open, latest, presented>>

(* Back, within the document, to the callback page it was loaded at: the   *)
(* page is mounted again and finds the snapshot of the same query.         *)
BackToCallback ==
  /\ build = "web" /\ screen \in {"home", "login", "waiting"}
  /\ answer # None
  /\ screen' = "callback"
  /\ UNCHANGED <<build, signedIn, pending, budget, answer, webVars, exchange,
                 desktopVars, open, latest, presented>>

(* The session ends: the browser loads Login, the window shows its guard.  *)
SessionEnds ==
  /\ screen = "home" /\ Settled
  /\ signedIn' = FALSE
  /\ \/ build = "web" /\ BootAt("login", None)
     \/ build = "desktop" /\ screen' = "guard" /\ UNCHANGED <<answer, webVars, exchange>>
  /\ UNCHANGED <<build, pending, budget, desktopVars, open, latest, presented>>

(* PENDING_FLOW_TTL_MS runs out.  REDIRECT_TIMEOUT, which bounds the       *)
(* accept, is half of it.                                                  *)
Expire ==
  /\ Live
  /\ listener # None => listener.at = "read"
  /\ pending' = [pending EXCEPT !.fresh = FALSE]
  /\ UNCHANGED <<build, screen, signedIn, budget, answer, webVars, exchange,
                 desktopVars, open, latest, presented>>

-----------------------------------------------------------------------------
Init ==
  /\ build \in Builds
  /\ screen \in {"guard", "login"}
  /\ signedIn = FALSE
  /\ pending = None /\ retries = 0
  /\ answer = None /\ bar = None /\ leaving = None /\ exchange = None
  /\ inProgress = FALSE /\ listener = None /\ reports = 0
  /\ open = {} /\ latest = None /\ presented = {} /\ restarts = 0

Start == WebStartFails \/ StartDeclined \/ DesktopStartFails
         \/ \E f \in Flows : WebStart(f) \/ DesktopStart(f)

OpSteps == \E k \in Kinds : RequestArrives(k) \/ \E f \in Flows : WebAnswered(f, k)

ListenerEnds == ConnectionFails \/ AcceptTimesOut

CallbackSteps == CallbackFails \/ SendCode \/ TokensArrive \/ ExchangeFails

UserSteps == TryAgain \/ Reload \/ Visit \/ BackToCallback \/ SessionEnds

Next ==
  \/ Start \/ ReportRouted \/ Leave
  \/ OpSteps \/ Connects \/ ListenerEnds
  \/ CallbackSteps
  \/ UserSteps \/ Expire

LoginSpec == Init /\ [][Next]_loginVars

(* A mounted page is polled, a navigation arrives, an exchange is answered *)
(* or fails, a spawned task runs, and the accept has a timer.  Nothing     *)
(* obliges the user, the OP's pages, or whoever has connected.             *)
LoginFairness ==
  /\ WF_loginVars(Start) /\ WF_loginVars(Leave) /\ WF_loginVars(ReportRouted)
  /\ WF_loginVars(CallbackSteps) /\ WF_loginVars(AcceptTimesOut)

FairLoginSpec == LoginSpec /\ LoginFairness
-----------------------------------------------------------------------------
(* Properties.                                                             *)

(* A code is sent to the token endpoint once, however often its callback   *)
(* page is reloaded or mounted again (storage.rs, take_pending).           *)
NoCodeTwice ==
  [][exchange' # None /\ exchange' # exchange => exchange' \notin presented]_loginVars

(* Whatever older request the user answers, and whatever query an earlier  *)
(* flow left behind, only the code of the flow minted last is sent         *)
(* (flow.rs, "verifies state against the pending flow").                   *)
ExchangesTheLatest ==
  [][exchange' # None /\ exchange' # exchange => exchange' = latest]_loginVars

(* Between one sign-in and the next the app restarts the login by itself   *)
(* no more often than the budget says, across reloads and Try again        *)
(* (storage.rs, MAX_CALLBACK_RETRIES).                                     *)
RestartsBounded == restarts <= MaxCallbackRetries

(* IN_PROGRESS is raised exactly while a listener can lower it, whatever   *)
(* path start_login took (native_flow.rs, "the next attempt must be        *)
(* allowed to run").                                                       *)
GuardMeansListening == inProgress <=> listener # None

(* On the desktop the captured code is that of the pending flow: "A        *)
(* previous flow's response must never satisfy this one" (native_flow.rs). *)
CapturedIsPending ==
  build = "desktop" /\ Carries("code") /\ pending # None => pending.flow = answer.flow

(* Nobody waits on the Login page of a window for a redirect that is not   *)
(* coming (native_flow.rs, "which would stay up forever").                 *)
NotStranded == build = "desktop" /\ screen = "waiting" => inProgress \/ reports > 0

(* A user who leaves the page alone sees a screen that stays: the app does *)
(* not go around between callback and OP, even if the OP answers every     *)
(* request with an error that restarts (storage.rs, "cannot loop the user  *)
(* forever"), and "Signing you in" ends.                                   *)
UserQuiet == <>[][~UserSteps]_loginVars
LoopEnds  == UserQuiet => <>[](screen \notin {"login", "callback", "restarting"})

(* Why they hold: the inductive invariant.                                 *)

(* A restart is counted in the store before it is made.                    *)
RestartsAreCounted == restarts <= retries

(* A flow that is pending is the last one, and its code is still unused.   *)
PendingIsLatest ==
  pending # None => pending.flow = latest /\ latest \notin presented

(* Only the window's own errors name no flow.                              *)
CodesNameFlows ==
  \A a \in {answer, bar} : a # None /\ a.kind = "code" => a.flow \in Flows

(* While the listener waits there is nothing to complete, and what it      *)
(* waits for is the answer to the pending flow.                            *)
ListenerAwaitsPending ==
  listener # None =>
    /\ answer = None
    /\ pending # None => pending.flow = listener.flow

LoginInv ==
  /\ LoginTypeOK
  /\ RestartsBounded /\ RestartsAreCounted
  /\ GuardMeansListening /\ ListenerAwaitsPending
  /\ CapturedIsPending /\ CodesNameFlows
  /\ PendingIsLatest
  /\ NotStranded

(* A code is on its way only while its callback page is on screen, so that *)
(* nothing is begun beside it.                                             *)
ExchangeHasPage == exchange # None => screen = "callback"

(* The sign-in implements CodeFlow: one flow open at a time, its code sent *)
(* once and while it is young (storage.rs, take_pending), and no session   *)
(* but from its answer (flow.rs, complete_login).                          *)
Codes == INSTANCE CodeFlow WITH
           Flow    <- Flows,
           unspent <- IF pending # None /\ pending.fresh THEN pending.flow ELSE None,
           out     <- exchange,
           session <- signedIn
ImplementsCodeFlow == Codes!Spec

(* The guard is lowered again: "an abandoned sign-in must not hold a       *)
(* socket for the life of the process" (native_flow.rs).                   *)
GuardIsReleased == inProgress ~> ~inProgress
=============================================================================
