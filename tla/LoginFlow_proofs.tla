--------------------------- MODULE LoginFlow_proofs ---------------------------
(***************************************************************************)
(* Theorems about LoginFlow, for both builds, every number of flows and    *)
(* every restart budget: LoginInv is inductive, the action properties      *)
(* follow from it step by step, and every step is one of CodeFlow or a     *)
(* stutter.                                                                *)
(***************************************************************************)
EXTENDS LoginFlow, TLAPS

USE LoginAssumption DEF LoginAssumption

(* Minting keeps what is said of the pending flow.                         *)
LEMMA MintedIsLatest ==
  ASSUME NEW f \in Flows, Mint(f)
  PROVE  /\ pending' = [flow |-> f, fresh |-> TRUE]
         /\ pending' \in [flow : Flows, fresh : BOOLEAN]
         /\ pending'.flow = f /\ latest' = f
         /\ f \notin presented' /\ presented' \subseteq presented
BY DEF Mint

(* Fields of what is not None.                                             *)
LEMMA LoginFields ==
  ASSUME LoginTypeOK
  PROVE  /\ pending # None => pending.flow \in Flows /\ pending.fresh \in BOOLEAN
         /\ answer # None => answer.flow \in Flows \cup {None} /\ answer.kind \in Kinds
         /\ listener # None => listener.flow \in Flows /\ listener.at \in {"accept", "read"}
BY DEF LoginTypeOK, Answer

(* restart_login keeps the budget.                                         *)
LEMMA RestartKeepsBudget ==
  ASSUME LoginInv, Restart
  PROVE  /\ retries' \in 0..MaxCallbackRetries + 1
         /\ restarts' \in 0..MaxCallbackRetries + 1
         /\ restarts' <= MaxCallbackRetries
         /\ restarts' <= retries'
         /\ leaving' \in {leaving, LoginPage}
         /\ screen' \in {"restarting", "error"}
         /\ build = "desktop" => leaving' = leaving /\ screen' = "error"
BY DEF LoginInv, LoginTypeOK, RestartsBounded, RestartsAreCounted, Restart, Counted, OneMore

(* So does everything the callback page makes of a failure.                *)
LEMMA RecoverKeepsBudget ==
  ASSUME LoginInv, NEW recovery, Recover(recovery)
  PROVE  /\ retries' \in 0..MaxCallbackRetries + 1
         /\ restarts' \in 0..MaxCallbackRetries + 1
         /\ restarts' <= MaxCallbackRetries
         /\ restarts' <= retries'
         /\ leaving' \in {leaving, LoginPage}
         /\ screen' \in {"restarting", "error"}
         /\ bar' = None
         /\ build = "desktop" => leaving' = leaving /\ screen' = "error"
<1>1. CASE Restart
  BY <1>1, RestartKeepsBudget DEF Recover
<1>2. CASE screen' = "error" /\ UNCHANGED <<budget, leaving>>
  BY <1>2 DEF Recover, LoginInv, LoginTypeOK, RestartsBounded, RestartsAreCounted, budget
<1>. QED BY <1>1, <1>2 DEF Recover

(* LoginInv holds of a page without a session, on its first render.        *)
LEMMA InitEstablishesInv == Init => LoginInv
<1> SUFFICES ASSUME Init PROVE LoginInv
  OBVIOUS
<1>1. LoginTypeOK
  <2>1. /\ build \in Builds /\ screen \in Screens /\ signedIn \in BOOLEAN
        /\ inProgress \in BOOLEAN
    BY DEF Init, Screens
  <2>2. /\ retries \in 0..MaxCallbackRetries + 1 /\ restarts \in 0..MaxCallbackRetries + 1
        /\ reports \in 0..MaxReports
    BY DEF Init
  <2>. QED BY <2>1, <2>2 DEF Init, LoginTypeOK
<1>2. RestartsBounded /\ RestartsAreCounted /\ GuardMeansListening /\ NotStranded
  BY DEF Init, RestartsBounded, RestartsAreCounted, GuardMeansListening, NotStranded
<1>3. ListenerAwaitsPending /\ CapturedIsPending /\ CodesNameFlows /\ PendingIsLatest
  BY DEF Init, ListenerAwaitsPending, CapturedIsPending, CodesNameFlows, PendingIsLatest, Carries
<1>. QED BY <1>1, <1>2, <1>3 DEF LoginInv

(* The listener returns a query of the flow it waited for, or an error.   *)
LEMMA ListenerReturnsKeepsInv ==
  ASSUME LoginInv, NEW a \in Answer, ListenerReturns(a), listener # None,
         a.flow = listener.flow \/ a = LoopbackFailed,
         open' \subseteq open
  PROVE  LoginInv'
<1>1. build = "desktop" /\ inProgress /\ answer = None
  BY DEF LoginInv, LoginTypeOK, GuardMeansListening, ListenerAwaitsPending
<1>2. screen' \in Screens /\ screen' \notin {"away", "restarting", "waiting"}
  BY <1>1 DEF LoginInv, LoginTypeOK, ListenerReturns, Callback, Screens
<1>3. a.kind = "code" => a.flow = listener.flow
  BY DEF LoopbackFailed
<1>4. LoginTypeOK'
  BY <1>1, <1>2 DEF LoginInv, LoginTypeOK, ListenerReturns, budget, webVars
<1>5. RestartsBounded' /\ RestartsAreCounted' /\ PendingIsLatest'
  BY DEF LoginInv, RestartsBounded, RestartsAreCounted, PendingIsLatest, ListenerReturns, budget
<1>6. GuardMeansListening' /\ ListenerAwaitsPending' /\ NotStranded'
  BY <1>2 DEF GuardMeansListening, ListenerAwaitsPending, NotStranded, ListenerReturns
<1>7. CapturedIsPending'
  BY <1>3 DEF LoginInv, CapturedIsPending, ListenerAwaitsPending, Carries, ListenerReturns
<1>8. CodesNameFlows'
  BY <1>3, LoginFields DEF LoginInv, CodesNameFlows, ListenerReturns, webVars
<1>. QED BY <1>4, <1>5, <1>6, <1>7, <1>8 DEF LoginInv

(* The browser's answer ends the listener that waited for it.              *)
LEMMA RequestArrivesKeepsInv ==
  ASSUME LoginInv, NEW k \in Kinds, RequestArrives(k)
  PROVE  LoginInv'
<1>1. [flow |-> listener.flow, kind |-> k] \in Answer
  BY LoginFields DEF LoginInv, RequestArrives, Answer
<1>. QED BY <1>1, ListenerReturnsKeepsInv DEF RequestArrives

(* So does a connection that carries none, or nobody at all.               *)
LEMMA ListenerEndsKeepsInv ==
  ASSUME LoginInv, ListenerEnds
  PROVE  LoginInv'
<1>1. LoopbackFailed \in Answer
  BY DEF LoopbackFailed, Answer, Kinds
<1>. QED BY <1>1, ListenerReturnsKeepsInv DEF ListenerEnds, ConnectionFails, AcceptTimesOut

(* The other actions, one by one.  What each leaves alone is in its        *)
(* UNCHANGED, so all parts of the invariant are open to the prover.        *)
USE DEF LoginInv, LoginTypeOK, RestartsBounded, RestartsAreCounted,
  GuardMeansListening, ListenerAwaitsPending, CapturedIsPending, CodesNameFlows,
  PendingIsLatest, NotStranded, Carries, Screens, budget, webVars, desktopVars

(* A tab sets out for the OP: the flow it minted is the latest.            *)
LEMMA WebStartKeepsInv ==
  ASSUME LoginInv, NEW f \in Flows, WebStart(f)
  PROVE  LoginInv'
BY LoginFields, MintedIsLatest DEF WebStart, Starting, AfterStart

(* A tab that cannot set out has minted a flow, or has not.                *)
LEMMA WebStartFailsKeepsInv ==
  ASSUME LoginInv, WebStartFails
  PROVE  LoginInv'
BY LoginFields, MintedIsLatest DEF WebStartFails, Starting, AfterStart

(* A start under the guard relies on the listener that holds it.           *)
LEMMA StartDeclinedKeepsInv ==
  ASSUME LoginInv, StartDeclined
  PROVE  LoginInv'
BY LoginFields DEF StartDeclined, Starting, AfterStart

(* A window's start drops the query of the flow before.                    *)
LEMMA DesktopStartKeepsInv ==
  ASSUME LoginInv, NEW f \in Flows, DesktopStart(f)
  PROVE  LoginInv'
BY LoginFields, MintedIsLatest DEF DesktopStart, Starting, AfterStart

(* A window's failed start leaves a report on its way.                     *)
LEMMA DesktopStartFailsKeepsInv ==
  ASSUME LoginInv, DesktopStartFails
  PROVE  LoginInv'
BY LoginFields, MintedIsLatest
   DEF DesktopStartFails, LoopbackFailed, Answer, Kinds, Starting, AfterStart

(* The report takes the window off the Login page.                         *)
LEMMA ReportRoutedKeepsInv ==
  ASSUME LoginInv, ReportRouted
  PROVE  LoginInv'
BY LoginFields DEF ReportRouted, Callback

(* A new document starts with no query; the store is as it was.            *)
LEMMA LeaveKeepsInv ==
  ASSUME LoginInv, Leave
  PROVE  LoginInv'
BY LoginFields DEF Leave, BootAt

(* A code in the address bar names a flow.                                 *)
LEMMA WebAnsweredKeepsInv ==
  ASSUME LoginInv, NEW f \in Flows, NEW k \in Kinds, WebAnswered(f, k)
  PROVE  LoginInv'
BY LoginFields DEF WebAnswered, BootAt, Answer, Kinds

(* A connection moves the listener on and nothing else.                    *)
LEMMA ConnectsKeepsInv ==
  ASSUME LoginInv, Connects
  PROVE  LoginInv'
BY LoginFields DEF Connects

(* A callback page that sends nothing may drop the pending flow.           *)
LEMMA CallbackFailsKeepsInv ==
  ASSUME LoginInv, CallbackFails
  PROVE  LoginInv'
BY LoginFields, RecoverKeepsBudget DEF CallbackFails

(* A code is sent as its flow stops being pending.                         *)
LEMMA SendCodeKeepsInv ==
  ASSUME LoginInv, SendCode
  PROVE  LoginInv'
BY LoginFields DEF SendCode, Matches, Live

(* A sign-in gives the whole budget back.                                  *)
LEMMA TokensArriveKeepsInv ==
  ASSUME LoginInv, TokensArrive
  PROVE  LoginInv'
BY LoginFields DEF TokensArrive

(* A failed exchange is a failure of the callback page.                    *)
LEMMA ExchangeFailsKeepsInv ==
  ASSUME LoginInv, ExchangeFails
  PROVE  LoginInv'
BY LoginFields, RecoverKeepsBudget DEF ExchangeFails

(* Try again leaves the error screen, and every flow as it is.             *)
LEMMA TryAgainKeepsInv ==
  ASSUME LoginInv, TryAgain
  PROVE  LoginInv'
BY LoginFields DEF TryAgain

(* A reload brings back the query of the address bar, if any.              *)
LEMMA ReloadKeepsInv ==
  ASSUME LoginInv, Reload
  PROVE  LoginInv'
BY LoginFields DEF Reload, RouteOf, BootAt

(* A bare URL has no query.                                                *)
LEMMA VisitKeepsInv ==
  ASSUME LoginInv, Visit
  PROVE  LoginInv'
BY LoginFields DEF Visit, BootAt

(* Going back finds the query the document was loaded with.                *)
LEMMA BackToCallbackKeepsInv ==
  ASSUME LoginInv, BackToCallback
  PROVE  LoginInv'
BY LoginFields DEF BackToCallback

(* The end of a session does not touch a flow.                             *)
LEMMA SessionEndsKeepsInv ==
  ASSUME LoginInv, SessionEnds
  PROVE  LoginInv'
BY LoginFields DEF SessionEnds, BootAt

(* Expiry changes no flow's name.                                          *)
LEMMA ExpireKeepsInv ==
  ASSUME LoginInv, Expire
  PROVE  LoginInv'
<1>1. /\ pending' \in [flow : Flows, fresh : BOOLEAN] /\ pending'.flow = pending.flow
      /\ pending # None
  BY DEF Expire, Live
<1>. QED BY <1>1 DEF Expire

HIDE DEF LoginInv, LoginTypeOK, RestartsBounded, RestartsAreCounted,
  GuardMeansListening, ListenerAwaitsPending, CapturedIsPending, CodesNameFlows,
  PendingIsLatest, NotStranded, Carries, Screens, budget, webVars, desktopVars

(* LoginInv is inductive.                                                  *)
LEMMA StepKeepsInv == LoginInv /\ [Next]_loginVars => LoginInv'
<1> SUFFICES ASSUME LoginInv, [Next]_loginVars PROVE LoginInv'
  OBVIOUS
<1>1. CASE Start
  BY <1>1, WebStartKeepsInv, WebStartFailsKeepsInv, StartDeclinedKeepsInv,
     DesktopStartKeepsInv, DesktopStartFailsKeepsInv DEF Start
<1>2. CASE ReportRouted \/ Leave \/ Connects \/ ListenerEnds \/ Expire
  BY <1>2, ReportRoutedKeepsInv, LeaveKeepsInv, ConnectsKeepsInv,
     ListenerEndsKeepsInv, ExpireKeepsInv
<1>3. CASE OpSteps
  BY <1>3, RequestArrivesKeepsInv, WebAnsweredKeepsInv DEF OpSteps
<1>4. CASE CallbackSteps
  BY <1>4, CallbackFailsKeepsInv, SendCodeKeepsInv, TokensArriveKeepsInv,
     ExchangeFailsKeepsInv DEF CallbackSteps
<1>5. CASE UserSteps
  BY <1>5, TryAgainKeepsInv, ReloadKeepsInv, VisitKeepsInv, BackToCallbackKeepsInv,
     SessionEndsKeepsInv DEF UserSteps
<1>6. CASE UNCHANGED loginVars
  BY <1>6 DEF loginVars, LoginInv, LoginTypeOK, RestartsBounded, RestartsAreCounted,
     GuardMeansListening, ListenerAwaitsPending, CapturedIsPending, CodesNameFlows,
     PendingIsLatest, NotStranded, Carries
<1>. QED BY <1>1, <1>2, <1>3, <1>4, <1>5, <1>6 DEF Next

(* For both builds, every number of flows and every budget, LoginInv holds *)
(* of every state of the sign-in.                                          *)
THEOREM LoginIsInvariant == LoginSpec => []LoginInv
BY InitEstablishesInv, StepKeepsInv, PTL DEF LoginSpec

(* The app never restarts a login by itself beyond its budget.             *)
COROLLARY RestartsAlwaysBounded == LoginSpec => []RestartsBounded
<1>1. LoginInv => RestartsBounded
  BY DEF LoginInv
<1>. QED BY <1>1, LoginIsInvariant, PTL

(* The desktop guard is up exactly while a listener waits.                 *)
COROLLARY GuardAlwaysMeansListening == LoginSpec => []GuardMeansListening
<1>1. LoginInv => GuardMeansListening
  BY DEF LoginInv
<1>. QED BY <1>1, LoginIsInvariant, PTL

(* No query of an earlier flow stands in for the pending one.              *)
COROLLARY CapturedIsAlwaysPending == LoginSpec => []CapturedIsPending
<1>1. LoginInv => CapturedIsPending
  BY DEF LoginInv
<1>. QED BY <1>1, LoginIsInvariant, PTL

(* Nobody waits in a window for a redirect that is not coming.             *)
COROLLARY NobodyIsStranded == LoginSpec => []NotStranded
<1>1. LoginInv => NotStranded
  BY DEF LoginInv
<1>. QED BY <1>1, LoginIsInvariant, PTL

(* Only SendCode sends a code: that of the pending flow.                   *)
LEMMA OnlySendCodeExchanges ==
  ASSUME LoginInv, [Next]_loginVars, exchange' # None, exchange' # exchange
  PROVE  SendCode
BY DEF Next, loginVars, Start, WebStart, WebStartFails, StartDeclined, DesktopStart,
  DesktopStartFails, ReportRouted, Leave, OpSteps, WebAnswered, RequestArrives,
  Connects, ListenerEnds, ConnectionFails, AcceptTimesOut, ListenerReturns,
  CallbackSteps, CallbackFails, TokensArrive, ExchangeFails, UserSteps, TryAgain,
  Reload, Visit, BackToCallback, SessionEnds, BootAt, Expire

(* And that flow is the one minted last, its code not sent before.         *)
LEMMA SentIsLatestAndUnused ==
  ASSUME LoginInv, SendCode
  PROVE  exchange' = latest /\ latest' = latest /\ exchange' \notin presented
BY DEF SendCode, Matches, Live, LoginInv, PendingIsLatest

(* A code is sent once, whatever is reloaded, revisited or answered late.  *)
THEOREM CodesAreSentOnce == LoginSpec => NoCodeTwice
<1>1. LoginInv /\ [Next]_loginVars =>
        [exchange' # None /\ exchange' # exchange => exchange' \notin presented]_loginVars
  BY OnlySendCodeExchanges, SentIsLatestAndUnused
<1>. QED BY <1>1, LoginIsInvariant, PTL DEF LoginSpec, NoCodeTwice

(* And only the code of the flow minted last.                              *)
THEOREM OnlyTheLatestIsExchanged == LoginSpec => ExchangesTheLatest
<1>1. LoginInv /\ [Next]_loginVars =>
        [exchange' # None /\ exchange' # exchange => exchange' = latest]_loginVars
  BY OnlySendCodeExchanges, SentIsLatestAndUnused
<1>. QED BY <1>1, LoginIsInvariant, PTL DEF LoginSpec, ExchangesTheLatest

-----------------------------------------------------------------------------
(* The refinement of CodeFlow.                                             *)

(* A code is exchanged on the callback page, and the page stays until the  *)
(* answer is there; whatever replaces the document drops the exchange.     *)
LEMMA ExchangeKeepsPage ==
  ASSUME ExchangeHasPage, [Next]_loginVars
  PROVE  ExchangeHasPage'
<1> USE DEF ExchangeHasPage, BootAt
<1>1. CASE Start \/ Leave
  BY <1>1
  DEF Start, WebStart, WebStartFails, StartDeclined, DesktopStart, DesktopStartFails,
      Starting, Leave
<1>2. CASE OpSteps \/ ReportRouted \/ Connects \/ ListenerEnds
  BY <1>2
  DEF OpSteps, WebAnswered, RequestArrives, ReportRouted, Connects, ListenerEnds,
      ConnectionFails, AcceptTimesOut, ListenerReturns, Callback
<1>3. CASE CallbackSteps
  BY <1>3 DEF CallbackSteps, CallbackFails, SendCode, TokensArrive, ExchangeFails, Unpolled
<1>4. CASE UserSteps \/ Expire \/ UNCHANGED loginVars
  BY <1>4
  DEF UserSteps, TryAgain, Reload, Visit, BackToCallback, SessionEnds, Expire, loginVars
<1>. QED BY <1>1, <1>2, <1>3, <1>4 DEF Next

(* ExchangeHasPage holds throughout.                                       *)
LEMMA ExchangeAlwaysHasPage == LoginSpec => []ExchangeHasPage
<1>1. Init => ExchangeHasPage
  BY DEF Init, ExchangeHasPage
<1>. QED BY <1>1, ExchangeKeepsPage, PTL DEF LoginSpec

(* The flow whose code may still be sent.                                  *)
Unspent == IF pending # None /\ pending.fresh THEN pending.flow ELSE None

(* A step of CodeFlow, or a stutter, in terms of Unspent.                  *)
CodeStep ==
  \/ \E f \in Flows : exchange = None /\ Unspent' = f /\ UNCHANGED <<exchange, signedIn>>
  \/ Unspent' = None /\ UNCHANGED <<exchange, signedIn>>
  \/ Unspent # None /\ exchange' = Unspent /\ Unspent' = None /\ UNCHANGED signedIn
  \/ exchange # None /\ exchange' = None /\ signedIn' = TRUE /\ Unspent' = Unspent
  \/ exchange' = None /\ Unspent' = Unspent /\ UNCHANGED signedIn
  \/ exchange = None /\ signedIn' = FALSE /\ Unspent' = Unspent /\ exchange' = exchange
  \/ UNCHANGED <<Unspent, exchange, signedIn>>

(* A step of the sign-in is a step of CodeFlow or a stutter.               *)
LEMMA LoginStepIsCodeStep ==
  ASSUME LoginInv, ExchangeHasPage, [Next]_loginVars
  PROVE  CodeStep
<1> USE DEF CodeStep
<1>1. ASSUME NEW f \in Flows, Mint(f) PROVE Unspent' = f
  BY <1>1, MintedIsLatest DEF Unspent
<1>2. CASE Start
  <2>1. exchange = None /\ UNCHANGED <<exchange, signedIn>>
    BY <1>2
    DEF Start, WebStart, WebStartFails, StartDeclined, DesktopStart, DesktopStartFails,
        Starting, ExchangeHasPage
  <2>2. (\E f \in Flows : Mint(f)) \/ UNCHANGED pending
    BY <1>2
    DEF Start, WebStart, WebStartFails, StartDeclined, DesktopStart, DesktopStartFails
  <2>. QED BY <1>1, <2>1, <2>2 DEF Unspent
<1>3. CASE OpSteps \/ ReportRouted \/ Leave \/ Connects \/ ListenerEnds
  BY <1>3
  DEF OpSteps, WebAnswered, RequestArrives, ReportRouted, Leave, Connects, ListenerEnds,
      ConnectionFails, AcceptTimesOut, ListenerReturns, BootAt, Unspent
<1>4. CASE CallbackFails
  BY <1>4 DEF CallbackFails, Unspent
<1>5. CASE SendCode
  <2>1. Unspent = answer.flow /\ Unspent # None
    BY <1>5, LoginFields DEF SendCode, Matches, Live, Unspent, LoginInv
  <2>. QED BY <1>5, <2>1 DEF SendCode, Unspent
<1>6. CASE TokensArrive \/ ExchangeFails
  BY <1>6 DEF TokensArrive, ExchangeFails, Unspent
<1>7. CASE UserSteps
  BY <1>7
  DEF UserSteps, TryAgain, Reload, Visit, BackToCallback, SessionEnds, BootAt, Unspent,
      ExchangeHasPage
<1>8. CASE Expire
  BY <1>8, LoginFields DEF Expire, Live, Unspent, LoginInv
<1>9. CASE UNCHANGED loginVars
  BY <1>9 DEF loginVars, Unspent
<1>. QED BY <1>2, <1>3, <1>4, <1>5, <1>6, <1>7, <1>8, <1>9 DEF Next, CallbackSteps

(* The sign-in of both builds keeps the contract of CodeFlow: one flow is  *)
(* open at a time, its code goes out once and while it is young, and a     *)
(* session comes of its answer and of nothing else.                        *)
THEOREM LoginImplementsCodeFlow == LoginSpec => ImplementsCodeFlow
<1>1. Init => Codes!Init
  BY DEF Init, Codes!Init
<1>2. LoginInv /\ ExchangeHasPage /\ [Next]_loginVars => [Codes!Next]_(Codes!codeVars)
  BY LoginStepIsCodeStep
  DEF CodeStep, Unspent, Codes!Next, Codes!Begin, Codes!Forget, Codes!Send, Codes!SignIn,
      Codes!GiveUp, Codes!SignOut, Codes!codeVars
<1>. QED
  BY <1>1, <1>2, LoginIsInvariant, ExchangeAlwaysHasPage, PTL
  DEF LoginSpec, ImplementsCodeFlow, Codes!Spec

(* What CodeFlow promises: while a code is being exchanged, no other flow  *)
(* is open beside it.                                                      *)
THEOREM OneFlowAtATime == LoginSpec => []Codes!OneFlowOpen
<1>1. Codes!Init => Codes!OneFlowOpen
  BY DEF Codes!Init, Codes!OneFlowOpen
<1>2. Codes!OneFlowOpen /\ [Codes!Next]_(Codes!codeVars) => Codes!OneFlowOpen'
  BY DEF Codes!OneFlowOpen, Codes!Next, Codes!Begin, Codes!Forget, Codes!Send,
     Codes!SignIn, Codes!GiveUp, Codes!SignOut, Codes!codeVars
<1>. QED
  BY <1>1, <1>2, LoginImplementsCodeFlow, PTL DEF ImplementsCodeFlow, Codes!Spec
=============================================================================
