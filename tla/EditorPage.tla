------------------------------ MODULE EditorPage ------------------------------
(***************************************************************************)
(* A page with a long form in it, and the ways its document can end:       *)
(*                                                                         *)
(*   src/pages/knowledge_base.rs      ArticleForm                          *)
(*   src/hooks/unsaved_guard.rs       UNSAVED_CHANGES, beforeunload        *)
(*   src/platform/window_close.rs     the desktop's close request          *)
(*   src/components/close_confirm.rs  its dialog                           *)
(*   src/hooks/update_check.rs        the reload for a new build           *)
(*                                                                         *)
(* The form compares its fields with what it opened with; an effect        *)
(* mirrors the result into one app-wide flag, and the host asks the user   *)
(* before a document goes whose flag is up: a browser with its own prompt, *)
(* a window by refusing to close.  The article form also creates its row   *)
(* behind the author's back when an image has to be stored against it.     *)
(***************************************************************************)
EXTENDS UpdateCheck

VARIABLES
  form,        (* an ArticleForm is mounted                                *)
  edited,      (* its fields differ from what it opened with               *)
  article,     (* article_id: none; opened for editing; auto_created       *)
  upload,      (* upload_image: none, creating the row, storing the file   *)
  submitting,  (* is_submitting                                            *)
  confirming,  (* confirming_cancel                                        *)
  unsaved,     (* UNSAVED_CHANGES                                          *)
  effect,      (* the guard's effect is due                                *)
  window,      (* desktop: open, or closed                                 *)
  visible,     (* desktop: the window is shown                             *)
  reshow,      (* desktop: the handler's cell                              *)
  asking       (* desktop: CLOSE_CONFIRM                                   *)

formVars   == <<form, edited, article, upload, submitting, confirming>>
guardVars  == <<unsaved, effect>>
windowVars == <<window, visible, reshow, asking>>
pageVars   == <<updateVars, formVars, guardVars, windowVars>>

EditorTypeOK ==
  /\ UpdateTypeOK
  /\ form       \in BOOLEAN
  /\ edited     \in BOOLEAN
  /\ article    \in {"none", "opened", "auto"}
  /\ upload     \in {"no", "creating", "storing"}
  /\ submitting \in BOOLEAN
  /\ confirming \in BOOLEAN
  /\ unsaved    \in BOOLEAN
  /\ effect     \in BOOLEAN
  /\ window     \in {"open", "closed"}
  /\ visible    \in BOOLEAN
  /\ reshow     \in BOOLEAN
  /\ asking     \in BOOLEAN
  /\ ~form => ~edited /\ article = "none" /\ upload = "no" /\ ~submitting /\ ~confirming
  /\ upload = "storing" => article # "none"
  /\ host = "web" => window = "open" /\ visible /\ ~reshow /\ ~asking
  /\ host = "desktop" => leaving = "no" /\ ~pending

-----------------------------------------------------------------------------
(* The guard.                                                              *)

(* The memo that ArticleForm hands to use_unsaved_guard.                   *)
Dirty == form /\ edited /\ ~submitting

(* A memo that may have changed leaves the effect to be run.               *)
Changed == effect' = TRUE /\ UNCHANGED unsaved

(* Effects run when the render is over, before the host is heard again.    *)
Settled == ~effect

(* use_unsaved_guard, its effect.                                          *)
Mirror ==
  /\ effect
  /\ unsaved' = Dirty
  /\ effect' = FALSE
  /\ UNCHANGED <<updateVars, formVars, windowVars>>

(* Its use_drop.                                                           *)
Dropped == effect' = FALSE /\ unsaved' = FALSE

(* The form goes, and with it the tasks it has spawned.                    *)
Gone ==
  /\ form' = FALSE
  /\ edited' = FALSE
  /\ article' = "none" /\ upload' = "no"
  /\ submitting' = FALSE /\ confirming' = FALSE

Unmounted == Gone /\ Dropped

-----------------------------------------------------------------------------
(* ArticleForm.                                                            *)

(* The page is in front of a user: no prompt of the browser blocks it, the *)
(* window is shown, and no dialog of the window covers it.                 *)
AtHand == Settled /\ leaving # "prompt" /\ window = "open" /\ visible /\ ~asking

(* Scripts run.                                                            *)
Running == Settled /\ leaving # "prompt" /\ window = "open"

OpenForm(a) ==
  /\ AtHand /\ ~form
  /\ a \in {"none", "opened"}
  /\ form' = TRUE
  /\ article' = a
  /\ Changed
  /\ UNCHANGED <<updateVars, edited, upload, submitting, confirming, windowVars>>

(* A field is changed, or changed back.                                    *)
Edit ==
  /\ AtHand /\ form /\ ~confirming
  /\ edited' \in BOOLEAN
  /\ Changed
  /\ UNCHANGED <<updateVars, form, article, upload, submitting, confirming, windowVars>>

(* upload_image: one at a time, and a new article is created first.        *)
Upload ==
  /\ AtHand /\ form /\ ~confirming
  /\ upload = "no"
  /\ upload' = IF article = "none" THEN "creating" ELSE "storing"
  /\ UNCHANGED <<updateVars, form, edited, article, submitting, confirming,
                 guardVars, windowVars>>

UploadCreates(ok) ==
  /\ Running /\ upload = "creating"
  /\ article' = IF ok THEN "auto" ELSE article
  /\ upload'  = IF ok THEN "storing" ELSE "no"
  /\ UNCHANGED <<updateVars, form, edited, submitting, confirming, guardVars, windowVars>>

(* The image is inserted into the body as it is by now.                    *)
UploadStores(ok) ==
  /\ Running /\ upload = "storing"
  /\ upload' = "no"
  /\ edited' = (edited \/ ok)
  /\ Changed
  /\ UNCHANGED <<updateVars, form, article, submitting, confirming, windowVars>>

(* handle_submit, past its validation: POST without a row, PUT with one.   *)
Submit ==
  /\ AtHand /\ form /\ ~confirming
  /\ ~submitting
  /\ submitting' = TRUE
  /\ Changed
  /\ UNCHANGED <<updateVars, form, edited, article, upload, confirming, windowVars>>

(* A saved article is shown on its own page.                               *)
SubmitSucceeds ==
  /\ Running /\ submitting
  /\ Unmounted
  /\ UNCHANGED <<updateVars, windowVars>>

(* Mutant of SubmitFails: the guard is handed a plain local, and its       *)
(* effect is not run again.                                                *)
SubmitFailsUnmirrored ==
  /\ Running /\ submitting
  /\ submitting' = FALSE
  /\ UNCHANGED <<updateVars, form, edited, article, upload, confirming, guardVars, windowVars>>

SubmitFails ==
  /\ Running /\ submitting
  /\ submitting' = FALSE
  /\ Changed
  /\ UNCHANGED <<updateVars, form, edited, article, upload, confirming, windowVars>>

(* Cancel asks if there is something to lose or to clean up.               *)
Cancel ==
  /\ AtHand /\ form /\ ~confirming
  /\ IF Dirty \/ article = "auto"
       THEN /\ confirming' = TRUE
            /\ UNCHANGED <<form, edited, article, upload, submitting, guardVars>>
       ELSE Unmounted
  /\ UNCHANGED <<updateVars, windowVars>>

KeepEditing ==
  /\ AtHand /\ confirming
  /\ confirming' = FALSE
  /\ UNCHANGED <<updateVars, form, edited, article, upload, submitting, guardVars, windowVars>>

(* Discard, which sends a DELETE for a row the upload has created; or a    *)
(* link to another page, which nothing intercepts.                         *)
LeavePage ==
  /\ AtHand /\ form
  /\ Unmounted
  /\ UNCHANGED <<updateVars, windowVars>>

-----------------------------------------------------------------------------
(* The document ends: browser.                                             *)

Reloaded == Loaded /\ Unmounted

(* use_beforeunload: a flag that is up puts the browser's prompt in front. *)
BeforeUnload ==
  /\ Settled /\ leaving = "asked"
  /\ IF unsaved
       THEN /\ leaving' = "prompt"
            /\ UNCHANGED <<host, live, bundle, pending, overdue, skew, probe, poll,
                           hidden, formVars, guardVars>>
       ELSE Reloaded
  /\ UNCHANGED windowVars

PromptLeave ==
  /\ leaving = "prompt"
  /\ Reloaded
  /\ UNCHANGED windowVars

PromptStay ==
  /\ leaving = "prompt"
  /\ leaving' = "no"
  /\ UNCHANGED <<host, live, bundle, pending, overdue, skew, probe, poll, hidden,
                 formVars, guardVars, windowVars>>

-----------------------------------------------------------------------------
(* The document ends: desktop.                                             *)

Closes == window' = "closed" /\ Unmounted /\ UNCHANGED <<visible, reshow>>

(* Mutants of CloseRequested: the flag is not looked at; the window is     *)
(* shown again on the way, before dioxus-desktop hides it.                 *)
CloseRequestedUnasked ==
  /\ host = "desktop" /\ Settled /\ window = "open"
  /\ \/ /\ asking
        /\ visible' = FALSE /\ reshow' = TRUE
        /\ UNCHANGED <<formVars, guardVars, window, asking>>
     \/ /\ ~asking
        /\ Closes /\ UNCHANGED asking
  /\ UNCHANGED updateVars

CloseRequestedShownEarly ==
  /\ host = "desktop" /\ Settled /\ window = "open"
  /\ \/ /\ unsaved \/ asking
        /\ asking' = TRUE /\ visible' = FALSE /\ reshow' = FALSE
        /\ UNCHANGED <<formVars, guardVars, window>>
     \/ /\ ~unsaved /\ ~asking
        /\ Closes /\ UNCHANGED asking
  /\ UNCHANGED updateVars

(* The handler of use_close_guard, then dioxus-desktop, which hides the    *)
(* window of a request that was refused and closes one that was not.       *)
CloseRequested ==
  /\ host = "desktop" /\ Settled /\ window = "open"
  /\ \/ /\ unsaved \/ asking
        /\ asking' = TRUE /\ visible' = FALSE /\ reshow' = TRUE
        /\ UNCHANGED <<formVars, guardVars, window>>
     \/ /\ ~unsaved /\ ~asking
        /\ Closes /\ UNCHANGED asking
  /\ UNCHANGED updateVars

(* Any later event.                                                        *)
LaterEvent ==
  /\ host = "desktop" /\ Settled /\ window = "open"
  /\ reshow
  /\ reshow' = FALSE /\ visible' = TRUE
  /\ UNCHANGED <<updateVars, formVars, guardVars, window, asking>>

CancelClose ==
  /\ asking /\ visible /\ Settled /\ window = "open"
  /\ asking' = FALSE
  /\ UNCHANGED <<updateVars, formVars, guardVars, window, visible, reshow>>

ConfirmClose ==
  /\ asking /\ visible /\ Settled /\ window = "open"
  /\ asking' = FALSE
  /\ Closes
  /\ UNCHANGED updateVars

(* The program is started again.                                           *)
Launch ==
  /\ window = "closed"
  /\ window' = "open" /\ visible' = TRUE
  /\ UNCHANGED <<updateVars, formVars, guardVars, reshow, asking>>

-----------------------------------------------------------------------------
EditorInit ==
  /\ UpdateInit
  /\ form = FALSE /\ edited = FALSE /\ article = "none" /\ upload = "no"
  /\ submitting = FALSE /\ confirming = FALSE
  /\ unsaved = FALSE /\ effect = FALSE
  /\ window = "open" /\ visible = TRUE /\ reshow = FALSE /\ asking = FALSE

FormSteps ==
  \/ \E a \in {"none", "opened"} : OpenForm(a)
  \/ Edit \/ Upload \/ Submit \/ SubmitSucceeds \/ SubmitFails
  \/ \E ok \in BOOLEAN : UploadCreates(ok) \/ UploadStores(ok)
  \/ Cancel \/ KeepEditing \/ LeavePage

BrowserSteps == BeforeUnload \/ PromptLeave \/ PromptStay

WindowSteps == CloseRequested \/ LaterEvent \/ CancelClose \/ ConfirmClose \/ Launch

(* A deploy and the clock do not wait for the page.                        *)
PageStays == UNCHANGED <<formVars, guardVars, windowVars>>
OwnSteps ==
  /\ \/ \E b \in Builds : Deploy(b)
     \/ DeferralEnds
     \/ Running /\ (Detection \/ PollReloads \/ VisibilityChanges \/ UserReloads)
  /\ PageStays

EditorNext == Mirror \/ FormSteps \/ BrowserSteps \/ WindowSteps \/ OwnSteps

EditorSpec == EditorInit /\ [][EditorNext]_pageVars

(* Timers fire, a fetch is answered, and every so often not in vain; an    *)
(* effect that is due is run, a navigation goes on whatever the user goes  *)
(* on doing meanwhile, a prompt is answered.                               *)
EditorFairness ==
  /\ WF_pageVars(Mirror) /\ SF_pageVars(BeforeUnload)
  /\ WF_pageVars(PromptLeave \/ PromptStay)
  /\ WF_pageVars(DeferralEnds /\ PageStays)
  /\ SF_pageVars(Running /\ PollFetches /\ PageStays)
  /\ SF_pageVars(Running /\ PollEnds(TRUE) /\ PageStays)
  /\ SF_pageVars(Running /\ PollReloads /\ PageStays)

FairEditorSpec == EditorSpec /\ EditorFairness
-----------------------------------------------------------------------------
(* Properties.                                                             *)

(* When the host looks at the flag it finds what the form on screen would  *)
(* say, and no more: "the two hosts prompt off one flag rather than off    *)
(* two copies that can disagree", and no prompt is about a form that is    *)
(* gone (unsaved_guard.rs).                                                *)
GuardFollowsForm == Settled => (unsaved <=> Dirty)

(* Edits that are not being saved do not go with their document unless the *)
(* user was asked: not by a reload for a new build, on whatever path, nor  *)
(* by the second of two close requests (update_check.rs, window_close.rs). *)
DocumentEnds ==
  \/ window = "open" /\ window' = "closed"
  \/ leaving # "no" /\ leaving' = "no" /\ form /\ ~form'
EditsLeaveByConsent ==
  [][DocumentEnds /\ Dirty => leaving = "prompt" \/ asking]_pageVars

(* A window that refused to close is on its way back (window_close.rs).    *)
HiddenIsReshown == ~visible => reshow

(* However long nobody hides the tab, the deployed build is loaded in the  *)
(* end, unless the user keeps answering the prompt with Stay               *)
(* (update_check.rs, "they would never auto-update").                      *)
DeploysEnd == <>[][~\E b \in Builds : Deploy(b)]_pageVars
StaysEnd   == <>[][~PromptStay]_pageVars
StaleIsReplaced == DeploysEnd /\ StaysEnd => <>[](host = "web" => bundle = live)

(* The inductive invariant.                                                *)
EditorInv == EditorTypeOK /\ UpdateInv /\ GuardFollowsForm /\ HiddenIsReshown
=============================================================================
