--------------------------- MODULE EditorPage_proofs ---------------------------
(***************************************************************************)
(* The invariant of EditorPage and the consent to losing edits, for any    *)
(* hosts and builds.  The steps of the update check, which the page        *)
(* interleaves with its own, are one lemma; the page's steps are another,  *)
(* with a case per action.                                                 *)
(***************************************************************************)
EXTENDS EditorPage, TLAPS

LEMMA EditorInitHolds == EditorInit => EditorInv
  BY UpdateAssumption
     DEF EditorInit, UpdateInit, EditorInv, EditorTypeOK, UpdateInv, UpdateTypeOK,
         ProbeIsDue, ProbeWasAsked, OverdueIsPending, GuardFollowsForm, Settled,
         Dirty, HiddenIsReshown

(* What the update check does to its own variables.  On the desktop it     *)
(* never finds anything, and never navigates.                              *)
DesktopStays == host = "desktop" => leaving = "no" /\ ~pending

LEMMA UpdateStepKeeps ==
  ASSUME UpdateInv, DesktopStays,
         (\E b \in Builds : Deploy(b)) \/ Detection \/ Reloading
  PROVE  UpdateInv' /\ DesktopStays'
<1> USE DEF UpdateInv, UpdateTypeOK, DesktopStays, ProbeIsDue, ProbeWasAsked,
            OverdueIsPending
<1>1. ASSUME NEW b \in Builds, Deploy(b)  PROVE UpdateInv' /\ DesktopStays'
  BY <1>1 DEF Deploy
<1>2. CASE Suspect
  BY <1>2 DEF Suspect
<1>3. CASE ProbeRuns
  BY <1>3 DEF ProbeRuns
<1>4. CASE PollFetches
  BY <1>4 DEF PollFetches
<1>5. ASSUME NEW found \in BOOLEAN, ProbeEnds(found)  PROVE UpdateInv' /\ DesktopStays'
  BY <1>5 DEF ProbeEnds, Compared
<1>6. ASSUME NEW found \in BOOLEAN, PollEnds(found)  PROVE UpdateInv' /\ DesktopStays'
  BY <1>6 DEF PollEnds, Compared
<1>7. CASE DeferralEnds
  BY <1>7 DEF DeferralEnds
<1>8. CASE PollReloads
  BY <1>8, UpdateAssumption DEF PollReloads, ReloadNow
<1>9. CASE VisibilityChanges
  BY <1>9 DEF VisibilityChanges, ReloadNow
<1>10. CASE UserReloads
  BY <1>10 DEF UserReloads, ReloadNow
<1> QED
  BY <1>1, <1>2, <1>3, <1>4, <1>5, <1>6, <1>7, <1>8, <1>9, <1>10 DEF Detection, Reloading

(* A reload leaves the update check as it starts.                          *)
LEMMA LoadedKeeps ==
  ASSUME UpdateInv, DesktopStays, Loaded
  PROVE  UpdateInv' /\ DesktopStays'
  BY DEF Loaded, UpdateInv, UpdateTypeOK, DesktopStays, ProbeIsDue, ProbeWasAsked,
         OverdueIsPending

(* The form and the window, given that the update check is in order.       *)
PageOK ==
  /\ form \in BOOLEAN /\ edited \in BOOLEAN
  /\ article \in {"none", "opened", "auto"}
  /\ upload \in {"no", "creating", "storing"}
  /\ submitting \in BOOLEAN /\ confirming \in BOOLEAN
  /\ unsaved \in BOOLEAN /\ effect \in BOOLEAN
  /\ window \in {"open", "closed"}
  /\ visible \in BOOLEAN /\ reshow \in BOOLEAN /\ asking \in BOOLEAN
  /\ ~form => ~edited /\ article = "none" /\ upload = "no" /\ ~submitting /\ ~confirming
  /\ upload = "storing" => article # "none"
  /\ host = "web" => window = "open" /\ visible /\ ~reshow /\ ~asking
  /\ GuardFollowsForm
  /\ HiddenIsReshown

LEMMA InvInParts ==
  ASSUME EditorInv
  PROVE  UpdateInv /\ DesktopStays /\ PageOK
  BY DEF EditorInv, EditorTypeOK, DesktopStays, PageOK

LEMMA PartsGiveInv ==
  ASSUME UpdateInv', DesktopStays', PageOK'
  PROVE  EditorInv'
  BY DEF EditorInv, EditorTypeOK, UpdateInv, DesktopStays, PageOK

LEMMA UpdateIdle ==
  ASSUME UpdateInv, DesktopStays, UNCHANGED updateVars
  PROVE  UpdateInv' /\ DesktopStays' /\ host' = host
  BY DEF updateVars, UpdateInv, UpdateTypeOK, DesktopStays, ProbeIsDue,
         ProbeWasAsked, OverdueIsPending

LEMMA FormStep ==
  ASSUME PageOK, Mirror \/ FormSteps
  PROVE  PageOK' /\ UNCHANGED updateVars
<1> USE DEF GuardFollowsForm, HiddenIsReshown, Settled, Dirty, Changed, Dropped, Gone,
            Unmounted, windowVars, formVars, guardVars, updateVars, PageOK
<1>1. CASE Mirror
  BY <1>1 DEF Mirror
<1>2. ASSUME NEW a \in {"none", "opened"}, OpenForm(a)
      PROVE  PageOK' /\ UNCHANGED updateVars
  BY <1>2 DEF OpenForm
<1>3. CASE Edit
  BY <1>3 DEF Edit
<1>4. CASE Upload
  BY <1>4 DEF Upload
<1>5. CASE Submit
  BY <1>5 DEF Submit
<1>6. CASE SubmitSucceeds
  BY <1>6 DEF SubmitSucceeds
<1>7. CASE SubmitFails
  BY <1>7 DEF SubmitFails
<1>8. ASSUME NEW ok \in BOOLEAN, UploadCreates(ok)
      PROVE  PageOK' /\ UNCHANGED updateVars
  BY <1>8 DEF UploadCreates
<1>9. ASSUME NEW ok \in BOOLEAN, UploadStores(ok)
      PROVE  PageOK' /\ UNCHANGED updateVars
  BY <1>9 DEF UploadStores
<1>10. CASE Cancel
  BY <1>10 DEF Cancel
<1>11. CASE KeepEditing
  BY <1>11 DEF KeepEditing
<1>12. CASE LeavePage
  BY <1>12 DEF LeavePage
<1> QED
  BY <1>1, <1>2, <1>3, <1>4, <1>5, <1>6, <1>7, <1>8, <1>9, <1>10, <1>11, <1>12 DEF FormSteps

LEMMA WindowStep ==
  ASSUME PageOK, host \in {"web", "desktop"}, WindowSteps
  PROVE  PageOK' /\ UNCHANGED updateVars
<1> USE DEF GuardFollowsForm, HiddenIsReshown, Settled, Dirty, Changed, Dropped, Gone,
            Unmounted, windowVars, formVars, guardVars, updateVars, PageOK
<1>1. CASE CloseRequested
  <2>1. host = "desktop" /\ UNCHANGED updateVars
    BY <1>1 DEF CloseRequested
  <2>2. \/ /\ asking' = TRUE /\ visible' = FALSE /\ reshow' = TRUE
           /\ UNCHANGED <<formVars, guardVars, window>>
        \/ Closes /\ UNCHANGED asking
    BY <1>1 DEF CloseRequested
  <2>3. CASE /\ asking' = TRUE /\ visible' = FALSE /\ reshow' = TRUE
             /\ UNCHANGED <<formVars, guardVars, window>>
    BY <2>1, <2>3
  <2>4. CASE Closes /\ UNCHANGED asking
    BY <2>1, <2>4 DEF Closes
  <2> QED  BY <2>2, <2>3, <2>4
<1>2. CASE LaterEvent
  BY <1>2 DEF LaterEvent
<1>3. CASE CancelClose
  BY <1>3 DEF CancelClose
<1>4. CASE ConfirmClose
  BY <1>4 DEF ConfirmClose, Closes
<1>5. CASE Launch
  BY <1>5 DEF Launch
<1> QED  BY <1>1, <1>2, <1>3, <1>4, <1>5 DEF WindowSteps

LEMMA BrowserStep ==
  ASSUME UpdateInv, DesktopStays, PageOK, BrowserSteps
  PROVE  UpdateInv' /\ DesktopStays' /\ PageOK'
<1>1. ASSUME Reloaded, UNCHANGED windowVars
      PROVE  UpdateInv' /\ DesktopStays' /\ PageOK'
  <2>1. UpdateInv' /\ DesktopStays'
    BY <1>1, LoadedKeeps DEF Reloaded
  <2>2. PageOK'
    BY <1>1 DEF Reloaded, Loaded, Unmounted, Gone, Dropped, PageOK, windowVars,
                GuardFollowsForm, HiddenIsReshown, Settled, Dirty
  <2> QED  BY <2>1, <2>2
<1>2. ASSUME leaving # "no", leaving' \in {"no", "prompt"},
             UNCHANGED <<host, live, bundle, pending, overdue, skew, probe, poll, hidden>>,
             PageStays
      PROVE  UpdateInv' /\ DesktopStays' /\ PageOK'
  <2>1. UpdateInv' /\ DesktopStays'
    BY <1>2 DEF UpdateInv, UpdateTypeOK, DesktopStays, ProbeIsDue, ProbeWasAsked,
                OverdueIsPending
  <2>2. PageOK'
    BY <1>2 DEF PageStays, PageOK, windowVars, formVars, guardVars, GuardFollowsForm,
                HiddenIsReshown, Settled, Dirty
  <2> QED  BY <2>1, <2>2
<1>3. CASE BeforeUnload
  <2>1. CASE unsaved
    BY <1>2, <1>3, <2>1 DEF BeforeUnload, PageStays
  <2>2. CASE ~unsaved
    BY <1>1, <1>3, <2>2 DEF BeforeUnload
  <2> QED  BY <2>1, <2>2
<1>4. CASE PromptLeave
  BY <1>1, <1>4 DEF PromptLeave
<1>5. CASE PromptStay
  BY <1>2, <1>5 DEF PromptStay, PageStays
<1> QED  BY <1>3, <1>4, <1>5 DEF BrowserSteps

LEMMA OwnStep ==
  ASSUME UpdateInv, DesktopStays, PageOK, OwnSteps
  PROVE  UpdateInv' /\ DesktopStays' /\ PageOK'
<1>1. (\E b \in Builds : Deploy(b)) \/ Detection \/ Reloading
  BY DEF OwnSteps, Reloading
<1>2. UpdateInv' /\ DesktopStays'
  BY <1>1, UpdateStepKeeps
<1>3. host' = host
  BY <1>1 DEF Detection, Reloading, Deploy, Suspect, ProbeRuns, PollFetches, ProbeEnds,
              PollEnds, DeferralEnds, PollReloads, VisibilityChanges, UserReloads
<1>4. PageOK'
  BY <1>3 DEF OwnSteps, PageStays, PageOK, formVars, guardVars, windowVars,
              GuardFollowsForm, Settled, Dirty, HiddenIsReshown
<1> QED  BY <1>2, <1>4

LEMMA EditorStep ==
  ASSUME EditorInv, [EditorNext]_pageVars
  PROVE  EditorInv'
<1>1. UpdateInv /\ DesktopStays /\ PageOK
  BY InvInParts
<1>2. host \in {"web", "desktop"}
  BY <1>1, UpdateAssumption DEF UpdateInv, UpdateTypeOK
<1>3. CASE Mirror \/ FormSteps
  BY <1>1, <1>3, FormStep, UpdateIdle, PartsGiveInv
<1>4. CASE BrowserSteps
  BY <1>1, <1>4, BrowserStep, PartsGiveInv
<1>5. CASE WindowSteps
  BY <1>1, <1>2, <1>5, WindowStep, UpdateIdle, PartsGiveInv
<1>6. CASE OwnSteps
  BY <1>1, <1>6, OwnStep, PartsGiveInv
<1>7. CASE UNCHANGED pageVars
  <2>1. PageOK'
    BY <1>1, <1>7 DEF pageVars, updateVars, PageOK, formVars, guardVars, windowVars,
                      GuardFollowsForm, Settled, Dirty, HiddenIsReshown
  <2> QED  BY <1>1, <1>7, <2>1, UpdateIdle, PartsGiveInv DEF pageVars
<1> QED  BY <1>3, <1>4, <1>5, <1>6, <1>7 DEF EditorNext

(* Form, flag, window and update check stay coherent.                      *)
THEOREM EditorIsInvariant == EditorSpec => []EditorInv
<1>1. EditorInit => EditorInv
  BY EditorInitHolds
<1>2. EditorInv /\ [EditorNext]_pageVars => EditorInv'
  BY EditorStep
<1> QED  BY <1>1, <1>2, PTL DEF EditorSpec

(* The flag both hosts prompt off is what the form on screen would say     *)
(* (unsaved_guard.rs).                                                     *)
THEOREM GuardAlwaysFollowsForm == EditorSpec => []GuardFollowsForm
<1>1. EditorInv => GuardFollowsForm
  BY DEF EditorInv
<1> QED  BY <1>1, EditorIsInvariant, PTL

(* No request for a skew probe is swallowed (update_check.rs).             *)
THEOREM ProbeIsAlwaysDue == EditorSpec => []ProbeIsDue
<1>1. EditorInv => ProbeIsDue
  BY DEF EditorInv, UpdateInv
<1> QED  BY <1>1, EditorIsInvariant, PTL

(* A document with edits in it goes only after the user was asked, by the  *)
(* browser or by the window's dialog (update_check.rs, window_close.rs).   *)
LEMMA ConsentStep ==
  ASSUME EditorInv, [EditorNext]_pageVars
  PROVE  DocumentEnds /\ Dirty => leaving = "prompt" \/ asking
<1> SUFFICES ASSUME DocumentEnds, Dirty, leaving # "prompt", ~asking
             PROVE  FALSE
  OBVIOUS
<1>1. Settled => unsaved
  BY DEF EditorInv, GuardFollowsForm
<1>2. CASE Mirror
  BY <1>2 DEF Mirror, DocumentEnds, updateVars, formVars, windowVars
<1>3. CASE FormSteps
  BY <1>3 DEF DocumentEnds, FormSteps, OpenForm, Edit, Upload, Submit, SubmitSucceeds,
              SubmitFails, UploadCreates, UploadStores, Cancel, KeepEditing, LeavePage,
              updateVars, windowVars
<1>4. CASE BrowserSteps
  BY <1>1, <1>4 DEF DocumentEnds, BrowserSteps, BeforeUnload, PromptLeave, PromptStay,
                    windowVars, formVars
<1>5. CASE WindowSteps
  BY <1>1, <1>5 DEF DocumentEnds, WindowSteps, CloseRequested, LaterEvent, CancelClose,
                    ConfirmClose, Launch, Closes, updateVars, formVars
<1>6. CASE OwnSteps
  BY <1>6 DEF DocumentEnds, OwnSteps, PageStays, formVars, windowVars
<1>7. CASE UNCHANGED pageVars
  BY <1>7 DEF DocumentEnds, pageVars, updateVars, formVars, windowVars
<1> QED  BY <1>2, <1>3, <1>4, <1>5, <1>6, <1>7 DEF EditorNext

THEOREM EditsAlwaysLeaveByConsent == EditorSpec => EditsLeaveByConsent
<1>1. EditorInv /\ [EditorNext]_pageVars
        => [DocumentEnds /\ Dirty => leaving = "prompt" \/ asking]_pageVars
  BY ConsentStep
<1> QED  BY <1>1, EditorIsInvariant, PTL DEF EditorSpec, EditsLeaveByConsent
=============================================================================
