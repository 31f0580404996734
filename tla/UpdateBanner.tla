--------------------------- MODULE UpdateBanner ---------------------------
(***************************************************************************)
(* UpdateChecker inside one run of the app: the worker that checks the     *)
(* feed and carries out what the user clicked, the banner it keeps, and    *)
(* the window whose clicks are on the banner it was last handed. What the  *)
(* elevated helper does between its start and its end is UpdateInstall's;  *)
(* here it only ends.                                                      *)
(*                                                                         *)
(* A release is its code; 0 is none. What a check of the feed selects is   *)
(* any release or none. feedGeneration_ is only ever compared with the     *)
(* copy the worker took when it began its job, so the model keeps whether  *)
(* that copy is `current`. Snapshots reach the window late, and in the     *)
(* order they were made: `shown` is some earlier snapshot.                 *)
(***************************************************************************)
EXTENDS Releases

CONSTANTS
  Own,         \* version::kCode, a release build's
  Installed    \* installed_: this copy runs from an admin-only location

ASSUME ConstantsAssumption ==
  Own \in Nat \ {0} /\ MaxRelease \in Nat /\ Own <= MaxRelease /\ Installed \in BOOLEAN

VARIABLES
  banner,    \* snapshot_: phase, code and note
  offer,     \* offer_.code, which snapshot_.offeredCode equals
  later,     \* laterCode_
  asked,     \* applyRequested_, manualRequested_, revealRequested_, checkRequested_
  current,   \* feedGeneration_ is still the one the worker's job began under
  shown,     \* MainWindow's updateSnapshot_
  clicked,   \* history: the release on the banner the user clicked last
  overtaken, \* history: the banner moved to another release after that click
  step,      \* where the worker is
  manual,    \* RunApply's `manual`
  taken,     \* RunApply's offer
  why,       \* what RunCheck was called for
  checked,   \* what RunCheck returned
  unwatched  \* history: a helper was started whose process was not returned

checker    == <<banner, offer, later, asked>>
window     == <<shown, clicked, overtaken>>
job        == <<manual, taken, why, checked, current>>
bannerVars == <<checker, window, step, job, unwatched>>

Offering == {"Available", "Failed", "ManualInstall"}
NoBanner == [phase |-> "None", code |-> 0, note |-> "none"]

\* What the banner's one button asks for (MainWindow::OnUpdateBannerAction); a
\* report's button is the installer while its release is still offered.
Act(b, o) ==
  CASE b.phase = "Available"     -> "apply"
    [] b.phase = "Failed"        -> IF b.note = "installer" THEN "manual" ELSE "apply"
    [] b.phase = "ManualInstall" -> "reveal"
    [] b.phase = "Result"        -> IF b.note = "notInstalled" /\ o # 0 /\ o = b.code
                                      THEN "manual" ELSE "dismiss"
    [] OTHER                     -> "none"

View(b, o) == [phase |-> b.phase, code |-> b.code, act |-> Act(b, o)]

OffersLater(b) == b.code # 0 /\ b.phase \in Offering

HiddenByLater(l, r) == l # 0 /\ r = l

\* The banner the worker starts with: the report of an update, when it is
\* about this build (ShowLastResult), or none.
LastResults ==
  {NoBanner} \cup
  {b \in [phase : {"Result"}, code : Own .. MaxRelease,
          note : {"installed", "restartWindows", "notInstalled"}] :
     /\ Installed
     /\ b.note = "installed" => b.code = Own
     /\ b.note = "notInstalled" => b.code > Own}

BannerInit ==
  /\ banner = NoBanner /\ offer = 0 /\ later = 0 /\ asked = {}
  /\ shown = View(NoBanner, 0) /\ clicked = 0 /\ overtaken = FALSE
  /\ step = "start" /\ unwatched = FALSE
  /\ manual = FALSE /\ taken = 0 /\ why = "loop" /\ checked = FALSE /\ current = FALSE

\* The banner of an update step that failed; its code is left as it was.
Failing(note) == [banner EXCEPT !.phase = "Failed", !.note = note]

\* MutateFor: nothing of it happens once the channel has changed.
MutateFor(b) == banner' = IF current THEN b ELSE banner

Clicks == {"apply", "manual"}

\* The release on the banner is compared with the one of the last click.
Moves == overtaken' = (overtaken \/ banner'.code # banner.code)

---------------------------------------------------------------------------
(* The window, on the UI thread.                                           *)

\* The queued snapshot is applied (MainWindow's handler).
Deliver ==
  /\ shown # View(banner, offer)
  /\ shown' = View(banner, offer)
  /\ UNCHANGED <<checker, clicked, overtaken, step, job, unwatched>>

\* The banner's button: BeginApply, ShowInstaller or RevealInstaller.
Click ==
  /\ shown.act \in {"apply", "manual", "reveal"}
  /\ asked' = asked \cup {shown.act}
  /\ IF shown.act \in Clicks
       THEN clicked' = shown.code /\ overtaken' = (banner.code # shown.code)
       ELSE UNCHANGED <<clicked, overtaken>>
  /\ UNCHANGED <<banner, offer, later, shown, step, job, unwatched>>

CheckNow ==
  /\ asked' = asked \cup {"check"} /\ later' = 0
  /\ UNCHANGED <<banner, offer, window, step, job, unwatched>>

\* Mutant: the window's snapshot decides.
Later_Unguarded ==
  /\ OffersLater(shown)
  /\ later' = banner.code /\ banner' = NoBanner
  /\ Moves
  /\ UNCHANGED <<offer, asked, shown, clicked, step, job, unwatched>>

\* The link is on the banner the window shows; the snapshot decides.
Later ==
  /\ OffersLater(shown) /\ OffersLater(banner)
  /\ later' = banner.code /\ banner' = NoBanner
  /\ Moves
  /\ UNCHANGED <<offer, asked, shown, clicked, step, job, unwatched>>

\* The report's button or its close: it is not shown again, and a release
\* still offered is offered again.
DismissResult ==
  /\ shown.phase = "Result" /\ banner.phase = "Result"
  /\ banner' = IF offer > Own /\ ~HiddenByLater(later, offer)
                 THEN [phase |-> "Available", code |-> offer, note |-> "none"]
                 ELSE NoBanner
  /\ Moves
  /\ UNCHANGED <<offer, later, asked, shown, clicked, step, job, unwatched>>

\* The feed is another one: its offer and its banner go; the report stays.
ChannelChanged ==
  /\ current' = FALSE /\ offer' = 0 /\ later' = 0 /\ asked' = asked \cup {"check"}
  /\ banner' = IF banner.phase = "Result" THEN banner ELSE NoBanner
  /\ Moves
  /\ UNCHANGED <<shown, clicked, step, manual, taken, why, checked, unwatched>>

---------------------------------------------------------------------------
(* The worker: WorkerLoop and the job it runs.                             *)

\* The job ends, and its locals with it.
JobEnds ==
  /\ step' = "idle"
  /\ manual' = FALSE /\ taken' = 0 /\ why' = "loop" /\ checked' = FALSE /\ current' = FALSE

\* The job goes on.
On(next) == step' = next /\ UNCHANGED job

\* ShowLastResult, before the loop.
WorkerBegins ==
  /\ step = "start"
  /\ banner' \in LastResults
  /\ step' = "idle"
  /\ UNCHANGED <<offer, later, asked, window, job, unwatched>>

\* An update the user asked for goes before the installer shown again, and
\* that before a check.
TakeApply ==
  /\ step = "idle" /\ asked \cap Clicks # {}
  /\ step' = "claim" /\ manual' = ("apply" \notin asked)
  /\ asked' = asked \ Clicks /\ current' = TRUE
  /\ UNCHANGED <<banner, offer, later, window, taken, why, checked, unwatched>>

TakeReveal ==
  /\ step = "idle" /\ asked \cap Clicks = {} /\ "reveal" \in asked
  /\ step' = "reveal" /\ asked' = asked \ {"reveal"} /\ current' = TRUE
  /\ UNCHANGED <<banner, offer, later, window, manual, taken, why, checked, unwatched>>

\* Asked for, or timed.
TakeCheck ==
  /\ step = "idle" /\ asked \subseteq {"check"}
  /\ step' = "check" /\ why' = "loop" /\ asked' = {} /\ current' = TRUE
  /\ UNCHANGED <<banner, offer, later, window, manual, taken, checked, unwatched>>

\* RunCheck returns `done` to what called it.
CheckReturns(done) ==
  \/ why = "loop" /\ JobEnds
  \/ /\ why # "loop"
     /\ step' = (CASE why = "click"   -> "judge"
                 [] why = "refused" -> "judgeRefused"
                 [] why = "reveal"  -> "revealAgain")
     /\ checked' = done /\ UNCHANGED <<manual, taken, why, current>>

\* RunCheck that is held back, cannot fetch or read the list, or finds its
\* feed left.
CheckFails ==
  /\ step = "check"
  /\ CheckReturns(FALSE)
  /\ UNCHANGED <<checker, window, unwatched>>

\* Mutant: Later forgotten by the check.
BannerFor_ForgetsLater(r) ==
  IF r > Own
    THEN IF banner.phase = "None" \/ banner.code # r
           THEN [phase |-> "Available", code |-> r, note |-> "none"] ELSE banner
    ELSE IF banner.phase \in {"None", "Result"} THEN banner ELSE NoBanner

\* The banner RunCheck leaves for a list that selects release r.
BannerFor(r) ==
  IF r > Own
    THEN IF HiddenByLater(later, r)
           THEN IF banner.phase # "Result" /\ banner.code \notin {0, r} THEN NoBanner ELSE banner
           ELSE IF banner.phase = "None" \/ banner.code # r
                  THEN [phase |-> "Available", code |-> r, note |-> "none"] ELSE banner
    ELSE IF banner.phase \in {"None", "Result"} THEN banner ELSE NoBanner

\* RunCheck whose list was judged.
CheckDone ==
  /\ step = "check" /\ current
  /\ CheckReturns(TRUE)
  /\ \E r \in Codes :
       /\ offer' = IF r > Own THEN r ELSE 0
       /\ banner' = BannerFor(r)
  /\ Moves
  /\ UNCHANGED <<later, asked, shown, clicked, unwatched>>

\* Mutant: the offer is compared with Later only, not with the banner.
Claim_AnyOffer ==
  /\ step = "claim"
  /\ IF /\ banner.phase \in Offering \/ (manual /\ banner.phase = "Result")
        /\ offer # 0 /\ current /\ ~HiddenByLater(later, offer)
       THEN /\ banner' = [phase |-> "Applying", code |-> offer, note |-> "none"]
            /\ taken' = offer /\ step' = "download"
            /\ UNCHANGED <<manual, why, checked, current>>
       ELSE JobEnds /\ UNCHANGED banner
  /\ UNCHANGED <<offer, later, asked, window, unwatched>>

\* RunApply takes the click under the lock that judges it. Whether the offer is
\* stale is the clock's to say.
Claim ==
  /\ step = "claim"
  /\ IF /\ banner.phase \in Offering \/ (manual /\ banner.phase = "Result")
        /\ offer # 0 /\ current /\ banner.code = offer
       THEN /\ banner' = [phase |-> "Applying", code |-> offer, note |-> "none"]
            /\ taken' = offer
            /\ \/ step' = "check" /\ why' = "click"
               \/ step' = "download" /\ UNCHANGED why
            /\ UNCHANGED <<manual, checked, current>>
       ELSE JobEnds /\ UNCHANGED banner
  /\ UNCHANGED <<offer, later, asked, window, unwatched>>

BannerHolds == banner.phase = "Applying" /\ banner.code = taken

ViaHelper == Installed /\ ~manual

\* StepAfterCheck.
StepAfterCheck(viaHelper) ==
  IF ~current \/ taken = 0 THEN "Dropped"
  ELSE IF checked /\ offer = 0 THEN "Withdrawn"
  ELSE IF checked /\ offer # taken THEN "Replaced"
  ELSE IF ~BannerHolds \/ HiddenByLater(later, taken) THEN "Dropped"
  ELSE IF ~checked /\ ~viaHelper THEN "Unconfirmed"
  ELSE "Proceed"

\* Mutant: a click that cannot be confirmed leaves its banner up.
JudgeClick_LeavesBanner ==
  /\ step = "judge"
  /\ asked' = asked \ Clicks
  /\ IF StepAfterCheck(ViaHelper) = "Proceed" THEN On("download") ELSE JobEnds
  /\ UNCHANGED <<banner, offer, later, window, unwatched>>

\* What becomes of the click after its check; one made meanwhile starts nothing.
JudgeClick ==
  /\ step = "judge"
  /\ asked' = asked \ Clicks
  /\ LET verdict == StepAfterCheck(ViaHelper) IN
     /\ IF verdict = "Proceed" THEN On("download") ELSE JobEnds
     /\ MutateFor(CASE verdict = "Unconfirmed" -> Failing("installer")
                    [] verdict = "Dropped"     -> IF BannerHolds THEN NoBanner ELSE banner
                    [] OTHER                   -> banner)
  /\ Moves
  /\ UNCHANGED <<offer, later, shown, clicked, unwatched>>

\* A step of the update that fails.
StepFails(at, notes) ==
  /\ step = at
  /\ \E n \in notes : MutateFor(Failing(n))
  /\ JobEnds
  /\ UNCHANGED <<offer, later, asked, window, unwatched>>

\* The step after it starts only if the feed is still the offer's.
StepDone(at, next, b) ==
  /\ step = at
  /\ MutateFor(b)
  /\ IF current /\ next # "idle" THEN On(next) ELSE JobEnds
  /\ UNCHANGED <<offer, later, asked, window, unwatched>>

\* The download: a GitHub hold, the folder, the transfer.
Download == StepFails("download", {"retry"}) \/ StepDone("download", "verify", banner)

\* The digest; then the user's installer, or the hand-off.
Verify ==
  \/ StepFails("verify", {"retry"})
  \/ ~ViaHelper /\ StepDone("verify", "idle", [banner EXCEPT !.phase = "ManualInstall", !.note = "none"])
  \/ ViaHelper /\ StepDone("verify", "handoff", banner)

\* LaunchUpdateHelper refused: the prompt declined, or only signed programs elevate.
HelperNotStarted == StepFails("handoff", {"retry", "installer"})

\* The helper started. Without its process there is nothing to wait on.
HelperStarted ==
  /\ step = "handoff"
  /\ \/ On("await") /\ UNCHANGED unwatched
     \/ JobEnds /\ unwatched' = TRUE
  /\ UNCHANGED <<checker, window>>

\* The report takes the banner, whatever the feed is now; its code stays.
Report(n) ==
  /\ banner' = [banner EXCEPT !.phase = "Result", !.note = n]
  /\ JobEnds

\* The helper ended while this app still runs.
HelperReturns ==
  /\ step = "await"
  /\ \/ step' = "check" /\ why' = "refused" /\ UNCHANGED <<manual, taken, checked, current, banner>>
     \/ \E n \in {"restartApp", "restartWindows", "notInstalled"} : Report(n)
  /\ UNCHANGED <<offer, later, asked, window, unwatched>>

\* After a NotOffered: another release has taken the banner, or the refusal's
\* report does.
JudgeRefused ==
  /\ step = "judgeRefused"
  /\ IF StepAfterCheck(TRUE) = "Replaced" THEN JobEnds /\ UNCHANGED banner
                                           ELSE Report("notInstalled")
  /\ UNCHANGED <<offer, later, asked, window, unwatched>>

\* RunReveal: the installer is shown again while it is still the offered
\* release's, after a check when the offer is stale.
Reveals == banner.phase = "ManualInstall" /\ current /\ offer = banner.code

Reveal ==
  /\ step = "reveal"
  /\ \/ Reveals /\ step' = "check" /\ why' = "reveal" /\ UNCHANGED <<manual, taken, checked, current>>
     \/ Reveals /\ On("hash")
     \/ ~Reveals /\ JobEnds
  /\ UNCHANGED <<checker, window, unwatched>>

RevealAgain ==
  /\ step = "revealAgain"
  /\ IF checked /\ Reveals
       THEN On("hash") /\ UNCHANGED banner
       ELSE /\ JobEnds
            /\ MutateFor(IF ~checked /\ banner.phase = "ManualInstall"
                           THEN Failing("installer") ELSE banner)
  /\ UNCHANGED <<offer, later, asked, window, unwatched>>

\* The installer's digest, compared again without the lock.
RevealHash ==
  \/ StepFails("hash", {"retry"})
  \/ StepDone("hash", "idle", banner)

---------------------------------------------------------------------------
WindowStep == Deliver \/ Click \/ CheckNow \/ Later \/ DismissResult \/ ChannelChanged

Takes == TakeApply \/ TakeReveal \/ TakeCheck

JobStep ==
  \/ WorkerBegins \/ CheckFails \/ CheckDone
  \/ Claim \/ JudgeClick \/ Download \/ Verify \/ HelperNotStarted \/ HelperStarted
  \/ HelperReturns \/ JudgeRefused
  \/ Reveal \/ RevealAgain \/ RevealHash

BannerNext == WindowStep \/ Takes \/ JobStep

BannerSpec == BannerInit /\ [][BannerNext]_bannerVars

\* A job's requests, downloads and waits end (each has its timeout, and the
\* helper's install ends), the worker takes what is asked of it, and the UI
\* thread runs what is queued to it.
BannerFairSpec ==
  /\ BannerSpec
  /\ WF_bannerVars(JobStep) /\ WF_bannerVars(TakeApply) /\ WF_bannerVars(TakeReveal)
  /\ WF_bannerVars(Deliver)

---------------------------------------------------------------------------
(* Properties.                                                             *)

\* The ranges of the variables.
BannerTypeOK ==
  /\ banner \in [phase : Offering \cup {"None", "Applying", "Result"}, code : Codes,
                 note : {"none", "retry", "installer", "installed", "restartApp",
                         "restartWindows", "notInstalled"}]
  /\ offer \in Codes /\ later \in Codes
  /\ asked \subseteq {"apply", "manual", "reveal", "check"} /\ current \in BOOLEAN
  /\ shown \in [phase : Offering \cup {"None", "Applying", "Result"}, code : Codes,
                act : {"apply", "manual", "reveal", "dismiss", "none"}]
  /\ clicked \in Codes /\ overtaken \in BOOLEAN /\ unwatched \in BOOLEAN
  /\ step \in {"start", "idle", "check", "claim", "judge", "download", "verify", "handoff",
             "await", "judgeRefused", "reveal", "revealAgain", "hash"}
  /\ manual \in BOOLEAN /\ taken \in Codes /\ checked \in BOOLEAN
  /\ why \in {"loop", "click", "refused", "reveal"}

\* A release the user chose Later on is not on the banner again in this run,
\* whatever the checks select, the updates end in, or the report's dismissal
\* offers again (UpdateChecker::Later, laterCode_), until the user asks for a
\* check.
LaterStaysHidden ==
  later # 0 /\ banner.phase \in Offering \cup {"Applying"} => banner.code # later

\* From the moment the click is taken until the helper has ended, the banner is
\* this update's and names the release being worked on: no Later, dismissal or
\* check crosses it, unless the feed itself is changed (RunApply: "nothing the
\* user does crosses it").
BannerHoldsClick ==
  step \in {"download", "verify", "handoff", "await"} /\ current => BannerHolds

\* The release an update is started for is the one on the banner the user
\* clicked, unless the banner moved to another one between the click and its
\* claim: BeginApply records no release, so RunApply can only compare the banner
\* with the offer.
ClaimIsOnClicked ==
  [][step = "claim" /\ step' \in {"check", "download"} => taken' = clicked \/ overtaken]_bannerVars

\* A banner that says an update is being worked on comes to say how it went, or
\* goes, unless the shell returned no process to wait on (RunApply's
\* `if (!helper) return`).
ClickIsAnswered == banner.phase = "Applying" ~> banner.phase # "Applying" \/ unwatched
===========================================================================
