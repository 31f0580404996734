--------------------------- MODULE UpdateInstall ---------------------------
(***************************************************************************)
(* An in-app update from the hand-off on: the elevated helper              *)
(* (ApplyUpdate.cpp) and the report it leaves, the app that waits on it    *)
(* and is closed by its installer, the marker that keeps launches away     *)
(* from the install (UpdateMarker.h), the launch that starts the app       *)
(* again, and the report's way to the user. UpdateBanner is the part       *)
(* before the hand-off.                                                    *)
(*                                                                         *)
(* A release is its code. The marker is kept as what a launch would find:  *)
(* the process it names runs ("live") or does not ("dead").                *)
(***************************************************************************)
EXTENDS Releases

CONSTANT First  \* the release the machine starts with

ASSUME ReleasesAssumption == First \in Nat \ {0} /\ MaxRelease \in Nat /\ First <= MaxRelease

VARIABLES
  app,      \* the app's process: "none", "up", or "exiting" (stop_ is set)
  own,      \* version::kCode of that process
  disk,     \* the code of the files a launch would run
  product,  \* the code of the product Windows Installer has registered
  pc,       \* where the update worker is
  click,    \* RunApply's offer
  result,   \* the banner shows the report on disk
  handle,   \* the helper the worker waits on: "none", "mine" (it runs) or "over"
  ended,    \* how that helper ended
  helper,   \* the helper that holds the machine-wide lock
  report,   \* last-result.json
  seen,     \* that report is remembered as read
  marker,   \* the update-in-progress file: "none", "live" or "dead"
  relaunch, \* the launch with --after-update: "none", "waiting" or "asking"
  history   \* what broke the chain: "unwatched", "unrecorded", "expired", "left"

worker  == <<pc, click, result, handle, ended>>
machine == <<own, disk, product>>
vars    == <<app, worker, machine, helper, report, seen, marker, relaunch, history>>

Exits     == {"NotOffered", "Refused", "Failed", "Installed", "Restart"}
Outcomes  == {"Failed", "Installed", "Restart"}
NoEnd     == [exit |-> "Refused", wrote |-> FALSE]
NoHelper  == [at |-> "none", rel |-> 0, end |-> NoEnd]
NoReport  == [rel |-> 0, exit |-> "Failed", restarted |-> FALSE]

\* OutcomeOf, as far as a report's reader tells outcomes apart.
OutcomeOf(exit) == IF exit \in {"Installed", "Restart"} THEN exit ELSE "Failed"

\* ViewOfReport is not Hidden: the report still says something to a build of
\* code `mine`. `live`: that build started the helper and waited on it.
Speaks(rel, outcome, mine, live, restarted) ==
  CASE outcome = "Installed" -> mine = rel \/ (live /\ mine < rel)
    [] outcome = "Restart"   -> mine <= rel /\ (restarted => mine = rel)
    [] OTHER                 -> mine < rel

Init ==
  /\ app = "none" /\ own = 0 /\ disk = First /\ product = First
  /\ pc = "off" /\ click = 0 /\ result = FALSE /\ handle = "none" /\ ended = NoEnd
  /\ helper = NoHelper /\ report = NoReport /\ seen = FALSE
  /\ marker = "none" /\ relaunch = "none" /\ history = {}

---------------------------------------------------------------------------
(* The update worker, and what the user does with the report.              *)

Alive == app \in {"up", "exiting"}

\* Mutant: a report that was read is shown again.
ShowLastResult_Again ==
  /\ Alive /\ pc = "start"
  /\ pc' = "idle"
  /\ result' = (report.rel # 0
                /\ Speaks(report.rel, report.exit, own, FALSE, report.restarted))
  /\ UNCHANGED <<app, click, handle, ended, machine, helper, report, seen, marker, relaunch, history>>

\* ShowLastResult, before the worker's loop.
ShowLastResult ==
  /\ Alive /\ pc = "start"
  /\ pc' = "idle"
  /\ result' = (report.rel # 0 /\ ~seen
                /\ Speaks(report.rel, report.exit, own, FALSE, report.restarted))
  /\ UNCHANGED <<app, click, handle, ended, machine, helper, report, seen, marker, relaunch, history>>

\* The report is dismissed, or an offer takes its place on the banner: it is
\* not shown again.
ReadReport ==
  /\ Alive /\ result
  /\ result' = FALSE /\ seen' = TRUE
  /\ UNCHANGED <<app, pc, click, handle, ended, machine, helper, report, marker, relaunch, history>>

\* RunApply up to its hand-off, on a release above this build. The banner that
\* offers it is not the report's.
Begin ==
  /\ app = "up" /\ pc = "idle" /\ ~result
  /\ pc' = "handoff" /\ \E r \in Codes : r > own /\ click' = r
  /\ UNCHANGED <<app, result, handle, ended, machine, helper, report, seen, marker, relaunch, history>>

\* ShowInstaller takes the report off the banner, unread.
ShowInstaller ==
  /\ app = "up" /\ pc = "idle" /\ result /\ report.exit = "Failed"
  /\ result' = FALSE
  /\ UNCHANGED <<app, pc, click, handle, ended, machine, helper, report, seen, marker, relaunch, history>>

Idle == pc' = "idle" /\ click' = 0 /\ handle' = "none" /\ ended' = NoEnd

\* LaunchUpdateHelper failed: the prompt was declined, or nothing may elevate.
HandoffRefused ==
  /\ Alive /\ pc = "handoff"
  /\ Idle
  /\ UNCHANGED <<app, result, machine, helper, report, seen, marker, relaunch, history>>

\* One helper at a time, machine-wide: one that finds the lock taken ends at
\* once (Busy) and writes nothing.
TakeHelperLock ==
  helper' = IF helper.at = "none" THEN [NoHelper EXCEPT !.at = "judging", !.rel = click] ELSE helper

\* The helper starts. One whose process was not returned is not waited on.
Handoff ==
  /\ Alive /\ pc = "handoff"
  /\ TakeHelperLock
  /\ \/ /\ pc' = "await" /\ handle' = (IF helper.at = "none" THEN "mine" ELSE "over")
        /\ UNCHANGED <<click, ended, history>>
     \/ Idle /\ history' = history \cup {"unwatched", "unrecorded"}
  /\ UNCHANGED <<app, result, machine, report, seen, marker, relaunch>>

\* AwaitHelper, the helper's end first: its report is on the banner, or after a
\* NotOffered another release is, and the report is read.
HelperOver ==
  /\ Alive /\ pc = "await" /\ handle = "over"
  /\ Idle
  /\ \/ /\ result' = (ended.wrote /\ Speaks(click, OutcomeOf(ended.exit), own, TRUE, FALSE))
        /\ UNCHANGED seen
     \/ /\ ended.exit = "NotOffered"
        /\ seen' = (seen \/ ended.wrote) /\ UNCHANGED result
  /\ UNCHANGED <<app, machine, helper, report, marker, relaunch, history>>

\* Mutant: the app exits without recording its helper.
RecordUpdate_Not ==
  /\ app = "exiting" /\ pc = "await" /\ handle = "mine"
  /\ Idle
  /\ UNCHANGED <<app, result, machine, helper, report, seen, marker, relaunch, history>>

\* AwaitHelper, the app's exit first: RecordUpdateInProgress, whose write may fail.
RecordUpdate ==
  /\ app = "exiting" /\ pc = "await" /\ handle = "mine"
  /\ Idle
  /\ \/ marker' = "live" /\ UNCHANGED history
     \/ history' = history \cup {"unrecorded"} /\ UNCHANGED marker
  /\ UNCHANGED <<app, result, machine, helper, report, seen, relaunch>>

WorkerStops ==
  /\ app = "exiting" /\ pc = "idle"
  /\ pc' = "off"
  /\ UNCHANGED <<app, click, result, handle, ended, machine, helper, report, seen, marker, relaunch,
                 history>>

---------------------------------------------------------------------------
(* The app's process, launches, and Windows.                               *)

\* Quit, or the installer's CloseApplication: Shutdown sets stop_ and joins
\* the worker.
AppStops ==
  /\ app = "up"
  /\ app' = "exiting"
  /\ UNCHANGED <<worker, machine, helper, report, seen, marker, relaunch, history>>

\* What the process held goes with it.
Forget ==
  /\ app' = "none" /\ own' = 0
  /\ pc' = "off" /\ click' = 0 /\ result' = FALSE /\ handle' = "none" /\ ended' = NoEnd

AppEnds ==
  /\ app = "exiting" /\ pc = "off"
  /\ Forget
  /\ history' = history \ {"unwatched"}
  /\ UNCHANGED <<disk, product, helper, report, seen, marker, relaunch>>

\* A crash, or the Restart Manager ending an app that did not close in time.
AppCrashes ==
  /\ Alive
  /\ Forget
  /\ history' = (history \ {"unwatched"}) \cup {"left"}
                \cup (IF helper.at # "none" /\ marker # "live" THEN {"unrecorded"} ELSE {})
  /\ UNCHANGED <<disk, product, helper, report, seen, marker, relaunch>>

\* UpdateInProgress: a launch is refused while the marker names a running
\* helper and is not too old; any other marker is deleted.
Starts(expired) ==
  /\ app = "none" /\ (marker = "live" => expired)
  /\ app' = "up" /\ own' = disk /\ pc' = "start" /\ marker' = "none"
  /\ history' = (history \ {"left"}) \cup (IF marker = "live" THEN {"expired"} ELSE {})
  /\ UNCHANGED <<click, result, handle, ended, disk, product, helper, report, seen>>

\* A launch by the user.
Launches == \E expired \in BOOLEAN : Starts(expired) /\ UNCHANGED relaunch

\* AwaitUpdateEnd: the relaunch waits while the marker names a running helper,
\* at most kAfterUpdateBudget.
RelaunchWaits ==
  /\ relaunch = "waiting"
  /\ relaunch' = "asking"
  /\ marker' = IF marker = "dead" THEN "none" ELSE marker
  /\ UNCHANGED <<app, worker, machine, helper, report, seen, history>>

\* It then asks as any launch: it starts the app ...
RelaunchStarts == relaunch = "asking" /\ Starts(FALSE) /\ relaunch' = "none"

\* ... or the app that is up takes it; or it is refused, by the marker or by an
\* app that does not end in time.
RelaunchEnds ==
  /\ relaunch = "asking" /\ relaunch' = "none"
  /\ \/ app = "up" /\ UNCHANGED history
     \/ (app = "exiting" \/ marker = "live") /\ history' = history \cup {"left"}
  /\ UNCHANGED <<app, worker, machine, helper, report, seen, marker>>

\* Every process ends, and the files a 3010 held back are replaced.
Reboots ==
  /\ Forget
  /\ helper' = NoHelper /\ relaunch' = "none"
  /\ disk' = product /\ report' = [report EXCEPT !.restarted = TRUE]
  /\ marker' = IF marker = "live" THEN "dead" ELSE marker
  /\ history' = {"left"}
  /\ UNCHANGED <<product, seen>>

---------------------------------------------------------------------------
(* The helper: ApplyUpdate.                                                *)

\* Refused before msiexec: by its own release list, or for another reason.
HelperRefuses ==
  /\ helper.at = "judging"
  /\ \E x \in {"NotOffered", "Refused"} :
       helper' = [helper EXCEPT !.at = "reporting", !.end.exit = x]
  /\ UNCHANGED <<app, worker, machine, report, seen, marker, relaunch, history>>

\* Its own list offers the release above its own build: msiexec runs.
HelperInstalls ==
  /\ helper.at = "judging" /\ helper.rel > disk
  /\ helper' = [helper EXCEPT !.at = "installing"]
  /\ UNCHANGED <<app, worker, machine, report, seen, marker, relaunch, history>>

\* The relaunch through the user's shell, which may not start.
StartRelaunch ==
  \/ relaunch' = "waiting" /\ UNCHANGED history
  \/ history' = history \cup {"left"} /\ UNCHANGED relaunch

\* msiexec installs, up to a restart at worst, and its RelaunchAfterUpdate
\* starts the app again.
InstallTakes ==
  /\ helper.at = "installing"
  /\ \E x \in {"Installed", "Restart"} :
       /\ helper' = [helper EXCEPT !.at = "reporting", !.end.exit = x]
       /\ disk' = IF x = "Installed" THEN helper.rel ELSE disk
  /\ product' = helper.rel
  /\ StartRelaunch
  /\ UNCHANGED <<app, worker, own, report, seen, marker>>

InstallFails ==
  /\ helper.at = "installing"
  /\ helper' = [helper EXCEPT !.at = "reporting", !.end.exit = "Failed"]
  /\ UNCHANGED <<app, worker, machine, report, seen, marker, relaunch, history>>

\* finish: last-result.json is replaced whole or not at all. The earliest
\* refusals write none.
HelperReports ==
  /\ helper.at = "reporting"
  /\ \E wrote \in BOOLEAN :
       /\ helper' = [helper EXCEPT !.at = IF helper.end.exit = "Failed" THEN "relaunching" ELSE "leaving",
                                   !.end.wrote = wrote]
       /\ IF wrote
            THEN /\ report' = [rel |-> helper.rel, exit |-> OutcomeOf(helper.end.exit),
                               restarted |-> FALSE]
                 /\ seen' = FALSE /\ result' = FALSE
            ELSE UNCHANGED <<report, seen, result>>
  /\ UNCHANGED <<app, pc, click, handle, ended, machine, marker, relaunch, history>>

\* Mutant: nothing starts the app after an install that failed.
HelperRelaunches_Not ==
  /\ helper.at = "relaunching"
  /\ helper' = [helper EXCEPT !.at = "leaving"]
  /\ UNCHANGED <<app, worker, machine, report, seen, marker, relaunch, history>>

\* After an install that failed, the helper starts the relaunch itself.
HelperRelaunches ==
  /\ helper.at = "relaunching"
  /\ helper' = [helper EXCEPT !.at = "leaving"]
  /\ StartRelaunch
  /\ UNCHANGED <<app, worker, machine, report, seen, marker>>

HelperEnds ==
  /\ helper.at = "leaving"
  /\ helper' = NoHelper
  /\ IF handle = "mine" THEN handle' = "over" /\ ended' = helper.end ELSE UNCHANGED <<handle, ended>>
  /\ marker' = IF marker = "live" THEN "dead" ELSE marker
  /\ history' = history \ {"unrecorded", "expired"}
  /\ UNCHANGED <<app, pc, click, result, machine, report, seen, relaunch>>

---------------------------------------------------------------------------
WorkerStep ==
  ShowLastResult \/ HandoffRefused \/ Handoff \/ HelperOver \/ RecordUpdate \/ WorkerStops

UserStep == ReadReport \/ Begin \/ ShowInstaller \/ AppStops \/ AppCrashes \/ Launches \/ Reboots

RelaunchStep == RelaunchWaits \/ RelaunchStarts \/ RelaunchEnds

HelperStep ==
  \/ HelperRefuses \/ HelperInstalls \/ InstallTakes \/ InstallFails
  \/ HelperReports \/ HelperRelaunches \/ HelperEnds

Next == WorkerStep \/ UserStep \/ RelaunchStep \/ HelperStep \/ AppEnds

Spec == Init /\ [][Next]_vars

\* The worker's thread runs and the prompt it raises times out, an app told to
\* exit ends, msiexec and the helper end, and the relaunch's process runs.
\* Nobody need launch, quit, or answer anything.
FairSpec ==
  /\ Spec
  /\ WF_vars(WorkerStep) /\ WF_vars(AppEnds) /\ WF_vars(HelperStep) /\ WF_vars(RelaunchStep)

---------------------------------------------------------------------------
(* Properties.                                                             *)

\* The ranges of the variables.
TypeOK ==
  /\ app \in {"none", "up", "exiting"}
  /\ own \in Codes /\ disk \in Codes /\ product \in Codes
  /\ pc \in {"off", "start", "idle", "handoff", "await"} /\ click \in Codes
  /\ result \in BOOLEAN /\ handle \in {"none", "mine", "over"}
  /\ ended \in [exit : Exits, wrote : BOOLEAN]
  /\ helper \in [at : {"none", "judging", "installing", "reporting", "relaunching", "leaving"},
                 rel : Codes, end : [exit : Exits, wrote : BOOLEAN]]
  /\ report \in [rel : Codes, exit : Outcomes, restarted : BOOLEAN] /\ seen \in BOOLEAN
  /\ marker \in {"none", "live", "dead"} /\ relaunch \in {"none", "waiting", "asking"}
  /\ history \subseteq {"unwatched", "unrecorded", "expired", "left"}

\* No launch, the user's or the relaunch, starts the app while an update helper
\* runs, over the files its installer is replacing (UpdateMarker.h: "While that
\* process runs, the launch exits"). What the marker cannot cover is named: it
\* was not written (the write failed, the app crashed or was ended by the
\* Restart Manager, the shell returned no process), or it outlived its lifetime.
NoStartUnderHelper ==
  [][app = "none" /\ app' = "up" =>
       helper.at = "none" \/ history' \cap {"unrecorded", "expired"} # {}]_vars

\* The report the banner shows is unread and still says something of the build
\* that shows it, across restarts of the app and of Windows, updates that end
\* in another release, and reports replaced while one is shown (ViewOfReport).
ReportIsCurrent ==
  result => ~seen /\ Speaks(report.rel, report.exit, own, TRUE, report.restarted)

\* An app the installer closed comes back, whether the install takes or fails,
\* unless the launch that brings it back could not start, or found the marker
\* or an exiting app in its way until its budget ran out.
AppComesBack ==
  helper.at = "installing" /\ app # "up" ~> app = "up" \/ "left" \in history
============================================================================
