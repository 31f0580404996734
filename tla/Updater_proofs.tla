--------------------------- MODULE Updater_proofs ---------------------------
(***************************************************************************)
(* The safety of the in-app update, for any releases: of what outlives the  *)
(* app (UpdateInstall), and, in the second part, of the banner in one run   *)
(* of it (UpdateBanner).                                                    *)
(***************************************************************************)
EXTENDS UpdateInstall, UpdateBanner, TLAPS

\* A process that is not there holds nothing, a worker that does not wait has
\* no helper's handle, and one that has not begun shows nothing.
PlaceInv ==
  /\ app = "none" => pc = "off" /\ ~result
  /\ handle # "none" => pc = "await"
  /\ pc = "start" => ~result

\* A running helper is waited on by the app, which will record it on its way
\* out, or is on record, or its record is one of the named ways lost.
CoverInv ==
  helper.at # "none" =>
    handle = "mine" \/ marker = "live" \/ history \cap {"unrecorded", "expired"} # {}

\* The helper the worker waits on is the one it started for the click. Once it
\* has written its report, and until the worker takes its end, the report on
\* disk is that one, unread, and the banner does not show another.
WrittenInv ==
  /\ helper.end.wrote => helper.at \in {"relaunching", "leaving"}
  /\ handle # "over" => ~ended.wrote
  /\ handle = "over" /\ ended.wrote =>
       /\ helper.at = "none" /\ ~seen /\ ~result
       /\ report.rel = click /\ report.exit = OutcomeOf(ended.exit) /\ ~report.restarted
  /\ handle = "mine" =>
       /\ helper.at # "none" /\ helper.rel = click
       /\ helper.end.wrote =>
            /\ ~seen /\ ~result /\ report.rel = click
            /\ report.exit = OutcomeOf(helper.end.exit) /\ ~report.restarted

IInv == TypeOK /\ PlaceInv /\ CoverInv /\ WrittenInv /\ ReportIsCurrent

\* The ranges of the records.
Ends == [exit : Exits, wrote : BOOLEAN]
Helpers == [at : {"none", "judging", "installing", "reporting", "relaunching", "leaving"},
            rel : Codes, end : Ends]
Reports == [rel : Codes, exit : Outcomes, restarted : BOOLEAN]

\* The values an action gives a variable are in the variables' ranges.
LEMMA Values ==
  /\ 0 \in Codes /\ First \in Codes
  /\ Exits = {"NotOffered", "Refused", "Failed", "Installed", "Restart"}
  /\ NoEnd \in Ends /\ NoHelper \in Helpers /\ NoReport \in Reports
BY ReleasesAssumption DEF Ends, Helpers, Reports, Codes, Exits, Outcomes, NoEnd, NoHelper, NoReport

\* The outcome of an exit is one a report has.
LEMMA OutcomeType == \A x \in Exits : OutcomeOf(x) \in Outcomes
BY DEF OutcomeOf, Exits, Outcomes

\* A helper that moves on is still a helper.
LEMMA HelperMoves ==
  ASSUME TypeOK,
         NEW a \in {"none", "judging", "installing", "reporting", "relaunching", "leaving"}
  PROVE  /\ [helper EXCEPT !.at = a] \in Helpers
         /\ \A x \in Exits : [helper EXCEPT !.at = a, !.end.exit = x] \in Helpers
         /\ \A w \in BOOLEAN : [helper EXCEPT !.at = a, !.end.wrote = w] \in Helpers
         /\ [NoHelper EXCEPT !.at = a, !.rel = click] \in Helpers
BY DEF TypeOK, Helpers, Ends, NoHelper, NoEnd, Exits

\* The invariant holds at the start.
LEMMA InitIInv == Init => IInv
<1> SUFFICES ASSUME Init PROVE IInv
  OBVIOUS
<1>1. TypeOK
  BY Values DEF Init, TypeOK, Ends, Helpers, Reports
<1>2. PlaceInv /\ CoverInv /\ WrittenInv /\ ReportIsCurrent
  BY DEF Init, PlaceInv, CoverInv, WrittenInv, ReportIsCurrent, NoEnd, NoHelper
<1> QED
  BY <1>1, <1>2 DEF IInv

\* A step of the update worker keeps the invariant.
LEMMA WorkerKeeps == ASSUME IInv, WorkerStep PROVE IInv'
<1>1. CASE ShowLastResult
  <2>1. TypeOK'
    BY <1>1, Values DEF IInv, TypeOK, Ends, Helpers, Reports, ShowLastResult, worker, machine
  <2>2. PlaceInv'
    BY <1>1 DEF IInv, TypeOK, PlaceInv, Alive, ShowLastResult, worker, machine
  <2>3. WrittenInv'
    BY <1>1 DEF IInv, TypeOK, PlaceInv, WrittenInv, NoEnd, NoHelper, ShowLastResult, worker, machine
  <2>4. ReportIsCurrent'
    BY <1>1 DEF IInv, TypeOK, PlaceInv, WrittenInv, ReportIsCurrent, Speaks, ShowLastResult,
        worker, machine
  <2>5. CoverInv'
    BY <1>1 DEF IInv, CoverInv, ShowLastResult, worker, machine
  <2> QED
    BY <2>1, <2>2, <2>3, <2>4, <2>5 DEF IInv
<1>2. CASE HandoffRefused
  <2>1. TypeOK'
    BY <1>2, Values DEF IInv, TypeOK, Ends, Helpers, Reports, HandoffRefused, Idle, worker, machine
  <2>2. PlaceInv'
    BY <1>2 DEF IInv, TypeOK, PlaceInv, Alive, HandoffRefused, Idle, worker, machine
  <2>3. CoverInv'
    BY <1>2 DEF IInv, TypeOK, PlaceInv, CoverInv, NoHelper, HandoffRefused, Idle, worker, machine
  <2>4. WrittenInv'
    BY <1>2 DEF IInv, TypeOK, PlaceInv, WrittenInv, NoEnd, NoHelper, HandoffRefused, Idle,
        worker, machine
  <2>5. ReportIsCurrent'
    BY <1>2 DEF IInv, ReportIsCurrent, Speaks, HandoffRefused, Idle, worker, machine
  <2> QED
    BY <2>1, <2>2, <2>3, <2>4, <2>5 DEF IInv
<1>3. CASE Handoff
  <2>1. TypeOK'
    <3>1. [NoHelper EXCEPT !.at = "judging", !.rel = click] \in Helpers
      BY HelperMoves DEF IInv
    <3>2. helper \in Helpers
      BY DEF IInv, TypeOK, Helpers, Ends
    <3>3. helper' \in Helpers
      BY <1>3, <3>1, <3>2 DEF Handoff, TakeHelperLock
    <3> QED
      BY <1>3, <3>3, Values DEF IInv, TypeOK, Helpers, Ends, Handoff, Idle, machine
  <2>2. PlaceInv'
    BY <1>3 DEF IInv, TypeOK, PlaceInv, Alive, Handoff, TakeHelperLock, Idle, worker, machine
  <2>3. CoverInv'
    BY <1>3 DEF IInv, TypeOK, PlaceInv, CoverInv, NoHelper, Handoff, TakeHelperLock, Idle,
        worker, machine
  <2>4. WrittenInv'
    BY <1>3 DEF IInv, TypeOK, PlaceInv, WrittenInv, NoEnd, NoHelper, Handoff,
        TakeHelperLock, Idle, worker, machine
  <2>5. ReportIsCurrent'
    BY <1>3 DEF IInv, ReportIsCurrent, Speaks, Handoff, TakeHelperLock, Idle, worker, machine
  <2> QED
    BY <2>1, <2>2, <2>3, <2>4, <2>5 DEF IInv
<1>4. CASE HelperOver
  <2>1. TypeOK'
    <3>1. pc' = "idle" /\ click' = 0 /\ handle' = "none" /\ ended' = NoEnd
      BY <1>4 DEF HelperOver, Idle
    <3>2. result' \in BOOLEAN /\ seen' \in BOOLEAN
      BY <1>4 DEF HelperOver, IInv, TypeOK
    <3>3. UNCHANGED <<app, machine, helper, report, marker, relaunch, history>>
      BY <1>4 DEF HelperOver
    <3> QED
      BY <3>1, <3>2, <3>3, Values DEF IInv, TypeOK, Ends, machine
  <2>2. PlaceInv'
    BY <1>4 DEF IInv, TypeOK, PlaceInv, Alive, HelperOver, Idle, worker, machine
  <2>3. CoverInv'
    BY <1>4 DEF IInv, TypeOK, PlaceInv, CoverInv, NoHelper, HelperOver, Idle, worker, machine
  <2>4. WrittenInv'
    BY <1>4 DEF IInv, TypeOK, PlaceInv, WrittenInv, NoEnd, NoHelper, HelperOver, Idle,
        worker, machine
  <2>5. ReportIsCurrent'
    BY <1>4 DEF IInv, TypeOK, PlaceInv, WrittenInv, ReportIsCurrent, Speaks, HelperOver,
        Idle, worker, machine
  <2> QED
    BY <2>1, <2>2, <2>3, <2>4, <2>5 DEF IInv
<1>5. CASE RecordUpdate
  <2>1. TypeOK'
    BY <1>5, Values DEF IInv, TypeOK, Ends, Helpers, Reports, RecordUpdate, Idle, worker, machine
  <2>2. PlaceInv'
    BY <1>5 DEF IInv, TypeOK, PlaceInv, Alive, RecordUpdate, Idle, worker, machine
  <2>3. CoverInv'
    BY <1>5 DEF IInv, TypeOK, PlaceInv, CoverInv, NoHelper, RecordUpdate, Idle, worker, machine
  <2>4. WrittenInv'
    BY <1>5 DEF IInv, TypeOK, PlaceInv, WrittenInv, NoEnd, NoHelper, RecordUpdate, Idle,
        worker, machine
  <2>5. ReportIsCurrent'
    BY <1>5 DEF IInv, ReportIsCurrent, Speaks, RecordUpdate, Idle, worker, machine
  <2> QED
    BY <2>1, <2>2, <2>3, <2>4, <2>5 DEF IInv
<1>6. CASE WorkerStops
  <2>1. TypeOK'
    BY <1>6, Values DEF IInv, TypeOK, Ends, Helpers, Reports, WorkerStops, worker, machine
  <2>2. PlaceInv'
    BY <1>6 DEF IInv, TypeOK, PlaceInv, Alive, WorkerStops, worker, machine
  <2>3. CoverInv' /\ WrittenInv' /\ ReportIsCurrent'
    BY <1>6 DEF IInv, CoverInv, WrittenInv, ReportIsCurrent, Speaks, WorkerStops, worker, machine
  <2> QED
    BY <2>1, <2>2, <2>3 DEF IInv
<1> QED
  BY <1>1, <1>2, <1>3, <1>4, <1>5, <1>6 DEF WorkerStep

\* What the user, a crash or a restart of Windows does keeps the invariant.
LEMMA UserKeeps == ASSUME IInv, UserStep PROVE IInv'
<1>1. CASE ReadReport
  <2>1. TypeOK'
    <3>1. result' \in BOOLEAN /\ seen' \in BOOLEAN
      BY <1>1 DEF ReadReport
    <3>2. UNCHANGED <<app, pc, click, handle, ended, machine, helper, report, marker, relaunch, history>>
      BY <1>1 DEF ReadReport
    <3> QED
      BY <3>1, <3>2 DEF IInv, TypeOK, machine
  <2>2. PlaceInv'
    BY <1>1 DEF IInv, TypeOK, PlaceInv, Alive, ReadReport, worker, machine
  <2>3. WrittenInv'
    BY <1>1 DEF IInv, TypeOK, PlaceInv, WrittenInv, NoEnd, NoHelper, ReadReport, worker, machine
  <2>4. ReportIsCurrent'
    BY <1>1 DEF IInv, TypeOK, PlaceInv, WrittenInv, ReportIsCurrent, Speaks, ReadReport,
        worker, machine
  <2>5. CoverInv'
    BY <1>1 DEF IInv, CoverInv, ReadReport, worker, machine
  <2> QED
    BY <2>1, <2>2, <2>3, <2>4, <2>5 DEF IInv
<1>2. CASE Begin
  <2>1. TypeOK'
    BY <1>2, Values DEF IInv, TypeOK, Ends, Helpers, Reports, Begin, worker, machine
  <2>2. PlaceInv'
    BY <1>2 DEF IInv, TypeOK, PlaceInv, Alive, Begin, worker, machine
  <2>3. WrittenInv'
    BY <1>2 DEF IInv, TypeOK, PlaceInv, WrittenInv, NoEnd, NoHelper, Begin, worker, machine
  <2>4. CoverInv' /\ ReportIsCurrent'
    BY <1>2 DEF IInv, CoverInv, ReportIsCurrent, Speaks, Begin, worker, machine
  <2> QED
    BY <2>1, <2>2, <2>3, <2>4 DEF IInv
<1>3. CASE ShowInstaller
  <2>1. TypeOK'
    BY <1>3, Values DEF IInv, TypeOK, Ends, Helpers, Reports, ShowInstaller, worker, machine
  <2>2. PlaceInv'
    BY <1>3 DEF IInv, TypeOK, PlaceInv, Alive, ShowInstaller, worker, machine
  <2>3. WrittenInv'
    BY <1>3 DEF IInv, TypeOK, PlaceInv, WrittenInv, NoEnd, NoHelper, ShowInstaller, worker, machine
  <2>4. ReportIsCurrent'
    BY <1>3 DEF IInv, TypeOK, PlaceInv, WrittenInv, ReportIsCurrent, Speaks, ShowInstaller,
        worker, machine
  <2>5. CoverInv'
    BY <1>3 DEF IInv, CoverInv, ShowInstaller, worker, machine
  <2> QED
    BY <2>1, <2>2, <2>3, <2>4, <2>5 DEF IInv
<1>4. CASE AppStops
  <2>1. TypeOK'
    BY <1>4, Values DEF IInv, TypeOK, Ends, Helpers, Reports, AppStops, worker, machine
  <2>2. PlaceInv'
    BY <1>4 DEF IInv, TypeOK, PlaceInv, Alive, AppStops, worker, machine
  <2>3. CoverInv' /\ WrittenInv' /\ ReportIsCurrent'
    BY <1>4 DEF IInv, CoverInv, WrittenInv, ReportIsCurrent, Speaks, AppStops, worker, machine
  <2> QED
    BY <2>1, <2>2, <2>3 DEF IInv
<1>5. CASE AppCrashes
  <2>1. TypeOK'
    BY <1>5, Values DEF IInv, TypeOK, Ends, Helpers, Reports, AppCrashes, Forget, worker, machine
  <2>2. PlaceInv'
    BY <1>5 DEF IInv, TypeOK, PlaceInv, Alive, AppCrashes, Forget, worker, machine
  <2>3. CoverInv'
    BY <1>5 DEF IInv, TypeOK, PlaceInv, CoverInv, NoHelper, AppCrashes, Forget, worker, machine
  <2>4. WrittenInv'
    BY <1>5 DEF IInv, TypeOK, PlaceInv, WrittenInv, NoEnd, NoHelper, AppCrashes, Forget,
        worker, machine
  <2>5. ReportIsCurrent'
    BY <1>5 DEF IInv, TypeOK, PlaceInv, WrittenInv, ReportIsCurrent, Speaks, AppCrashes,
        Forget, worker, machine
  <2> QED
    BY <2>1, <2>2, <2>3, <2>4, <2>5 DEF IInv
<1>6. CASE Launches
  <2>1. TypeOK'
    BY <1>6, Values DEF IInv, TypeOK, Ends, Helpers, Reports, Launches, Starts, worker, machine
  <2>2. PlaceInv'
    BY <1>6 DEF IInv, TypeOK, PlaceInv, Alive, Launches, Starts, worker, machine
  <2>3. CoverInv'
    BY <1>6 DEF IInv, TypeOK, PlaceInv, CoverInv, NoHelper, Launches, Starts, worker, machine
  <2>4. ReportIsCurrent'
    BY <1>6 DEF IInv, TypeOK, PlaceInv, WrittenInv, ReportIsCurrent, Speaks, Launches,
        Starts, worker, machine
  <2>5. WrittenInv'
    BY <1>6 DEF IInv, WrittenInv, Launches, Starts, worker, machine
  <2> QED
    BY <2>1, <2>2, <2>3, <2>4, <2>5 DEF IInv
<1>7. CASE Reboots
  <2>1. TypeOK'
    BY <1>7, Values DEF IInv, TypeOK, Ends, Helpers, Reports, Reboots, Forget, worker, machine
  <2>2. PlaceInv'
    BY <1>7 DEF IInv, TypeOK, PlaceInv, Alive, Reboots, Forget, worker, machine
  <2>3. CoverInv'
    BY <1>7 DEF IInv, TypeOK, PlaceInv, CoverInv, NoHelper, Reboots, Forget, worker, machine
  <2>4. WrittenInv'
    BY <1>7 DEF IInv, TypeOK, PlaceInv, WrittenInv, NoEnd, NoHelper, Reboots, Forget,
        worker, machine
  <2>5. ReportIsCurrent'
    BY <1>7 DEF IInv, TypeOK, PlaceInv, WrittenInv, ReportIsCurrent, Speaks, Reboots,
        Forget, worker, machine
  <2> QED
    BY <2>1, <2>2, <2>3, <2>4, <2>5 DEF IInv
<1> QED
  BY <1>1, <1>2, <1>3, <1>4, <1>5, <1>6, <1>7 DEF UserStep

\* A step of the relaunch keeps the invariant.
LEMMA RelaunchKeeps == ASSUME IInv, RelaunchStep PROVE IInv'
<1>1. CASE RelaunchWaits
  <2>1. TypeOK'
    BY <1>1, Values DEF IInv, TypeOK, Ends, Helpers, Reports, RelaunchWaits, worker, machine
  <2>2. CoverInv'
    BY <1>1 DEF IInv, TypeOK, PlaceInv, CoverInv, NoHelper, RelaunchWaits, worker, machine
  <2>3. PlaceInv' /\ WrittenInv' /\ ReportIsCurrent'
    BY <1>1 DEF IInv, PlaceInv, WrittenInv, ReportIsCurrent, Speaks, RelaunchWaits, worker, machine
  <2> QED
    BY <2>1, <2>2, <2>3 DEF IInv
<1>2. CASE RelaunchStarts
  <2>1. TypeOK'
    BY <1>2, Values DEF IInv, TypeOK, Ends, Helpers, Reports, RelaunchStarts, Starts,
        worker, machine
  <2>2. PlaceInv'
    BY <1>2 DEF IInv, TypeOK, PlaceInv, Alive, RelaunchStarts, Starts, worker, machine
  <2>3. CoverInv'
    BY <1>2 DEF IInv, TypeOK, PlaceInv, CoverInv, NoHelper, RelaunchStarts, Starts, worker, machine
  <2>4. ReportIsCurrent'
    BY <1>2 DEF IInv, TypeOK, PlaceInv, WrittenInv, ReportIsCurrent, Speaks, RelaunchStarts,
        Starts, worker, machine
  <2>5. WrittenInv'
    BY <1>2 DEF IInv, WrittenInv, RelaunchStarts, Starts, worker, machine
  <2> QED
    BY <2>1, <2>2, <2>3, <2>4, <2>5 DEF IInv
<1>3. CASE RelaunchEnds
  <2>1. TypeOK'
    <3>1. relaunch' = "none" /\ history' \subseteq {"unwatched", "unrecorded", "expired", "left"}
      BY <1>3 DEF RelaunchEnds, IInv, TypeOK
    <3>2. UNCHANGED <<app, worker, machine, helper, report, seen, marker>>
      BY <1>3 DEF RelaunchEnds
    <3> QED
      BY <3>1, <3>2 DEF IInv, TypeOK, worker, machine
  <2>2. CoverInv'
    BY <1>3 DEF IInv, TypeOK, PlaceInv, CoverInv, NoHelper, RelaunchEnds, worker, machine
  <2>3. PlaceInv' /\ WrittenInv' /\ ReportIsCurrent'
    BY <1>3 DEF IInv, PlaceInv, WrittenInv, ReportIsCurrent, Speaks, RelaunchEnds, worker, machine
  <2> QED
    BY <2>1, <2>2, <2>3 DEF IInv
<1> QED
  BY <1>1, <1>2, <1>3 DEF RelaunchStep

\* A step of the helper keeps the invariant.
LEMMA HelperKeeps == ASSUME IInv, HelperStep PROVE IInv'
<1>1. CASE HelperRefuses
  <2>1. TypeOK'
    <3>1. helper' \in Helpers
      BY <1>1, HelperMoves, Values DEF IInv, HelperRefuses
    <3> QED
      BY <1>1, <3>1, Values DEF IInv, TypeOK, Helpers, Ends, HelperRefuses, worker, machine
  <2>2. CoverInv'
    BY <1>1 DEF IInv, TypeOK, PlaceInv, CoverInv, NoHelper, HelperRefuses, worker, machine
  <2>3. WrittenInv'
    BY <1>1 DEF IInv, TypeOK, PlaceInv, WrittenInv, NoEnd, NoHelper, HelperRefuses, worker, machine
  <2>4. PlaceInv' /\ ReportIsCurrent'
    BY <1>1 DEF IInv, PlaceInv, ReportIsCurrent, Speaks, HelperRefuses, worker, machine
  <2> QED
    BY <2>1, <2>2, <2>3, <2>4 DEF IInv
<1>2. CASE HelperInstalls
  <2>1. TypeOK'
    <3>1. helper' \in Helpers
      BY <1>2, HelperMoves, Values DEF IInv, HelperInstalls
    <3> QED
      BY <1>2, <3>1, Values DEF IInv, TypeOK, Helpers, Ends, HelperInstalls, worker, machine
  <2>2. CoverInv'
    BY <1>2 DEF IInv, TypeOK, PlaceInv, CoverInv, NoHelper, HelperInstalls, worker, machine
  <2>3. WrittenInv'
    BY <1>2 DEF IInv, TypeOK, PlaceInv, WrittenInv, NoEnd, NoHelper, HelperInstalls, worker, machine
  <2>4. PlaceInv' /\ ReportIsCurrent'
    BY <1>2 DEF IInv, PlaceInv, ReportIsCurrent, Speaks, HelperInstalls, worker, machine
  <2> QED
    BY <2>1, <2>2, <2>3, <2>4 DEF IInv
<1>3. CASE InstallTakes
  <2>1. TypeOK'
    <3>1. helper' \in Helpers
      BY <1>3, HelperMoves, Values DEF IInv, InstallTakes
    <3> QED
      BY <1>3, <3>1, Values DEF IInv, TypeOK, Helpers, Ends, InstallTakes, StartRelaunch,
          worker, machine
  <2>2. CoverInv'
    BY <1>3 DEF IInv, TypeOK, PlaceInv, CoverInv, NoHelper, InstallTakes, StartRelaunch,
        worker, machine
  <2>3. WrittenInv'
    BY <1>3 DEF IInv, TypeOK, PlaceInv, WrittenInv, NoEnd, NoHelper, InstallTakes,
        StartRelaunch, worker, machine
  <2>4. PlaceInv' /\ ReportIsCurrent'
    BY <1>3 DEF IInv, PlaceInv, ReportIsCurrent, Speaks, InstallTakes, StartRelaunch,
        worker, machine
  <2> QED
    BY <2>1, <2>2, <2>3, <2>4 DEF IInv
<1>4. CASE InstallFails
  <2>1. TypeOK'
    <3>1. helper' \in Helpers
      BY <1>4, HelperMoves, Values DEF IInv, InstallFails
    <3> QED
      BY <1>4, <3>1, Values DEF IInv, TypeOK, Helpers, Ends, InstallFails, worker, machine
  <2>2. CoverInv'
    BY <1>4 DEF IInv, TypeOK, PlaceInv, CoverInv, NoHelper, InstallFails, worker, machine
  <2>3. WrittenInv'
    BY <1>4 DEF IInv, TypeOK, PlaceInv, WrittenInv, NoEnd, NoHelper, InstallFails, worker, machine
  <2>4. PlaceInv' /\ ReportIsCurrent'
    BY <1>4 DEF IInv, PlaceInv, ReportIsCurrent, Speaks, InstallFails, worker, machine
  <2> QED
    BY <2>1, <2>2, <2>3, <2>4 DEF IInv
<1>5. CASE HelperReports
  <2>1. TypeOK'
    <3>1. helper.end.exit \in Exits /\ helper.rel \in Codes
      BY DEF IInv, TypeOK
    <3>2. [rel |-> helper.rel, exit |-> OutcomeOf(helper.end.exit), restarted |-> FALSE] \in Reports
      BY <3>1, OutcomeType DEF Reports
    <3>3. report' \in Reports /\ result' \in BOOLEAN /\ seen' \in BOOLEAN
      BY <1>5, <3>2 DEF IInv, TypeOK, Reports, HelperReports
    <3>4. helper' \in Helpers
      BY <1>5, HelperMoves DEF IInv, HelperReports
    <3>5. UNCHANGED <<app, pc, click, handle, ended, machine, marker, relaunch, history>>
      BY <1>5 DEF HelperReports
    <3> QED
      BY <3>3, <3>4, <3>5 DEF IInv, TypeOK, Helpers, Ends, Reports, machine
  <2>2. PlaceInv'
    BY <1>5 DEF IInv, TypeOK, PlaceInv, Alive, HelperReports, worker, machine
  <2>3. CoverInv'
    BY <1>5 DEF IInv, TypeOK, PlaceInv, CoverInv, NoHelper, HelperReports, worker, machine
  <2>4. WrittenInv'
    BY <1>5 DEF IInv, TypeOK, PlaceInv, WrittenInv, NoEnd, NoHelper, HelperReports, worker, machine
  <2>5. ReportIsCurrent'
    BY <1>5 DEF IInv, TypeOK, PlaceInv, WrittenInv, ReportIsCurrent, Speaks, HelperReports,
        worker, machine
  <2> QED
    BY <2>1, <2>2, <2>3, <2>4, <2>5 DEF IInv
<1>6. CASE HelperRelaunches
  <2>1. TypeOK'
    <3>1. helper' \in Helpers
      BY <1>6, HelperMoves, Values DEF IInv, HelperRelaunches
    <3> QED
      BY <1>6, <3>1, Values DEF IInv, TypeOK, Helpers, Ends, HelperRelaunches,
          StartRelaunch, worker, machine
  <2>2. CoverInv'
    BY <1>6 DEF IInv, TypeOK, PlaceInv, CoverInv, NoHelper, HelperRelaunches, StartRelaunch,
        worker, machine
  <2>3. WrittenInv'
    BY <1>6 DEF IInv, TypeOK, PlaceInv, WrittenInv, NoEnd, NoHelper, HelperRelaunches,
        StartRelaunch, worker, machine
  <2>4. PlaceInv' /\ ReportIsCurrent'
    BY <1>6 DEF IInv, PlaceInv, ReportIsCurrent, Speaks, HelperRelaunches, StartRelaunch,
        worker, machine
  <2> QED
    BY <2>1, <2>2, <2>3, <2>4 DEF IInv
<1>7. CASE HelperEnds
  <2>1. TypeOK'
    <3>1. helper' \in Helpers
      BY <1>7, Values DEF IInv, HelperEnds
    <3>2. ended' \in Ends
      BY <1>7 DEF IInv, TypeOK, Ends, HelperEnds
    <3> QED
      BY <1>7, <3>1, <3>2 DEF IInv, TypeOK, Helpers, Ends, HelperEnds, worker, machine
  <2>2. PlaceInv'
    BY <1>7 DEF IInv, TypeOK, PlaceInv, Alive, HelperEnds, worker, machine
  <2>3. CoverInv'
    BY <1>7 DEF IInv, TypeOK, PlaceInv, CoverInv, NoHelper, HelperEnds, worker, machine
  <2>4. WrittenInv'
    BY <1>7 DEF IInv, TypeOK, PlaceInv, WrittenInv, NoEnd, NoHelper, HelperEnds, worker, machine
  <2>5. ReportIsCurrent'
    BY <1>7 DEF IInv, ReportIsCurrent, Speaks, HelperEnds, worker, machine
  <2> QED
    BY <2>1, <2>2, <2>3, <2>4, <2>5 DEF IInv
<1> QED
  BY <1>1, <1>2, <1>3, <1>4, <1>5, <1>6, <1>7 DEF HelperStep

\* The end of the app's process keeps the invariant.
LEMMA ExitKeeps == ASSUME IInv, AppEnds PROVE IInv'
<1>1. TypeOK'
  BY Values DEF IInv, TypeOK, Ends, Helpers, Reports, AppEnds, Forget, worker, machine
<1>2. PlaceInv'
  BY DEF IInv, TypeOK, PlaceInv, Alive, AppEnds, Forget, worker, machine
<1>3. CoverInv'
  BY DEF IInv, TypeOK, PlaceInv, CoverInv, NoHelper, AppEnds, Forget, worker, machine
<1>4. WrittenInv'
  BY DEF IInv, TypeOK, PlaceInv, WrittenInv, NoEnd, NoHelper, AppEnds, Forget, worker, machine
<1>5. ReportIsCurrent'
  BY DEF IInv, TypeOK, PlaceInv, WrittenInv, ReportIsCurrent, Speaks, AppEnds, Forget, worker,
      machine
<1> QED
  BY <1>1, <1>2, <1>3, <1>4, <1>5 DEF IInv

\* Nothing else changes the state.
LEMMA StutterKeeps == ASSUME IInv, UNCHANGED vars PROVE IInv'
BY DEF IInv, TypeOK, PlaceInv, CoverInv, WrittenInv, ReportIsCurrent, Speaks,
       vars, worker, machine

\* The invariant is inductive.
THEOREM Inductive == Spec => []IInv
<1>1. IInv /\ [Next]_vars => IInv'
  <2> SUFFICES ASSUME IInv, [Next]_vars PROVE IInv'
    OBVIOUS
  <2>1. CASE WorkerStep
    BY <2>1, WorkerKeeps
  <2>2. CASE UserStep
    BY <2>2, UserKeeps
  <2>3. CASE RelaunchStep
    BY <2>3, RelaunchKeeps
  <2>4. CASE HelperStep
    BY <2>4, HelperKeeps
  <2>5. CASE AppEnds
    BY <2>5, ExitKeeps
  <2>6. CASE UNCHANGED vars
    BY <2>6, StutterKeeps
  <2> QED
    BY <2>1, <2>2, <2>3, <2>4, <2>5, <2>6 DEF Next
<1> QED
  BY <1>1, InitIInv, PTL DEF Spec

\* The variables stay in their ranges.
THEOREM InstallTypeCorrect == Spec => []TypeOK
<1>1. IInv => TypeOK
  BY DEF IInv
<1> QED
  BY <1>1, Inductive, PTL

\* The report on the banner is unread and about the build that shows it, for
\* any releases, any number of updates, crashes and restarts.
THEOREM BannerReportIsCurrent == Spec => []ReportIsCurrent
<1>1. IInv => ReportIsCurrent
  BY DEF IInv
<1> QED
  BY <1>1, Inductive, PTL

\* No launch starts the app under a running helper, but for the cases the
\* marker cannot cover.
THEOREM LaunchWaitsForHelper == Spec => NoStartUnderHelper
<1> DEFINE Ok == app = "none" /\ app' = "up" =>
                   helper.at = "none" \/ history' \cap {"unrecorded", "expired"} # {}
<1>1. IInv /\ [Next]_vars => [Ok]_vars
  <2> SUFFICES ASSUME IInv, Next, app = "none", app' = "up" PROVE Ok
    OBVIOUS
  <2>1. \E expired \in BOOLEAN : Starts(expired)
    <3>1. CASE WorkerStep
      BY <3>1 DEF WorkerStep, ShowLastResult, HandoffRefused, Handoff, HelperOver, RecordUpdate,
                  WorkerStops
    <3>2. CASE UserStep
      BY <3>2 DEF UserStep, ReadReport, Begin, ShowInstaller, AppStops, AppCrashes, Launches,
                  Reboots, Forget
    <3>3. CASE RelaunchStep
      BY <3>3 DEF RelaunchStep, RelaunchWaits, RelaunchStarts, RelaunchEnds
    <3>4. CASE HelperStep
      BY <3>4 DEF HelperStep, HelperRefuses, HelperInstalls, InstallTakes, InstallFails,
                  HelperReports, HelperRelaunches, HelperEnds
    <3>5. CASE AppEnds
      BY <3>5 DEF AppEnds, Forget
    <3> QED
      BY <3>1, <3>2, <3>3, <3>4, <3>5 DEF Next
  <2>2. handle # "mine"
    BY DEF IInv, PlaceInv
  <2>3. helper.at = "none" \/ marker = "live" \/ history \cap {"unrecorded", "expired"} # {}
    BY <2>2 DEF IInv, CoverInv
  <2> QED
    BY <2>1, <2>3 DEF Starts, IInv, TypeOK
<1> QED
  BY <1>1, Inductive, PTL DEF Spec, NoStartUnderHelper

---------------------------------------------------------------------------
(* The banner in one run of the app.                                         *)

\* The ranges of the banner and of the window's copy of it.
Phases  == Offering \cup {"None", "Applying", "Result"}
Notes   == {"none", "retry", "installer", "installed", "restartApp", "restartWindows",
            "notInstalled"}
Banners == [phase : Phases, code : Codes, note : Notes]
Views   == [phase : Phases, code : Codes, act : {"apply", "manual", "reveal", "dismiss", "none"}]

Places == {"start", "idle", "check", "claim", "judge", "download", "verify", "handoff",
           "await", "judgeRefused", "reveal", "revealAgain", "hash"}

\* The ranges of the rest.
RestOK ==
  /\ offer \in Codes /\ later \in Codes /\ clicked \in Codes /\ taken \in Codes
  /\ asked \subseteq {"apply", "manual", "reveal", "check"}
  /\ current \in BOOLEAN /\ overtaken \in BOOLEAN /\ unwatched \in BOOLEAN
  /\ manual \in BOOLEAN /\ checked \in BOOLEAN
  /\ step \in Places /\ why \in {"loop", "click", "refused", "reveal"}

\* Until the last report is looked at, nothing is on the banner, in the window
\* or asked for but a check.
StartInv ==
  step = "start" =>
    /\ banner = NoBanner /\ offer = 0 /\ later = 0
    /\ shown = View(NoBanner, 0) /\ asked \subseteq {"check"}

\* The release put off is on no banner, a report's included: a report's button
\* can be the installer, and takes its release back to the work on an update.
LaterInv == later # 0 => banner.code # later

\* While a click waits or is being claimed, the banner's release is the clicked
\* one, or the banner has moved.
ClickInv ==
  step = "claim" \/ asked \cap Clicks # {} => overtaken \/ banner.code = clicked

BannerIInv ==
  BannerTypeOK /\ StartInv /\ LaterInv /\ ClickInv /\ BannerHoldsClick

\* The values the banner and the window are given are in their ranges.
LEMMA BannerValues ==
  ASSUME BannerTypeOK
  PROVE  /\ banner \in Banners /\ banner.code \in Codes
         /\ shown \in Views /\ shown.code \in Codes /\ RestOK
         /\ 0 \in Codes /\ Own \in Nat /\ NoBanner \in Banners
         /\ \A b \in Banners, o \in Codes : View(b, o) \in Views
         /\ \A n \in Notes : Failing(n) \in Banners
         /\ \A p \in Phases, c \in Codes, n \in Notes :
              /\ [phase |-> p, code |-> c, note |-> n] \in Banners
              /\ [banner EXCEPT !.phase = p, !.note = n] \in Banners
         /\ \A r \in Codes : BannerFor(r) \in Banners
         /\ LastResults \subseteq Banners
<1> USE DEF Banners, Views, Phases, Notes, Codes, Offering
<1>1. /\ banner \in Banners /\ banner.code \in Codes
      /\ shown \in Views /\ shown.code \in Codes
  BY DEF BannerTypeOK
<1>9. RestOK
  BY DEF BannerTypeOK, RestOK, Places
<1>2. 0 \in Codes /\ Own \in Nat /\ Own .. MaxRelease \subseteq Codes
  BY ConstantsAssumption
<1>3. NoBanner \in Banners
  BY <1>2 DEF NoBanner
<1>4. \A b \in Banners, o \in Codes : View(b, o) \in Views
  BY DEF View, Act
<1>5. \A p \in Phases, c \in Codes, n \in Notes :
        /\ [phase |-> p, code |-> c, note |-> n] \in Banners
        /\ [banner EXCEPT !.phase = p, !.note = n] \in Banners
  BY <1>1
<1>6. \A n \in Notes : Failing(n) \in Banners
  BY <1>1 DEF Failing
<1>7. \A r \in Codes : BannerFor(r) \in Banners
  BY <1>1, <1>3, <1>5 DEF BannerFor
<1>8. LastResults \subseteq Banners
  BY <1>2, <1>3 DEF LastResults
<1> QED
  BY <1>1, <1>2, <1>3, <1>4, <1>5, <1>6, <1>7, <1>8, <1>9

\* The ranges together are the type invariant.
LEMMA BannerTypeParts ==
  /\ banner \in Banners /\ shown \in Views /\ RestOK => BannerTypeOK
  /\ (banner \in Banners)' /\ (shown \in Views)' /\ RestOK' => BannerTypeOK'
BY DEF BannerTypeOK, Banners, Views, Phases, Notes, RestOK, Places, Codes, Offering

\* A step of the window or of the worker keeps the ranges.
LEMMA BannerTypeKept ==
  ASSUME BannerTypeOK, BannerNext
  PROVE  BannerTypeOK'
<1>1. CASE Deliver
  <2>1. banner' \in Banners
    BY <1>1, BannerValues DEF Deliver, checker, Phases, Notes, RestOK
  <2>2. shown' \in Views
    BY <1>1, BannerValues DEF Deliver, RestOK
  <2>3. RestOK'
    BY <1>1, BannerValues DEF Deliver, checker, job, RestOK, Places
  <2> QED
    BY <2>1, <2>2, <2>3, BannerTypeParts
<1>2. CASE Click
  <2>1. banner' \in Banners
    BY <1>2, BannerValues DEF Click, Phases, Notes, RestOK
  <2>2. shown' \in Views
    BY <1>2, BannerValues DEF Click
  <2>3. RestOK'
    BY <1>2, BannerValues DEF Click, job, RestOK, Places
  <2> QED
    BY <2>1, <2>2, <2>3, BannerTypeParts
<1>3. CASE CheckNow
  <2>1. banner' \in Banners
    BY <1>3, BannerValues DEF CheckNow, Phases, Notes, RestOK
  <2>2. shown' \in Views
    BY <1>3, BannerValues DEF CheckNow, window
  <2>3. RestOK'
    BY <1>3, BannerValues DEF CheckNow, window, job, RestOK, Places
  <2> QED
    BY <2>1, <2>2, <2>3, BannerTypeParts
<1>4. CASE Later
  <2>1. banner' \in Banners
    BY <1>4, BannerValues DEF Later, Phases, Notes, RestOK
  <2>2. shown' \in Views
    BY <1>4, BannerValues DEF Later
  <2>3. RestOK'
    BY <1>4, BannerValues DEF Later, Moves, job, RestOK, Places
  <2> QED
    BY <2>1, <2>2, <2>3, BannerTypeParts
<1>5. CASE DismissResult
  <2>1. banner' \in Banners
    BY <1>5, BannerValues DEF DismissResult, Phases, Notes, Offering, RestOK
  <2>2. shown' \in Views
    BY <1>5, BannerValues DEF DismissResult
  <2>3. RestOK'
    BY <1>5, BannerValues DEF DismissResult, Moves, job, RestOK, Places
  <2> QED
    BY <2>1, <2>2, <2>3, BannerTypeParts
<1>6. CASE ChannelChanged
  <2>1. banner' \in Banners
    BY <1>6, BannerValues DEF ChannelChanged, Phases, Notes, RestOK
  <2>2. shown' \in Views
    BY <1>6, BannerValues DEF ChannelChanged
  <2>3. RestOK'
    BY <1>6, BannerValues DEF ChannelChanged, Moves, RestOK, Places
  <2> QED
    BY <2>1, <2>2, <2>3, BannerTypeParts
<1>7. CASE TakeApply
  <2>1. banner' \in Banners
    BY <1>7, BannerValues DEF TakeApply, Phases, Notes, RestOK
  <2>2. shown' \in Views
    BY <1>7, BannerValues DEF TakeApply, window
  <2>3. RestOK'
    BY <1>7, BannerValues DEF TakeApply, window, RestOK, Places
  <2> QED
    BY <2>1, <2>2, <2>3, BannerTypeParts
<1>8. CASE TakeReveal
  <2>1. banner' \in Banners
    BY <1>8, BannerValues DEF TakeReveal, Phases, Notes, RestOK
  <2>2. shown' \in Views
    BY <1>8, BannerValues DEF TakeReveal, window
  <2>3. RestOK'
    BY <1>8, BannerValues DEF TakeReveal, window, RestOK, Places
  <2> QED
    BY <2>1, <2>2, <2>3, BannerTypeParts
<1>9. CASE TakeCheck
  <2>1. banner' \in Banners
    BY <1>9, BannerValues DEF TakeCheck, Phases, Notes, RestOK
  <2>2. shown' \in Views
    BY <1>9, BannerValues DEF TakeCheck, window
  <2>3. RestOK'
    BY <1>9, BannerValues DEF TakeCheck, window, RestOK, Places
  <2> QED
    BY <2>1, <2>2, <2>3, BannerTypeParts
<1>10. CASE WorkerBegins
  <2>1. banner' \in Banners
    BY <1>10, BannerValues DEF WorkerBegins, Phases, Notes, RestOK
  <2>2. shown' \in Views
    BY <1>10, BannerValues DEF WorkerBegins, window
  <2>3. RestOK'
    BY <1>10, BannerValues DEF WorkerBegins, window, job, RestOK, Places
  <2> QED
    BY <2>1, <2>2, <2>3, BannerTypeParts
<1>11. CASE CheckFails
  <2>1. banner' \in Banners
    BY <1>11, BannerValues DEF CheckFails, CheckReturns, checker, Phases, Notes, RestOK
  <2>2. shown' \in Views
    BY <1>11, BannerValues DEF CheckFails, CheckReturns, window
  <2>3. RestOK'
    BY <1>11, BannerValues DEF CheckFails, CheckReturns, JobEnds, checker, window, RestOK,
        Places
  <2> QED
    BY <2>1, <2>2, <2>3, BannerTypeParts
<1>12. CASE CheckDone
  <2>1. banner' \in Banners
    BY <1>12, BannerValues DEF CheckDone, CheckReturns, Phases, Notes, RestOK
  <2>2. shown' \in Views
    BY <1>12, BannerValues DEF CheckDone, CheckReturns
  <2>3. RestOK'
    BY <1>12, BannerValues DEF CheckDone, CheckReturns, JobEnds, Moves, RestOK, Places
  <2> QED
    BY <2>1, <2>2, <2>3, BannerTypeParts
<1>13. CASE Claim
  <2>1. banner' \in Banners
    BY <1>13, BannerValues DEF Claim, Phases, Notes, RestOK
  <2>2. shown' \in Views
    BY <1>13, BannerValues DEF Claim, window
  <2>3. RestOK'
    BY <1>13, BannerValues DEF Claim, JobEnds, window, RestOK, Places
  <2> QED
    BY <2>1, <2>2, <2>3, BannerTypeParts
<1>14. CASE JudgeClick
  <2>1. banner' \in Banners
    BY <1>14, BannerValues DEF JudgeClick, MutateFor, Phases, Notes, RestOK
  <2>2. shown' \in Views
    BY <1>14, BannerValues DEF JudgeClick
  <2>3. RestOK'
    BY <1>14, BannerValues DEF JudgeClick, JobEnds, On, Moves, job, RestOK, Places
  <2> QED
    BY <2>1, <2>2, <2>3, BannerTypeParts
<1>15. CASE Download
  <2>1. banner' \in Banners
    BY <1>15, BannerValues DEF Download, StepFails, StepDone, MutateFor, Phases, Notes,
        RestOK
  <2>2. shown' \in Views
    BY <1>15, BannerValues DEF Download, StepFails, StepDone, window
  <2>3. RestOK'
    BY <1>15, BannerValues DEF Download, StepFails, StepDone, JobEnds, On, job, window,
        RestOK, Places
  <2> QED
    BY <2>1, <2>2, <2>3, BannerTypeParts
<1>16. CASE Verify
  <2>1. banner' \in Banners
    BY <1>16, BannerValues DEF Verify, StepFails, StepDone, MutateFor, Phases, Notes,
        Offering, RestOK
  <2>2. shown' \in Views
    BY <1>16, BannerValues DEF Verify, StepFails, StepDone, window
  <2>3. RestOK'
    BY <1>16, BannerValues DEF Verify, StepFails, StepDone, JobEnds, On, job, window,
        RestOK, Places
  <2> QED
    BY <2>1, <2>2, <2>3, BannerTypeParts
<1>17. CASE HelperNotStarted
  <2>1. banner' \in Banners
    BY <1>17, BannerValues DEF HelperNotStarted, StepFails, MutateFor, Phases, Notes, RestOK
  <2>2. shown' \in Views
    BY <1>17, BannerValues DEF HelperNotStarted, StepFails, window
  <2>3. RestOK'
    BY <1>17, BannerValues DEF HelperNotStarted, StepFails, JobEnds, window, RestOK, Places
  <2> QED
    BY <2>1, <2>2, <2>3, BannerTypeParts
<1>18. CASE HelperStarted
  <2>1. banner' \in Banners
    BY <1>18, BannerValues DEF HelperStarted, checker, Phases, Notes, RestOK
  <2>2. shown' \in Views
    BY <1>18, BannerValues DEF HelperStarted, window
  <2>3. RestOK'
    BY <1>18, BannerValues DEF HelperStarted, On, JobEnds, job, checker, window, RestOK,
        Places
  <2> QED
    BY <2>1, <2>2, <2>3, BannerTypeParts
<1>19. CASE HelperReturns
  <2>1. banner' \in Banners
    <3>1. ASSUME NEW n \in Notes, Report(n) PROVE banner' \in Banners
      BY <3>1, BannerValues DEF Report, Phases
    <3>2. CASE UNCHANGED banner
      BY <3>2, BannerValues
    <3> QED
      BY <1>19, <3>1, <3>2 DEF HelperReturns, Notes
  <2>2. shown' \in Views
    BY <1>19, BannerValues DEF HelperReturns, window
  <2>3. RestOK'
    BY <1>19, BannerValues DEF HelperReturns, Report, JobEnds, window, RestOK, Places
  <2> QED
    BY <2>1, <2>2, <2>3, BannerTypeParts
<1>20. CASE JudgeRefused
  <2>1. banner' \in Banners
    BY <1>20, BannerValues DEF JudgeRefused, Report, Phases, Notes, RestOK
  <2>2. shown' \in Views
    BY <1>20, BannerValues DEF JudgeRefused, window
  <2>3. RestOK'
    BY <1>20, BannerValues DEF JudgeRefused, Report, JobEnds, window, RestOK, Places
  <2> QED
    BY <2>1, <2>2, <2>3, BannerTypeParts
<1>21. CASE Reveal
  <2>1. banner' \in Banners
    BY <1>21, BannerValues DEF Reveal, checker, Phases, Notes, RestOK
  <2>2. shown' \in Views
    BY <1>21, BannerValues DEF Reveal, window
  <2>3. RestOK'
    BY <1>21, BannerValues DEF Reveal, On, JobEnds, job, checker, window, RestOK, Places
  <2> QED
    BY <2>1, <2>2, <2>3, BannerTypeParts
<1>22. CASE RevealAgain
  <2>1. banner' \in Banners
    BY <1>22, BannerValues DEF RevealAgain, MutateFor, Phases, Notes, RestOK
  <2>2. shown' \in Views
    BY <1>22, BannerValues DEF RevealAgain, window
  <2>3. RestOK'
    BY <1>22, BannerValues DEF RevealAgain, On, JobEnds, job, window, RestOK, Places
  <2> QED
    BY <2>1, <2>2, <2>3, BannerTypeParts
<1>23. CASE RevealHash
  <2>1. banner' \in Banners
    BY <1>23, BannerValues DEF RevealHash, StepFails, StepDone, MutateFor, Phases, Notes,
        RestOK
  <2>2. shown' \in Views
    BY <1>23, BannerValues DEF RevealHash, StepFails, StepDone, window
  <2>3. RestOK'
    BY <1>23, BannerValues DEF RevealHash, StepFails, StepDone, JobEnds, window, RestOK,
        Places
  <2> QED
    BY <2>1, <2>2, <2>3, BannerTypeParts
<1> QED
  BY <1>1, <1>2, <1>3, <1>4, <1>5, <1>6, <1>7, <1>8, <1>9, <1>10, <1>11, <1>12,
      <1>13, <1>14, <1>15, <1>16, <1>17, <1>18, <1>19, <1>20, <1>21, <1>22, <1>23 DEF
      BannerNext, WindowStep, Takes, JobStep

\* It keeps what is known until the last report is looked at.
LEMMA StartKept == ASSUME BannerTypeOK, StartInv, BannerNext PROVE StartInv'
<1>1. CASE Deliver
  BY <1>1 DEF Deliver, StartInv
<1>2. CASE Click
  BY <1>2 DEF Click, StartInv, View, Act, NoBanner
<1>3. CASE CheckNow
  BY <1>3 DEF CheckNow, window, StartInv
<1>4. CASE Later
  BY <1>4 DEF Later, NoBanner, StartInv
<1>5. CASE DismissResult
  BY <1>5 DEF DismissResult, NoBanner, StartInv
<1>6. CASE ChannelChanged
  BY <1>6 DEF ChannelChanged, StartInv
<1>7. CASE TakeApply
  BY <1>7 DEF TakeApply, StartInv
<1>8. CASE TakeReveal
  BY <1>8 DEF TakeReveal, StartInv
<1>9. CASE TakeCheck
  BY <1>9 DEF TakeCheck, StartInv
<1>10. CASE WorkerBegins
  BY <1>10 DEF WorkerBegins, StartInv
<1>11. CASE CheckFails
  BY <1>11 DEF CheckFails, CheckReturns, JobEnds, StartInv, BannerTypeOK
<1>12. CASE CheckDone
  BY <1>12 DEF CheckDone, CheckReturns, JobEnds, StartInv, BannerTypeOK
<1>13. CASE Claim
  BY <1>13 DEF Claim, JobEnds, StartInv
<1>14. CASE JudgeClick
  BY <1>14 DEF JudgeClick, JobEnds, On, StartInv
<1>15. CASE Download
  BY <1>15 DEF Download, StepFails, StepDone, JobEnds, On, StartInv
<1>16. CASE Verify
  BY <1>16 DEF Verify, StepFails, StepDone, JobEnds, On, StartInv
<1>17. CASE HelperNotStarted
  BY <1>17 DEF HelperNotStarted, StepFails, JobEnds, StartInv
<1>18. CASE HelperStarted
  BY <1>18 DEF HelperStarted, On, JobEnds, StartInv
<1>19. CASE HelperReturns
  BY <1>19 DEF HelperReturns, Report, JobEnds, StartInv
<1>20. CASE JudgeRefused
  BY <1>20 DEF JudgeRefused, Report, JobEnds, StartInv
<1>21. CASE Reveal
  BY <1>21 DEF Reveal, On, JobEnds, StartInv
<1>22. CASE RevealAgain
  BY <1>22 DEF RevealAgain, On, JobEnds, StartInv
<1>23. CASE RevealHash
  BY <1>23 DEF RevealHash, StepFails, StepDone, JobEnds, StartInv
<1> QED
  BY <1>1, <1>2, <1>3, <1>4, <1>5, <1>6, <1>7, <1>8, <1>9, <1>10, <1>11, <1>12,
      <1>13, <1>14, <1>15, <1>16, <1>17, <1>18, <1>19, <1>20, <1>21, <1>22, <1>23 DEF
      BannerNext, WindowStep, Takes, JobStep

\* It keeps the release put off from the banner.
LEMMA LaterKept ==
  ASSUME BannerTypeOK, StartInv, LaterInv, BannerNext
  PROVE  LaterInv'
<1>1. CASE Deliver
  BY <1>1 DEF Deliver, checker, LaterInv
<1>2. CASE Click
  BY <1>2 DEF Click, LaterInv
<1>3. CASE CheckNow
  BY <1>3 DEF CheckNow, LaterInv
<1>4. CASE Later
  BY <1>4 DEF Later, NoBanner, LaterInv
<1>5. CASE DismissResult
  BY <1>5 DEF DismissResult, HiddenByLater, NoBanner, LaterInv
<1>6. CASE ChannelChanged
  BY <1>6 DEF ChannelChanged, LaterInv
<1>7. CASE TakeApply
  BY <1>7 DEF TakeApply, LaterInv
<1>8. CASE TakeReveal
  BY <1>8 DEF TakeReveal, LaterInv
<1>9. CASE TakeCheck
  BY <1>9 DEF TakeCheck, LaterInv
<1>10. CASE WorkerBegins
  BY <1>10 DEF WorkerBegins, LaterInv, StartInv
<1>11. CASE CheckFails
  BY <1>11 DEF CheckFails, CheckReturns, checker, LaterInv
<1>12. CASE CheckDone
  BY <1>12 DEF CheckDone, CheckReturns, BannerFor, NoBanner, HiddenByLater, LaterInv
<1>13. CASE Claim
  BY <1>13 DEF Claim, LaterInv
<1>14. CASE JudgeClick
  BY <1>14 DEF JudgeClick, MutateFor, Failing, NoBanner, LaterInv
<1>15. CASE Download
  BY <1>15 DEF Download, StepFails, StepDone, MutateFor, Failing, LaterInv, BannerTypeOK
<1>16. CASE Verify
  BY <1>16 DEF Verify, StepFails, StepDone, MutateFor, Failing, LaterInv, BannerTypeOK
<1>17. CASE HelperNotStarted
  BY <1>17 DEF HelperNotStarted, StepFails, MutateFor, Failing, LaterInv
<1>18. CASE HelperStarted
  BY <1>18 DEF HelperStarted, checker, LaterInv
<1>19. CASE HelperReturns
  BY <1>19 DEF HelperReturns, Report, LaterInv, BannerTypeOK
<1>20. CASE JudgeRefused
  BY <1>20 DEF JudgeRefused, Report, LaterInv, BannerTypeOK
<1>21. CASE Reveal
  BY <1>21 DEF Reveal, checker, LaterInv
<1>22. CASE RevealAgain
  BY <1>22 DEF RevealAgain, MutateFor, Failing, LaterInv, BannerTypeOK
<1>23. CASE RevealHash
  BY <1>23 DEF RevealHash, StepFails, StepDone, MutateFor, Failing, LaterInv, BannerTypeOK
<1> QED
  BY <1>1, <1>2, <1>3, <1>4, <1>5, <1>6, <1>7, <1>8, <1>9, <1>10, <1>11, <1>12,
      <1>13, <1>14, <1>15, <1>16, <1>17, <1>18, <1>19, <1>20, <1>21, <1>22, <1>23 DEF
      BannerNext, WindowStep, Takes, JobStep

\* It keeps the banner on the clicked release, or notes that it moved.
LEMMA ClickKept == ASSUME BannerTypeOK, StartInv, ClickInv, BannerNext PROVE ClickInv'
<1>1. CASE Deliver
  BY <1>1 DEF Deliver, checker, ClickInv
<1>2. CASE Click
  BY <1>2 DEF Click, ClickInv
<1>3. CASE CheckNow
  BY <1>3 DEF CheckNow, window, ClickInv, Clicks
<1>4. CASE Later
  BY <1>4 DEF Later, Moves, ClickInv
<1>5. CASE DismissResult
  BY <1>5 DEF DismissResult, Moves, ClickInv
<1>6. CASE ChannelChanged
  BY <1>6 DEF ChannelChanged, Moves, ClickInv, Clicks
<1>7. CASE TakeApply
  BY <1>7 DEF TakeApply, window, ClickInv
<1>8. CASE TakeReveal
  BY <1>8 DEF TakeReveal, ClickInv
<1>9. CASE TakeCheck
  BY <1>9 DEF TakeCheck, ClickInv
<1>10. CASE WorkerBegins
  BY <1>10 DEF WorkerBegins, ClickInv, StartInv, Clicks
<1>11. CASE CheckFails
  BY <1>11 DEF CheckFails, CheckReturns, JobEnds, checker, window, ClickInv, BannerTypeOK
<1>12. CASE CheckDone
  BY <1>12 DEF CheckDone, CheckReturns, JobEnds, Moves, ClickInv, BannerTypeOK
<1>13. CASE Claim
  BY <1>13 DEF Claim, window, ClickInv
<1>14. CASE JudgeClick
  BY <1>14 DEF JudgeClick, JobEnds, On, ClickInv
<1>15. CASE Download
  BY <1>15 DEF Download, StepFails, StepDone, MutateFor, Failing, JobEnds, On, window,
      ClickInv, BannerTypeOK
<1>16. CASE Verify
  BY <1>16 DEF Verify, StepFails, StepDone, MutateFor, Failing, JobEnds, On, window,
      ClickInv, BannerTypeOK
<1>17. CASE HelperNotStarted
  BY <1>17 DEF HelperNotStarted, StepFails, MutateFor, Failing, JobEnds, window, ClickInv
<1>18. CASE HelperStarted
  BY <1>18 DEF HelperStarted, On, JobEnds, checker, window, ClickInv
<1>19. CASE HelperReturns
  BY <1>19 DEF HelperReturns, Report, JobEnds, window, ClickInv, BannerTypeOK
<1>20. CASE JudgeRefused
  BY <1>20 DEF JudgeRefused, Report, JobEnds, window, ClickInv, BannerTypeOK
<1>21. CASE Reveal
  BY <1>21 DEF Reveal, On, JobEnds, checker, window, ClickInv
<1>22. CASE RevealAgain
  BY <1>22 DEF RevealAgain, On, JobEnds, MutateFor, Failing, window, ClickInv, BannerTypeOK
<1>23. CASE RevealHash
  BY <1>23 DEF RevealHash, StepFails, StepDone, MutateFor, Failing, JobEnds, window,
      ClickInv, BannerTypeOK
<1> QED
  BY <1>1, <1>2, <1>3, <1>4, <1>5, <1>6, <1>7, <1>8, <1>9, <1>10, <1>11, <1>12,
      <1>13, <1>14, <1>15, <1>16, <1>17, <1>18, <1>19, <1>20, <1>21, <1>22, <1>23 DEF
      BannerNext, WindowStep, Takes, JobStep

\* It keeps the banner of an update being worked on.
LEMMA HoldKept ==
  ASSUME BannerTypeOK, BannerHoldsClick, BannerNext
  PROVE  BannerHoldsClick'
<1>1. CASE Deliver
  BY <1>1 DEF Deliver, checker, job, BannerHoldsClick, BannerHolds
<1>2. CASE Click
  BY <1>2 DEF Click, job, BannerHoldsClick, BannerHolds
<1>3. CASE CheckNow
  BY <1>3 DEF CheckNow, job, BannerHoldsClick, BannerHolds
<1>4. CASE Later
  BY <1>4 DEF Later, OffersLater, Offering, job, BannerHoldsClick, BannerHolds
<1>5. CASE DismissResult
  BY <1>5 DEF DismissResult, job, BannerHoldsClick, BannerHolds
<1>6. CASE ChannelChanged
  BY <1>6 DEF ChannelChanged, BannerHoldsClick
<1>7. CASE TakeApply
  BY <1>7 DEF TakeApply, BannerHoldsClick
<1>8. CASE TakeReveal
  BY <1>8 DEF TakeReveal, BannerHoldsClick
<1>9. CASE TakeCheck
  BY <1>9 DEF TakeCheck, BannerHoldsClick
<1>10. CASE WorkerBegins
  BY <1>10 DEF WorkerBegins, BannerHoldsClick
<1>11. CASE CheckFails
  BY <1>11 DEF CheckFails, CheckReturns, JobEnds, BannerHoldsClick, BannerTypeOK
<1>12. CASE CheckDone
  BY <1>12 DEF CheckDone, CheckReturns, JobEnds, BannerHoldsClick, BannerTypeOK
<1>13. CASE Claim
  <2>1. CASE step' \in {"check", "download"}
    <3>1. banner' = [phase |-> "Applying", code |-> offer, note |-> "none"] /\ taken' = offer
      BY <1>13, <2>1 DEF Claim, JobEnds
    <3> QED
      BY <3>1 DEF BannerHoldsClick, BannerHolds
  <2>2. CASE step' = "idle"
    BY <2>2 DEF BannerHoldsClick
  <2> QED
    BY <1>13, <2>1, <2>2 DEF Claim, JobEnds
<1>14. CASE JudgeClick
  BY <1>14 DEF JudgeClick, JobEnds, On, MutateFor, BannerHolds, StepAfterCheck, job,
      BannerHoldsClick
<1>15. CASE Download
  BY <1>15 DEF Download, StepFails, StepDone, MutateFor, JobEnds, On, job, BannerHoldsClick,
      BannerHolds
<1>16. CASE Verify
  BY <1>16 DEF Verify, StepFails, StepDone, MutateFor, JobEnds, On, job, BannerHoldsClick,
      BannerHolds
<1>17. CASE HelperNotStarted
  BY <1>17 DEF HelperNotStarted, StepFails, JobEnds, BannerHoldsClick
<1>18. CASE HelperStarted
  BY <1>18 DEF HelperStarted, On, JobEnds, job, checker, BannerHoldsClick, BannerHolds
<1>19. CASE HelperReturns
  BY <1>19 DEF HelperReturns, Report, JobEnds, BannerHoldsClick
<1>20. CASE JudgeRefused
  BY <1>20 DEF JudgeRefused, Report, JobEnds, BannerHoldsClick
<1>21. CASE Reveal
  BY <1>21 DEF Reveal, On, JobEnds, BannerHoldsClick
<1>22. CASE RevealAgain
  BY <1>22 DEF RevealAgain, On, JobEnds, BannerHoldsClick
<1>23. CASE RevealHash
  BY <1>23 DEF RevealHash, StepFails, StepDone, JobEnds, BannerHoldsClick
<1> QED
  BY <1>1, <1>2, <1>3, <1>4, <1>5, <1>6, <1>7, <1>8, <1>9, <1>10, <1>11, <1>12,
      <1>13, <1>14, <1>15, <1>16, <1>17, <1>18, <1>19, <1>20, <1>21, <1>22, <1>23 DEF
      BannerNext, WindowStep, Takes, JobStep

\* The invariant holds of every state of the banner.
LEMMA BannerSpecIInv ==
  BannerSpec => []BannerIInv
<1>1. BannerInit => BannerIInv
  <2> SUFFICES ASSUME BannerInit PROVE BannerIInv
    OBVIOUS
  <2>1. BannerTypeOK
    <3>1. banner \in Banners /\ shown \in Views
      BY ConstantsAssumption DEF BannerInit, Codes, Banners, Views, Phases, Notes, NoBanner,
          View, Act
    <3>2. 0 \in Codes
      BY ConstantsAssumption DEF Codes
    <3>3. RestOK
      BY <3>2 DEF BannerInit, RestOK, Places
    <3> QED
      BY <3>1, <3>3, BannerTypeParts
  <2>2. StartInv /\ LaterInv /\ ClickInv /\ BannerHoldsClick
    BY DEF BannerInit, StartInv, LaterInv, ClickInv, BannerHoldsClick, Clicks
  <2> QED
    BY <2>1, <2>2 DEF BannerIInv
<1>2. BannerIInv /\ [BannerNext]_bannerVars => BannerIInv'
  <2> SUFFICES ASSUME BannerIInv, [BannerNext]_bannerVars PROVE BannerIInv'
    OBVIOUS
  <2>1. CASE BannerNext
    BY <2>1, BannerTypeKept, StartKept, LaterKept, ClickKept, HoldKept DEF BannerIInv
  <2>2. CASE UNCHANGED bannerVars
    BY <2>2 DEF BannerIInv, BannerTypeOK, StartInv, LaterInv, ClickInv, BannerHoldsClick,
        BannerHolds, bannerVars, checker, window, job
  <2> QED
    BY <2>1, <2>2
<1> QED
  BY <1>1, <1>2, PTL DEF BannerSpec

\* Every variable of the banner, of the window's copy and of the worker's job
\* stays in its range.
THEOREM BannerTypeCorrect ==
  BannerSpec => []BannerTypeOK
<1>1. BannerIInv => BannerTypeOK
  BY DEF BannerIInv
<1> QED
  BY <1>1, BannerSpecIInv, PTL

\* UpdateChecker::Later: the release put off is not on the banner again until
\* the user asks for a check, for any releases, clicks and checks.
THEOREM PutOffStaysHidden ==
  BannerSpec => []LaterStaysHidden
<1>1. BannerIInv => LaterStaysHidden
  BY DEF BannerIInv, LaterInv, LaterStaysHidden
<1> QED
  BY <1>1, BannerSpecIInv, PTL

\* RunApply: from the claim of a click to the end of its helper the banner is
\* that update's, unless the feed is changed.
THEOREM UpdateKeepsItsBanner ==
  BannerSpec => []BannerHoldsClick
<1>1. BannerIInv => BannerHoldsClick
  BY DEF BannerIInv
<1> QED
  BY <1>1, BannerSpecIInv, PTL

\* RunApply's claim: what is started is the release on the banner the user
\* clicked, unless the banner moved after the click.
THEOREM ClaimFollowsClick ==
  BannerSpec => ClaimIsOnClicked
<1>1. BannerIInv /\ [BannerNext]_bannerVars =>
        [step = "claim" /\ step' \in {"check", "download"}
           => taken' = clicked \/ overtaken]_bannerVars
  <2> SUFFICES ASSUME BannerIInv, BannerNext, step = "claim", step' \in {"check", "download"}
               PROVE  taken' = clicked \/ overtaken
    OBVIOUS
  <2>1. Claim
    <3>1. step' = step \/ Claim
      BY DEF BannerNext, WindowStep, Takes, JobStep, Deliver, Click, CheckNow, Later,
          DismissResult, ChannelChanged, TakeApply, TakeReveal, TakeCheck, WorkerBegins,
          CheckFails, CheckDone, JudgeClick, Download, Verify, HelperNotStarted,
          HelperStarted, HelperReturns, JudgeRefused, Reveal, RevealAgain, RevealHash,
          StepFails, StepDone
    <3> QED
      BY <3>1
  <2>2. taken' = offer /\ offer = banner.code
    BY <2>1 DEF Claim, JobEnds
  <2> QED
    BY <2>2 DEF BannerIInv, ClickInv
<1> QED
  BY <1>1, BannerSpecIInv, PTL DEF BannerSpec, ClaimIsOnClicked
=============================================================================
