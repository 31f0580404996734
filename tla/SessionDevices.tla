--------------------------- MODULE SessionDevices ---------------------------
(***************************************************************************)
(* The DeviceLocals of urnetworkd: the session's, the provider-only one,   *)
(* the one a start takes over from providing, and the standalone one of a  *)
(* log upload; the bounded teardown workers that close them, and the       *)
(* process-wide egress binding both sides write.                           *)
(*                                                                         *)
(* Threads: the holder of TunnelController::mutex_ (one operation at a     *)
(* time), the teardown workers RunBounded starts, the waiter of a log      *)
(* upload device, the upload's own thread and the egress monitor.          *)
(* The machine side of the same operations (routes, firewall, marker) is   *)
(* TunnelSession's; here the firewall fact and the provide mode that a     *)
(* decision reads are arbitrary.                                           *)
(***************************************************************************)
EXTENDS Naturals, FiniteSets

CONSTANTS
  Devices,     \* the device objects; a released one may be built anew
  NoDevice     \* the null handle

ASSUME DevicesAssumption == NoDevice \notin Devices

VARIABLES
  where,          \* who owns each device object
  gate,           \* who waits on the worker that took it: lock, waiter, held, none
  by,             \* which teardown that worker is of
  shell,          \* a worker left without a device: none, lock, held
  shellUnbinds,   \* that worker still resets the egress binding
  abandoned,      \* Handback::abandoned of the teardown that may hand back
  bound,          \* the sdk's egress is bound to a physical interface
  current,        \* EgressMonitor::current_ of the monitor started last names one
  exposed,        \* history: at its last reading that monitor had nothing to bind
  restartPending, \* SelfRestartPending()
  call,           \* the device the upload's sdk call is on (callingDeviceHandle_)
  releasing,      \* the upload's thread releases the device kept for it
  running,        \* FlightState::Running
  pc,             \* where the holder of mutex_ is, "free" if there is none
  op              \* the operation it performs

custody == <<where, gate, by>>
workers == <<shell, shellUnbinds, abandoned>>
flight  == <<call, releasing, running>>
control == <<pc, op>>
egress  == <<bound, current, exposed>>
vars    == <<custody, workers, flight, control, egress, restartPending>>

\* The owners: a role's slot, the worker of a teardown (clearing: it may hand
\* the device back; ending: before the egress reset; closing: in close();
\* closed), the handback slot, or the log upload's flight.
OpenPlaces    == {"session", "provider", "handed", "log", "clearing", "back"}
ClosingPlaces == {"ending", "closing", "closed", "flight"}
Places        == OpenPlaces \cup ClosingPlaces \cup {"none"}
Gates         == {"none", "lock", "waiter", "held"}
Teardowns     == {"nobody", "session", "provider", "handed", "log", "waiter"}
Steps         == {"free", "retire", "retireLog", "tear", "torn", "resume", "admit", "bind",
                  "device", "closeHanded", "provide", "uploadDevice", "finish"}
Operations    == {"none", "startProvider", "stopProvider", "undo", "upload",
                  "start", "startFailed", "stop", "disconnect"}

\* What DiscoverEgress and InterfaceExists find: a physical ipv4 default route, none
\* although the interface that was bound exists, or neither.
Readings == {"route", "noRoute", "gone"}

Init ==
  /\ where = [d \in Devices |-> "none"]
  /\ gate = [d \in Devices |-> "none"]
  /\ by = [d \in Devices |-> "nobody"]
  /\ shell = "none" /\ shellUnbinds = FALSE /\ abandoned = FALSE
  /\ bound = FALSE /\ current = FALSE /\ exposed = FALSE
  /\ restartPending = FALSE
  /\ call = NoDevice /\ releasing = FALSE /\ running = FALSE
  /\ pc = "free" /\ op = "none"

In(place) == {d \in Devices : where[d] = place}

\* A device object that can be built: nothing of an earlier one is left.
Fresh == {d \in Devices : where[d] = "none" /\ gate[d] = "none"}

\* The holder of the lock is inside RunBounded.
Waiting == shell = "lock" \/ \E d \in Devices : gate[d] = "lock"

\* SweepAbandonedTeardowns().outstanding > 0: a gate registered at its deadline
\* counts until its worker is done.
Outstanding == shell = "held" \/ \E d \in Devices : gate[d] = "held"

\* RunBounded moves the device into a worker of teardown t; who waits for it.
RunBounded(d, stage, t, who) ==
  /\ where' = [where EXCEPT ![d] = stage]
  /\ gate' = [gate EXCEPT ![d] = who]
  /\ by' = [by EXCEPT ![d] = t]

\* The holder's next step.
Goto(step, operation) == pc' = step /\ op' = operation

\* EgressMonitor::Update, in a monitor that has or has not bound an interface: a
\* physical default route is bound; without one the interface bound last is kept
\* while it exists, and with none left the sdk's sockets are unbound.
Update(held) ==
  \E reading \in Readings :
    /\ current' = (reading = "route" \/ (reading = "noRoute" /\ held))
    /\ bound' = current'
    /\ exposed' = (reading = "gone" \/ (reading = "noRoute" /\ ~held))

\* A device changes hands, or is built.
Move(d, place) == where' = [where EXCEPT ![d] = place] /\ UNCHANGED <<gate, by>>

-----------------------------------------------------------------------------
(* The operations, on the thread that holds mutex_. Where one refuses, or  *)
(* applies its request to the running device in place, nothing changes.    *)

\* start_provider for a device other than the one providing.
StartProvider ==
  /\ pc = "free" /\ In("session") = {} /\ ~Outstanding /\ ~restartPending
  /\ Goto("retire", "startProvider")
  /\ UNCHANGED <<custody, workers, flight, egress, restartPending>>

StopProvider ==
  /\ pc = "free"
  /\ Goto("retire", "stopProvider")
  /\ UNCHANGED <<custody, workers, flight, egress, restartPending>>

\* StopLocked: the user's disconnect, or any other end of a session.
StopLocked ==
  /\ pc = "free"
  /\ \E o \in {"stop", "disconnect"} : Goto("retire", o)
  /\ UNCHANGED <<custody, workers, flight, egress, restartPending>>

\* StartLocked opens with TakeProviderDeviceLocked: the provider-only device of
\* this identity leaves its slot before the teardown that would retire it.
StartLocked ==
  /\ pc = "free"
  /\ Goto("retire", "start")
  /\ \/ \E d \in In("provider") : Move(d, "handed")
     \/ UNCHANGED custody
  /\ UNCHANGED <<workers, flight, egress, restartPending>>

\* The upload's carrier is the session's device or the provider-only one, or,
\* when neither runs and nothing refuses it, a device of its own.
UploadLogs ==
  /\ pc = "free" /\ call = NoDevice /\ ~releasing /\ ~running
  /\ running' = TRUE
  /\ \/ /\ \E d \in In("session") \cup In("provider") : call' = d
        /\ UNCHANGED control
     \/ /\ In("session") \cup In("provider") = {} /\ ~Outstanding /\ ~restartPending
        /\ Goto("retireLog", "upload")
        /\ UNCHANGED call
  /\ UNCHANGED <<custody, workers, releasing, egress, restartPending>>

RetireProviderDeviceLocked ==
  /\ pc = "retire" /\ ~Waiting
  /\ \/ \E d \in In("provider") : RunBounded(d, "closing", "provider", "lock")
     \/ In("provider") = {} /\ UNCHANGED custody
  /\ IF op \in {"stopProvider", "undo"} THEN Goto("finish", "none") ELSE Goto("retireLog", op)
  /\ UNCHANGED <<workers, flight, egress, restartPending>>

\* CloseLogUploadDevice on the lock holder's thread, if the waiter has not taken
\* the device first.
RetireLogUploadDeviceLocked ==
  /\ pc = "retireLog" /\ ~Waiting
  /\ \/ \E d \in In("log") : RunBounded(d, "closing", "log", "lock")
     \/ In("log") = {} /\ UNCHANGED custody
  /\ CASE op = "startProvider" -> Goto("provide", op)
       [] op = "upload" -> Goto("uploadDevice", op)
       [] op = "undo" -> Goto("finish", "none")
       [] OTHER -> Goto("tear", op)
  /\ UNCHANGED <<workers, flight, egress, restartPending>>

\* Phase 2 of StopLocked, with the decision it is given: a disconnect whose
\* device could start providing now hands it over to be given back. A start that
\* failed before its device leaves a worker with the adapter and the monitor only.
TearDownSessionLocked ==
  /\ pc = "tear" /\ ~Waiting
  /\ \/ \E d \in In("session") :
          /\ \/ RunBounded(d, "ending", "session", "lock")
             \/ /\ op = "disconnect" /\ ~Outstanding /\ ~restartPending
                /\ RunBounded(d, "clearing", "session", "lock")
          /\ UNCHANGED <<shell, shellUnbinds>>
     \/ /\ In("session") = {} /\ UNCHANGED custody
        /\ IF op = "startFailed" THEN shell' = "lock" /\ shellUnbinds' = TRUE
                                 ELSE UNCHANGED <<shell, shellUnbinds>>
  /\ Goto("torn", op)
  /\ UNCHANGED <<abandoned, flight, egress, restartPending>>

\* After the bounded wait: what the worker handed back is the caller's, and
\* anything it has not handed back by now is the worker's to close.
TakeHandback ==
  /\ pc = "torn" /\ ~Waiting
  /\ IF In("back") # {}
       THEN Goto("resume", op) /\ UNCHANGED abandoned
       ELSE /\ abandoned' = (In("clearing") # {})
            /\ CASE op = "start" -> Goto("admit", op)
                 [] op = "startFailed" -> Goto("closeHanded", op)
                 [] OTHER -> Goto("finish", "none")
  /\ UNCHANGED <<custody, shell, shellUnbinds, flight, egress, restartPending>>

\* The kept device provides, under a monitor of its own; without one it is
\* retired.
ResumeProvidingLocked ==
  /\ pc = "resume"
  /\ \E d \in In("back") : Move(d, "provider")
  /\ \/ Update(FALSE) /\ Goto("finish", "none")
     \/ UNCHANGED egress /\ Goto("retire", "undo")
  /\ UNCHANGED <<workers, flight, restartPending>>

\* Mutant: the start is admitted while an abandoned teardown holds a device.
Admit_IgnoresHeld ==
  /\ pc = "admit"
  /\ \/ restartPending /\ Goto("closeHanded", op)
     \/ ~restartPending /\ Goto("bind", op)
  /\ UNCHANGED <<custody, workers, flight, egress, restartPending>>

\* StartLocked's refusals: a process that is restarting, and a device that is
\* still held, which asks for the restart (a console run has nobody to do it).
Admit ==
  /\ pc = "admit"
  /\ \/ /\ restartPending \/ Outstanding
        /\ restartPending' \in IF restartPending THEN {TRUE} ELSE BOOLEAN
        /\ Goto("closeHanded", op)
     \/ /\ ~restartPending /\ ~Outstanding
        /\ Goto("bind", op)
        /\ UNCHANGED restartPending
  /\ UNCHANGED <<custody, workers, flight, egress>>

\* Steps 1/8 and 2/8: the adapter, which may fail, and the session's monitor with
\* its first reading. The start goes on although that found no interface.
BindEgress ==
  /\ pc = "bind"
  /\ \/ Update(FALSE) /\ Goto("device", op)
     \/ UNCHANGED egress /\ Goto("retire", "startFailed")
  /\ UNCHANGED <<custody, workers, flight, restartPending>>

\* Steps 3/8 and 4/8: the device taken over from providing, or a new one. A
\* failure here or later unwinds through StopLocked.
DeviceStep ==
  /\ pc = "device"
  /\ \/ /\ \/ \E d \in In("handed") : Move(d, "session")
           \/ In("handed") = {} /\ \E d \in Fresh : Move(d, "session")
        /\ Goto("finish", "none") \/ Goto("retire", "startFailed")
     \/ UNCHANGED custody /\ Goto("retire", "startFailed")
  /\ UNCHANGED <<workers, flight, egress, restartPending>>

\* HandedOffGuard: the device a start took and did not use is closed.
CloseHandedOffDeviceLocked ==
  /\ pc = "closeHanded" /\ ~Waiting
  /\ \/ \E d \in In("handed") : RunBounded(d, "closing", "handed", "lock")
     \/ In("handed") = {} /\ UNCHANGED custody
  /\ Goto("finish", "none")
  /\ UNCHANGED <<workers, flight, egress, restartPending>>

\* StartProvider's build: bind, import the space, build the device, apply the
\* mode. A failure retires what there is: the device, or a worker with the space.
BuildProviderDevice ==
  /\ pc = "provide" /\ ~Waiting
  /\ \/ /\ Update(FALSE)
        /\ \E d \in Fresh : Move(d, "provider")
        /\ Goto("finish", "none") \/ Goto("retire", "undo")
        /\ UNCHANGED <<shell, shellUnbinds>>
     \/ /\ Update(FALSE)
        /\ shell' = "lock" /\ shellUnbinds' = TRUE
        /\ UNCHANGED custody /\ Goto("finish", "none")
     \/ /\ Update(FALSE) \/ UNCHANGED egress
        /\ UNCHANGED <<custody, shell, shellUnbinds>> /\ Goto("finish", "none")
  /\ UNCHANGED <<abandoned, flight, restartPending>>

\* UploadLogs' standalone device and its upload; a failure closes the device.
BuildLogUploadDevice ==
  /\ pc = "uploadDevice" /\ ~Waiting
  /\ \/ /\ \E d \in Fresh : Move(d, "log") /\ call' = d
        /\ Goto("finish", "none") /\ UNCHANGED running
     \/ /\ \/ (\E d \in Fresh : Move(d, "log")) /\ Goto("retireLog", "undo")
           \/ UNCHANGED custody /\ Goto("finish", "none")
        /\ running' = FALSE /\ UNCHANGED call
  /\ UNCHANGED <<workers, releasing, egress, restartPending>>

\* The operation returns and the lock is free.
Unlock ==
  /\ pc = "finish" /\ ~Waiting
  /\ Goto("free", "none")
  /\ UNCHANGED <<custody, workers, flight, egress, restartPending>>

\* RunBounded's deadline: the worker is abandoned and its gate registered.
RunBoundedExpires ==
  /\ Waiting
  /\ gate' = [d \in Devices |-> IF gate[d] = "lock" THEN "held" ELSE gate[d]]
  /\ shell' = IF shell = "lock" THEN "held" ELSE shell
  /\ UNCHANGED <<where, by, shellUnbinds, abandoned, flight, control, egress, restartPending>>

-----------------------------------------------------------------------------
(* The teardown workers. Any of these calls into the sdk may never return. *)

\* Mutant: a worker hands the device back to a caller that has left.
WorkerClears_LateHandback(d) ==
  /\ where[d] = "clearing"
  /\ where' = [where EXCEPT ![d] = "back"]
  /\ gate' = [gate EXCEPT ![d] = "none"]
  /\ by' = [by EXCEPT ![d] = "nobody"]
  /\ shell' = gate[d] /\ shellUnbinds' = FALSE
  /\ abandoned' = FALSE
  /\ UNCHANGED <<flight, control, egress, restartPending>>

\* The worker of a disconnect that keeps the device has taken the session off it,
\* or failed to: the device goes back only to a caller that has not left.
WorkerClears(d) ==
  /\ where[d] = "clearing"
  /\ \/ /\ ~abandoned
        /\ where' = [where EXCEPT ![d] = "back"]
        /\ gate' = [gate EXCEPT ![d] = "none"]
        /\ by' = [by EXCEPT ![d] = "nobody"]
        /\ shell' = gate[d] /\ shellUnbinds' = FALSE
        /\ UNCHANGED bound
     \/ /\ Move(d, "closing")
        /\ bound' = FALSE
        /\ UNCHANGED <<shell, shellUnbinds>>
  /\ abandoned' = FALSE
  /\ UNCHANGED <<current, exposed, flight, control, restartPending>>

\* A session's worker resets the egress binding before it closes the device.
WorkerUnbinds(d) ==
  /\ where[d] = "ending"
  /\ Move(d, "closing")
  /\ bound' = FALSE
  /\ UNCHANGED <<current, exposed, workers, flight, control, restartPending>>

\* device->close() returns.
WorkerCloses(d) ==
  /\ where[d] = "closing"
  /\ Move(d, "closed")
  /\ UNCHANGED <<workers, flight, control, egress, restartPending>>

\* Mutant: the worker releases the device an upload's call is on.
WorkerReleases_UnderCall(d) ==
  /\ where[d] = "closed"
  /\ Move(d, "none")
  /\ UNCHANGED <<workers, flight, control, egress, restartPending>>

\* KeepUntilReturned: the flight keeps a device an upload's call is on.
WorkerReleases(d) ==
  /\ where[d] = "closed"
  /\ Move(d, IF call = d THEN "flight" ELSE "none")
  /\ UNCHANGED <<workers, flight, control, egress, restartPending>>

\* Mutant: the log upload device's worker resets the egress binding as well.
WorkerFinishes_AlwaysUnbinds(d) ==
  /\ gate[d] # "none" /\ where[d] \in {"none", "flight"}
  /\ bound' = FALSE
  /\ gate' = [gate EXCEPT ![d] = "none"]
  /\ by' = [by EXCEPT ![d] = "nobody"]
  /\ UNCHANGED <<where, current, exposed, workers, flight, control, restartPending>>

\* Everything the worker owned is destroyed and its gate is done. The retire of a
\* provider-only device, in either place, resets the egress binding last.
WorkerFinishes(d) ==
  /\ gate[d] # "none" /\ where[d] \in {"none", "flight"}
  /\ bound' = IF by[d] \in {"provider", "handed"} THEN FALSE ELSE bound
  /\ gate' = [gate EXCEPT ![d] = "none"]
  /\ by' = [by EXCEPT ![d] = "nobody"]
  /\ UNCHANGED <<where, current, exposed, workers, flight, control, restartPending>>

ShellFinishes ==
  /\ shell # "none"
  /\ shell' = "none" /\ shellUnbinds' = FALSE
  /\ bound' = IF shellUnbinds THEN FALSE ELSE bound
  /\ UNCHANGED <<custody, current, exposed, abandoned, flight, control, restartPending>>

-----------------------------------------------------------------------------
(* The log upload's threads and the egress monitor.                        *)

\* Mutant: the waiter waits for the report alone.
WaiterTakes_OnReport(d) ==
  /\ where[d] = "log" /\ op # "undo" /\ ~running
  /\ RunBounded(d, "closing", "waiter", "waiter")
  /\ UNCHANGED <<workers, flight, control, egress, restartPending>>

\* The waiter takes its device when the upload has reported or its lifetime is
\* over, whoever holds mutex_; a device whose upload failed to start has none ...
WaiterTakes(d) ==
  /\ where[d] = "log" /\ op # "undo"
  /\ RunBounded(d, "closing", "waiter", "waiter")
  /\ UNCHANGED <<workers, flight, control, egress, restartPending>>

\* ... and its own bounded wait may expire.
WaiterExpires(d) ==
  /\ gate[d] = "waiter"
  /\ gate' = [gate EXCEPT ![d] = "held"]
  /\ UNCHANGED <<where, by, workers, flight, control, egress, restartPending>>

\* Finish, or the flight giving up on a silent upload.
UploadEnds ==
  /\ running /\ op # "upload"
  /\ running' = FALSE
  /\ UNCHANGED <<custody, workers, call, releasing, control, egress, restartPending>>

\* The sdk's call returns (Returned), and the device kept for it is released.
UploadReturns ==
  /\ call # NoDevice
  /\ call' = NoDevice /\ releasing' = TRUE
  /\ UNCHANGED <<custody, workers, running, control, egress, restartPending>>

UploadReleases ==
  /\ releasing
  /\ releasing' = FALSE
  /\ where' = [d \in Devices |-> IF where[d] = "flight" THEN "none" ELSE where[d]]
  /\ UNCHANGED <<gate, by, workers, call, running, control, egress, restartPending>>

\* A notification: the monitor of the session, or of the provider-only device,
\* reads again, from the moment it was started.
MonitorObserves ==
  /\ pc = "device" \/ In("session") \cup In("provider") # {}
  /\ Update(current)
  /\ UNCHANGED <<custody, workers, flight, control, restartPending>>

\* So does a monitor its teardown's worker has not stopped yet, from a current_ of
\* its own: whatever it finds is bound, or unbound.
LateMonitorObserves ==
  /\ \/ shell # "none" /\ shellUnbinds
     \/ \E d \in Devices :
          where[d] \in {"clearing", "ending"} \/ (where[d] = "closing" /\ by[d] = "provider")
  /\ bound' \in BOOLEAN
  /\ UNCHANGED <<current, exposed, custody, workers, flight, control, restartPending>>

-----------------------------------------------------------------------------

Requests ==
  StartProvider \/ StopProvider \/ StopLocked \/ StartLocked \/ UploadLogs

\* The steps the holder of the lock takes by itself.
LockHolder ==
  \/ RetireProviderDeviceLocked \/ RetireLogUploadDeviceLocked
  \/ TearDownSessionLocked \/ TakeHandback \/ ResumeProvidingLocked
  \/ Admit \/ BindEgress \/ DeviceStep \/ CloseHandedOffDeviceLocked
  \/ BuildProviderDevice \/ BuildLogUploadDevice \/ Unlock \/ RunBoundedExpires

Worker(d) ==
  \/ WorkerClears(d) \/ WorkerUnbinds(d) \/ WorkerCloses(d)
  \/ WorkerReleases(d) \/ WorkerFinishes(d)

Waiter(d) == WaiterTakes(d) \/ WaiterExpires(d)

Upload == UploadEnds \/ UploadReturns \/ UploadReleases

Next ==
  \/ Requests \/ LockHolder
  \/ \E d \in Devices : Worker(d) \/ Waiter(d)
  \/ ShellFinishes \/ Upload \/ MonitorObserves \/ LateMonitorObserves

Spec == Init /\ [][Next]_vars

\* The lock holder runs, its bounded waits end, and so does the waiter's timed
\* wait. Nothing is assumed of the sdk calls the workers and the upload make.
Fairness == WF_vars(LockHolder) /\ \A d \in Devices : WF_vars(Waiter(d))

FairSpec == Spec /\ Fairness

-----------------------------------------------------------------------------
(* Properties.                                                             *)

TypeOK ==
  /\ where \in [Devices -> Places]
  /\ gate \in [Devices -> Gates]
  /\ by \in [Devices -> Teardowns]
  /\ shell \in {"none", "lock", "held"}
  /\ shellUnbinds \in BOOLEAN /\ abandoned \in BOOLEAN
  /\ bound \in BOOLEAN /\ current \in BOOLEAN /\ exposed \in BOOLEAN
  /\ restartPending \in BOOLEAN
  /\ call \in Devices \cup {NoDevice}
  /\ releasing \in BOOLEAN /\ running \in BOOLEAN
  /\ pc \in Steps /\ op \in Operations

\* The custody DeviceCustody describes: a device is open while a role, a start, a
\* waiting upload or an undecided handback has it, and closing from the moment it
\* is a teardown's to close until its object is released.
life ==
  [d \in Devices |-> IF where[d] \in OpenPlaces THEN "open"
                     ELSE IF where[d] \in ClosingPlaces THEN "closing" ELSE "none"]

Custody == INSTANCE DeviceCustody WITH life <- life

\* The controller implements the custody of one identity: whatever the order of
\* requests, retires, handbacks and abandoned workers, one device at most is open,
\* none comes back from a teardown, and none is released unclosed.
OneIdentityCustody == Custody!Spec

\* An upload's call never runs on a released device: every teardown that closes a
\* device while the call is on it leaves the object to the flight (LogUpload.h).
CallDeviceIsAlive == call # NoDevice => where[call] # "none"

\* While a session has its device no teardown of an earlier one is outstanding,
\* so no late worker works beside it; the log upload waiter's own is the exception.
SessionBesideNoTeardown ==
  In("session") # {} =>
    /\ shell = "none"
    /\ \A d \in Devices : gate[d] # "none" => by[d] = "waiter"

\* A teardown other than a log upload waiter's has not reported done.
TeardownPending == shell # "none" \/ \E d \in Devices : gate[d] # "none" /\ by[d] # "waiter"

Admission == INSTANCE DeviceAdmission
               WITH session <- In("session") # {}, held <- TeardownPending,
                    restart <- restartPending

\* The admission DeviceAdmission describes, with every device of the service in
\* play: whatever providers, uploads, handbacks and abandoned workers do, a session
\* gets a device only with no teardown pending and no restart under way, none
\* becomes pending beside it, and a restart asked for is not forgotten.
DevicesAreAdmitted == Admission!Spec

\* A session's device is bound to a physical interface (R1) unless its own monitor
\* had none to bind at its last reading: no earlier teardown's worker or monitor,
\* however late, takes the binding away, and a default route that is lost does not
\* while the interface exists (EgressMonitor::Update).
SessionStaysBound == In("session") # {} => bound \/ exposed

\* A standalone log upload device is given up, though its upload never reports.
LogDeviceIsRetired == \A d \in Devices : where[d] = "log" ~> where[d] # "log"
=============================================================================
