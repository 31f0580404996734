------------------------ MODULE SessionDevices_proofs ------------------------
(***************************************************************************)
(* Proofs about SessionDevices, for every set of device objects. The       *)
(* inductive invariant adds to the type                                    *)
(*   PlaceInv  at which step of which operation a device may be in a role; *)
(*   GateInv   which teardown has a device and that its gate is not done;  *)
(*   LockInv   the steps at which the lock holder waits for no worker;     *)
(*   OneOpen   at most one device is open;                                 *)
(*   QuietInv  no earlier teardown is outstanding beside a session;        *)
(*   BoundInv  a session is bound unless its monitor had nothing to bind;  *)
(*   CallInv   the device of an upload's call exists, and only that one is *)
(*             kept by the flight.                                         *)
(* RestartInv (a start past its admission is in a process that does not    *)
(* restart) is inductive beside it, for the refinement of DeviceAdmission. *)
(***************************************************************************)
EXTENDS SessionDevices, TLAPS

FlagsOK ==
  /\ shellUnbinds \in BOOLEAN /\ abandoned \in BOOLEAN
  /\ bound \in BOOLEAN /\ current \in BOOLEAN /\ exposed \in BOOLEAN
  /\ restartPending \in BOOLEAN
  /\ releasing \in BOOLEAN /\ running \in BOOLEAN

ShapesOK ==
  /\ where \in [Devices -> Places]
  /\ gate \in [Devices -> Gates]
  /\ by \in [Devices -> Teardowns]
  /\ shell \in {"none", "lock", "held"}
  /\ call \in Devices \cup {NoDevice}
  /\ pc \in Steps /\ op \in Operations

PlaceInv ==
  /\ pc \in {"free", "finish"} => op = "none"
  /\ pc = "retire" =>
       op \in {"startProvider", "stopProvider", "undo", "start", "startFailed", "stop",
               "disconnect"}
  /\ pc = "retireLog" =>
       op \in {"startProvider", "upload", "undo", "start", "startFailed", "stop", "disconnect"}
  /\ pc \in {"tear", "torn"} => op \in {"start", "startFailed", "stop", "disconnect"}
  /\ pc \in {"admit", "bind", "device"} => op = "start"
  /\ pc = "closeHanded" => op \in {"start", "startFailed"}
  /\ pc = "resume" => op = "disconnect"
  /\ pc = "provide" => op = "startProvider"
  /\ pc = "uploadDevice" => op = "upload"
  /\ \A d \in Devices :
       /\ where[d] = "session" =>
            \/ pc \in {"free", "finish"}
            \/ pc \in {"retire", "retireLog", "tear"} /\ op \notin {"startProvider", "upload", "undo"}
       /\ where[d] = "provider" => pc \in {"free", "finish", "retire"}
       /\ where[d] = "log" => pc \in {"free", "finish", "retire", "retireLog"}
       /\ where[d] = "handed" =>
            /\ op \in {"start", "startFailed"}
            /\ pc \in {"retire", "retireLog", "tear", "torn", "admit", "bind", "device",
                       "closeHanded"}
       /\ where[d] = "back" => pc \in {"torn", "resume"} /\ op = "disconnect"
       /\ where[d] = "clearing" =>
            /\ pc \notin {"bind", "device", "resume"} /\ op \notin {"startProvider", "upload"}
            /\ (pc = "torn" /\ op = "disconnect") \/ abandoned

GateInv ==
  /\ abandoned => \E d \in Devices : where[d] = "clearing"
  /\ \A d \in Devices :
       /\ gate[d] = "waiter" => by[d] = "waiter"
       /\ where[d] \in {"clearing", "ending"} => gate[d] \in {"lock", "held"} /\ by[d] = "session"
       /\ where[d] \in {"closing", "closed"} => gate[d] # "none"
       /\ where[d] = "clearing" /\ (abandoned \/ pc # "torn") => gate[d] = "held"

LockInv == pc \in {"free", "resume", "admit", "bind", "device"} => ~Waiting

OneOpen ==
  \A d, e \in Devices : where[d] \in OpenPlaces /\ where[e] \in OpenPlaces => d = e

Quiet == shell = "none" /\ \A d \in Devices : gate[d] # "none" => by[d] = "waiter"

QuietInv == pc \in {"bind", "device"} \/ In("session") # {} => Quiet

BoundInv == pc = "device" \/ In("session") # {} => bound \/ exposed

CallInv ==
  /\ call # NoDevice => where[call] # "none"
  /\ releasing => call = NoDevice
  /\ op = "upload" => call = NoDevice /\ ~releasing
  /\ \A d \in Devices : where[d] = "flight" =>
       /\ call = d \/ releasing
       /\ \A e \in Devices : where[e] = "flight" => d = e

-----------------------------------------------------------------------------

\* A reading leaves the sdk's egress bound, or the monitor had nothing to bind.
LEMMA UpdateBinds ==
  ASSUME NEW held \in BOOLEAN, Update(held)
  PROVE  /\ bound' \in BOOLEAN /\ current' \in BOOLEAN /\ exposed' \in BOOLEAN
         /\ bound' \/ exposed'
<1>1. PICK reading \in Readings :
        /\ current' = (reading = "route" \/ (reading = "noRoute" /\ held))
        /\ bound' = current'
        /\ exposed' = (reading = "gone" \/ (reading = "noRoute" /\ ~held))
  BY DEF Update
<1>2. reading \in {"route", "noRoute", "gone"}
  BY <1>1 DEF Readings
<1> QED
  BY <1>1, <1>2, Zenon

\* The Boolean flags keep their type.
LEMMA FlagsStep == FlagsOK /\ [Next]_vars => FlagsOK'
<1> SUFFICES ASSUME FlagsOK, [Next]_vars PROVE FlagsOK'
  OBVIOUS
<1>1. CASE StartProvider
  BY <1>1, Zenon DEF StartProvider, Goto, custody, workers, flight, control, egress, FlagsOK
<1>2. CASE StopProvider
  BY <1>2, Zenon DEF StopProvider, Goto, custody, workers, flight, control, egress, FlagsOK
<1>3. CASE StopLocked
  BY <1>3, Zenon DEF StopLocked, Goto, custody, workers, flight, control, egress, FlagsOK
<1>4. CASE StartLocked
  BY <1>4, Zenon DEF StartLocked, Goto, Move, custody, workers, flight, control, egress, FlagsOK
<1>5. CASE UploadLogs
  BY <1>5, Zenon DEF UploadLogs, Goto, custody, workers, flight, control, egress, FlagsOK
<1>6. CASE RetireProviderDeviceLocked
  BY <1>6, Zenon
  DEF RetireProviderDeviceLocked, Goto, RunBounded, custody, workers, flight, control, egress,
      FlagsOK
<1>7. CASE RetireLogUploadDeviceLocked
  BY <1>7, Zenon
  DEF RetireLogUploadDeviceLocked, Goto, RunBounded, custody, workers, flight, control, egress,
      FlagsOK
<1>8. CASE TearDownSessionLocked
  BY <1>8, Zenon
  DEF TearDownSessionLocked, Goto, RunBounded, custody, workers, flight, control, egress, FlagsOK
<1>9. CASE TakeHandback
  BY <1>9, Zenon DEF TakeHandback, Goto, custody, workers, flight, control, egress, FlagsOK
<1>10. CASE ResumeProvidingLocked
  BY <1>10, UpdateBinds, Zenon
  DEF ResumeProvidingLocked, Goto, Move, custody, workers, flight, control, egress, FlagsOK
<1>11. CASE Admit
  BY <1>11, Zenon DEF Admit, Goto, custody, workers, flight, control, egress, FlagsOK
<1>12. CASE BindEgress
  BY <1>12, UpdateBinds, Zenon
  DEF BindEgress, Goto, custody, workers, flight, control, egress, FlagsOK
<1>13. CASE DeviceStep
  BY <1>13, Zenon
  DEF DeviceStep, Goto, Move, Fresh, custody, workers, flight, control, egress, FlagsOK
<1>14. CASE CloseHandedOffDeviceLocked
  BY <1>14, Zenon
  DEF CloseHandedOffDeviceLocked, Goto, RunBounded, custody, workers, flight, control, egress,
      FlagsOK
<1>15. CASE BuildProviderDevice
  BY <1>15, UpdateBinds, Zenon
  DEF BuildProviderDevice, Goto, Move, Fresh, custody, workers, flight, control, egress, FlagsOK
<1>16. CASE BuildLogUploadDevice
  BY <1>16, Zenon
  DEF BuildLogUploadDevice, Goto, Move, Fresh, custody, workers, flight, control, egress, FlagsOK
<1>17. CASE Unlock
  BY <1>17, Zenon DEF Unlock, Goto, custody, workers, flight, control, egress, FlagsOK
<1>18. CASE RunBoundedExpires
  BY <1>18, Zenon DEF RunBoundedExpires, custody, workers, flight, control, egress, FlagsOK
<1>19. CASE ShellFinishes
  BY <1>19, Zenon DEF ShellFinishes, custody, workers, flight, control, egress, FlagsOK
<1>20. CASE UploadEnds
  BY <1>20, Zenon DEF UploadEnds, custody, workers, flight, control, egress, FlagsOK
<1>21. CASE UploadReturns
  BY <1>21, Zenon DEF UploadReturns, custody, workers, flight, control, egress, FlagsOK
<1>22. CASE UploadReleases
  BY <1>22, Zenon DEF UploadReleases, custody, workers, flight, control, egress, FlagsOK
<1>23. CASE MonitorObserves
  BY <1>23, UpdateBinds, Zenon
  DEF MonitorObserves, custody, workers, flight, control, egress, FlagsOK
<1>24. ASSUME NEW d \in Devices, WorkerClears(d) PROVE FlagsOK'
  BY <1>24, Zenon DEF WorkerClears, Move, custody, workers, flight, control, egress, FlagsOK
<1>25. ASSUME NEW d \in Devices, WorkerUnbinds(d) PROVE FlagsOK'
  BY <1>25, Zenon DEF WorkerUnbinds, Move, custody, workers, flight, control, egress, FlagsOK
<1>26. ASSUME NEW d \in Devices, WorkerCloses(d) PROVE FlagsOK'
  BY <1>26, Zenon DEF WorkerCloses, Move, custody, workers, flight, control, egress, FlagsOK
<1>27. ASSUME NEW d \in Devices, WorkerReleases(d) PROVE FlagsOK'
  BY <1>27, Zenon DEF WorkerReleases, Move, custody, workers, flight, control, egress, FlagsOK
<1>28. ASSUME NEW d \in Devices, WorkerFinishes(d) PROVE FlagsOK'
  BY <1>28, Zenon DEF WorkerFinishes, custody, workers, flight, control, egress, FlagsOK
<1>29. ASSUME NEW d \in Devices, WaiterTakes(d) PROVE FlagsOK'
  BY <1>29, Zenon DEF WaiterTakes, RunBounded, custody, workers, flight, control, egress, FlagsOK
<1>30. ASSUME NEW d \in Devices, WaiterExpires(d) PROVE FlagsOK'
  BY <1>30, Zenon DEF WaiterExpires, custody, workers, flight, control, egress, FlagsOK
<1>31. CASE UNCHANGED vars
  BY <1>31, Zenon DEF vars, custody, workers, flight, control, egress, FlagsOK
<1>32. CASE LateMonitorObserves
  BY <1>32, Zenon DEF LateMonitorObserves, custody, workers, flight, control, egress, FlagsOK
<1> QED
  BY <1>1, <1>2, <1>3, <1>4, <1>5, <1>6, <1>7, <1>8, <1>9, <1>10, <1>11, <1>12, <1>13,
     <1>14, <1>15, <1>16, <1>17, <1>18, <1>19, <1>20, <1>21, <1>22, <1>23, <1>24, <1>25,
     <1>26, <1>27, <1>28, <1>29, <1>30, <1>31, <1>32
  DEF Next, Requests, LockHolder, Worker, Waiter, Upload

\* The other variables keep theirs; what a handback leaves behind is waited for on
\* the lock or held.
LEMMA ShapesStep == ShapesOK /\ GateInv /\ PlaceInv /\ [Next]_vars => ShapesOK'
<1> SUFFICES ASSUME ShapesOK, GateInv, PlaceInv, [Next]_vars PROVE ShapesOK'
  OBVIOUS
<1>1. CASE StartProvider
  BY <1>1
  DEF StartProvider, Goto, custody, workers, flight, control, ShapesOK, Places, OpenPlaces,
      ClosingPlaces, Gates, Teardowns, Steps, Operations, In, GateInv, PlaceInv
<1>2. CASE StopProvider
  BY <1>2
  DEF StopProvider, Goto, custody, workers, flight, control, ShapesOK, Places, OpenPlaces,
      ClosingPlaces, Gates, Teardowns, Steps, Operations, In, GateInv, PlaceInv
<1>3. CASE StopLocked
  BY <1>3
  DEF StopLocked, Goto, custody, workers, flight, control, ShapesOK, Places, OpenPlaces,
      ClosingPlaces, Gates, Teardowns, Steps, Operations, In, GateInv, PlaceInv
<1>4. CASE StartLocked
  BY <1>4
  DEF StartLocked, Goto, Move, custody, workers, flight, control, ShapesOK, Places,
      OpenPlaces, ClosingPlaces, Gates, Teardowns, Steps, Operations, In, GateInv, PlaceInv
<1>5. CASE UploadLogs
  BY <1>5
  DEF UploadLogs, Goto, custody, workers, flight, control, ShapesOK, Places, OpenPlaces,
      ClosingPlaces, Gates, Teardowns, Steps, Operations, In, GateInv, PlaceInv
<1>6. CASE RetireProviderDeviceLocked
  BY <1>6
  DEF RetireProviderDeviceLocked, Goto, RunBounded, custody, workers, flight, control,
      ShapesOK, Places, OpenPlaces, ClosingPlaces, Gates, Teardowns, Steps, Operations, In,
      GateInv, PlaceInv
<1>7. CASE RetireLogUploadDeviceLocked
  BY <1>7
  DEF RetireLogUploadDeviceLocked, Goto, RunBounded, custody, workers, flight, control,
      ShapesOK, Places, OpenPlaces, ClosingPlaces, Gates, Teardowns, Steps, Operations, In,
      GateInv, PlaceInv
<1>8. CASE TearDownSessionLocked
  BY <1>8
  DEF TearDownSessionLocked, Goto, RunBounded, custody, workers, flight, control, ShapesOK,
      Places, OpenPlaces, ClosingPlaces, Gates, Teardowns, Steps, Operations, In, GateInv,
      PlaceInv
<1>9. CASE TakeHandback
  BY <1>9
  DEF TakeHandback, Goto, custody, workers, flight, control, ShapesOK, Places, OpenPlaces,
      ClosingPlaces, Gates, Teardowns, Steps, Operations, In, GateInv, PlaceInv, Waiting
<1>10. CASE ResumeProvidingLocked
  BY <1>10
  DEF ResumeProvidingLocked, Goto, Move, custody, workers, flight, control, ShapesOK,
      Places, OpenPlaces, ClosingPlaces, Gates, Teardowns, Steps, Operations, In, GateInv,
      PlaceInv
<1>11. CASE Admit
  BY <1>11
  DEF Admit, Goto, custody, workers, flight, control, ShapesOK, Places, OpenPlaces,
      ClosingPlaces, Gates, Teardowns, Steps, Operations, In, GateInv, PlaceInv
<1>12. CASE BindEgress
  BY <1>12
  DEF BindEgress, Goto, custody, workers, flight, control, ShapesOK, Places, OpenPlaces,
      ClosingPlaces, Gates, Teardowns, Steps, Operations, In, GateInv, PlaceInv
<1>13. CASE DeviceStep
  BY <1>13
  DEF DeviceStep, Goto, Move, Fresh, custody, workers, flight, control, ShapesOK, Places,
      OpenPlaces, ClosingPlaces, Gates, Teardowns, Steps, Operations, In, GateInv, PlaceInv
<1>14. CASE CloseHandedOffDeviceLocked
  BY <1>14
  DEF CloseHandedOffDeviceLocked, Goto, RunBounded, custody, workers, flight, control,
      ShapesOK, Places, OpenPlaces, ClosingPlaces, Gates, Teardowns, Steps, Operations, In,
      GateInv, PlaceInv
<1>15. CASE BuildProviderDevice
  BY <1>15
  DEF BuildProviderDevice, Goto, Move, Fresh, custody, workers, flight, control, ShapesOK,
      Places, OpenPlaces, ClosingPlaces, Gates, Teardowns, Steps, Operations, In, GateInv,
      PlaceInv
<1>16. CASE BuildLogUploadDevice
  BY <1>16
  DEF BuildLogUploadDevice, Goto, Move, Fresh, custody, workers, flight, control, ShapesOK,
      Places, OpenPlaces, ClosingPlaces, Gates, Teardowns, Steps, Operations, In, GateInv,
      PlaceInv
<1>17. CASE Unlock
  BY <1>17
  DEF Unlock, Goto, custody, workers, flight, control, ShapesOK, Places, OpenPlaces,
      ClosingPlaces, Gates, Teardowns, Steps, Operations, In, GateInv, PlaceInv
<1>18. CASE RunBoundedExpires
  BY <1>18
  DEF RunBoundedExpires, custody, workers, flight, control, ShapesOK, Places, OpenPlaces,
      ClosingPlaces, Gates, Teardowns, Steps, Operations, In, GateInv, PlaceInv
<1>19. CASE ShellFinishes
  BY <1>19
  DEF ShellFinishes, custody, workers, flight, control, ShapesOK, Places, OpenPlaces,
      ClosingPlaces, Gates, Teardowns, Steps, Operations, In, GateInv, PlaceInv
<1>20. CASE UploadEnds
  BY <1>20
  DEF UploadEnds, custody, workers, flight, control, ShapesOK, Places, OpenPlaces,
      ClosingPlaces, Gates, Teardowns, Steps, Operations, In, GateInv, PlaceInv
<1>21. CASE UploadReturns
  BY <1>21
  DEF UploadReturns, custody, workers, flight, control, ShapesOK, Places, OpenPlaces,
      ClosingPlaces, Gates, Teardowns, Steps, Operations, In, GateInv, PlaceInv
<1>22. CASE UploadReleases
  BY <1>22
  DEF UploadReleases, custody, workers, flight, control, ShapesOK, Places, OpenPlaces,
      ClosingPlaces, Gates, Teardowns, Steps, Operations, In, GateInv, PlaceInv
<1>23. CASE MonitorObserves
  BY <1>23
  DEF MonitorObserves, custody, workers, flight, control, ShapesOK, Places, OpenPlaces,
      ClosingPlaces, Gates, Teardowns, Steps, Operations, In, GateInv, PlaceInv
<1>24. ASSUME NEW d \in Devices, WorkerClears(d) PROVE ShapesOK'
  BY <1>24
  DEF WorkerClears, Move, custody, workers, flight, control, ShapesOK, Places, OpenPlaces,
      ClosingPlaces, Gates, Teardowns, Steps, Operations, In, GateInv, PlaceInv
<1>25. ASSUME NEW d \in Devices, WorkerUnbinds(d) PROVE ShapesOK'
  BY <1>25
  DEF WorkerUnbinds, Move, custody, workers, flight, control, ShapesOK, Places, OpenPlaces,
      ClosingPlaces, Gates, Teardowns, Steps, Operations, In, GateInv, PlaceInv
<1>26. ASSUME NEW d \in Devices, WorkerCloses(d) PROVE ShapesOK'
  BY <1>26
  DEF WorkerCloses, Move, custody, workers, flight, control, ShapesOK, Places, OpenPlaces,
      ClosingPlaces, Gates, Teardowns, Steps, Operations, In, GateInv, PlaceInv
<1>27. ASSUME NEW d \in Devices, WorkerReleases(d) PROVE ShapesOK'
  BY <1>27
  DEF WorkerReleases, Move, custody, workers, flight, control, ShapesOK, Places, OpenPlaces,
      ClosingPlaces, Gates, Teardowns, Steps, Operations, In, GateInv, PlaceInv
<1>28. ASSUME NEW d \in Devices, WorkerFinishes(d) PROVE ShapesOK'
  BY <1>28
  DEF WorkerFinishes, custody, workers, flight, control, ShapesOK, Places, OpenPlaces,
      ClosingPlaces, Gates, Teardowns, Steps, Operations, In, GateInv, PlaceInv
<1>29. ASSUME NEW d \in Devices, WaiterTakes(d) PROVE ShapesOK'
  BY <1>29
  DEF WaiterTakes, RunBounded, custody, workers, flight, control, ShapesOK, Places,
      OpenPlaces, ClosingPlaces, Gates, Teardowns, Steps, Operations, In, GateInv, PlaceInv
<1>30. ASSUME NEW d \in Devices, WaiterExpires(d) PROVE ShapesOK'
  BY <1>30
  DEF WaiterExpires, custody, workers, flight, control, ShapesOK, Places, OpenPlaces,
      ClosingPlaces, Gates, Teardowns, Steps, Operations, In, GateInv, PlaceInv
<1>31. CASE UNCHANGED vars
  BY <1>31
  DEF vars, custody, workers, flight, control, ShapesOK, Places, OpenPlaces, ClosingPlaces,
      Gates, Teardowns, Steps, Operations, In, GateInv, PlaceInv
<1>32. CASE LateMonitorObserves
  BY <1>32
  DEF LateMonitorObserves, custody, workers, flight, control, ShapesOK, Places, OpenPlaces,
      ClosingPlaces, Gates, Teardowns, Steps, Operations, In, GateInv, PlaceInv
<1> QED
  BY <1>1, <1>2, <1>3, <1>4, <1>5, <1>6, <1>7, <1>8, <1>9, <1>10, <1>11, <1>12, <1>13,
     <1>14, <1>15, <1>16, <1>17, <1>18, <1>19, <1>20, <1>21, <1>22, <1>23, <1>24, <1>25,
     <1>26, <1>27, <1>28, <1>29, <1>30, <1>31, <1>32
  DEF Next, Requests, LockHolder, Worker, Waiter, Upload

\* Where a device may be while the lock holder is at a step.
LEMMA PlaceStep ==
  PlaceInv /\ ShapesOK /\ GateInv /\ LockInv /\ OneOpen /\ [Next]_vars => PlaceInv'
<1> SUFFICES ASSUME PlaceInv, ShapesOK, GateInv, LockInv, OneOpen, [Next]_vars PROVE PlaceInv'
  OBVIOUS
<1>1. CASE StartProvider
  BY <1>1
  DEF StartProvider, Goto, custody, workers, flight, control, PlaceInv, GateInv, LockInv,
      OneOpen, ShapesOK, OpenPlaces, In, Waiting, Outstanding
<1>2. CASE StopProvider
  BY <1>2
  DEF StopProvider, Goto, custody, workers, flight, control, PlaceInv, GateInv, LockInv,
      OneOpen, ShapesOK, OpenPlaces, In, Waiting, Outstanding
<1>3. CASE StopLocked
  BY <1>3
  DEF StopLocked, Goto, custody, workers, flight, control, PlaceInv, GateInv, LockInv,
      OneOpen, ShapesOK, OpenPlaces, In, Waiting, Outstanding
<1>4. CASE StartLocked
  BY <1>4
  DEF StartLocked, Goto, Move, custody, workers, flight, control, PlaceInv, GateInv,
      LockInv, OneOpen, ShapesOK, OpenPlaces, In, Waiting, Outstanding
<1>5. CASE UploadLogs
  BY <1>5
  DEF UploadLogs, Goto, custody, workers, flight, control, PlaceInv, GateInv, LockInv,
      OneOpen, ShapesOK, OpenPlaces, In, Waiting, Outstanding
<1>6. CASE RetireProviderDeviceLocked
  BY <1>6
  DEF RetireProviderDeviceLocked, Goto, RunBounded, custody, workers, flight, control,
      PlaceInv, GateInv, LockInv, OneOpen, ShapesOK, OpenPlaces, In, Waiting, Outstanding
<1>7. CASE RetireLogUploadDeviceLocked
  BY <1>7
  DEF RetireLogUploadDeviceLocked, Goto, RunBounded, custody, workers, flight, control,
      PlaceInv, GateInv, LockInv, OneOpen, ShapesOK, OpenPlaces, In, Waiting, Outstanding
<1>8. CASE TearDownSessionLocked
  BY <1>8
  DEF TearDownSessionLocked, Goto, RunBounded, custody, workers, flight, control, PlaceInv,
      GateInv, LockInv, OneOpen, ShapesOK, OpenPlaces, In, Waiting, Outstanding
<1>9. CASE TakeHandback
  BY <1>9
  DEF TakeHandback, Goto, custody, workers, flight, control, PlaceInv, GateInv, LockInv,
      OneOpen, ShapesOK, OpenPlaces, In, Waiting, Outstanding
<1>10. CASE ResumeProvidingLocked
  BY <1>10
  DEF ResumeProvidingLocked, Goto, Move, custody, workers, flight, control, PlaceInv,
      GateInv, LockInv, OneOpen, ShapesOK, OpenPlaces, In, Waiting, Outstanding
<1>11. CASE Admit
  BY <1>11
  DEF Admit, Goto, custody, workers, flight, control, PlaceInv, GateInv, LockInv, OneOpen,
      ShapesOK, OpenPlaces, In, Waiting, Outstanding
<1>12. CASE BindEgress
  BY <1>12
  DEF BindEgress, Goto, custody, workers, flight, control, PlaceInv, GateInv, LockInv,
      OneOpen, ShapesOK, OpenPlaces, In, Waiting, Outstanding
<1>13. CASE DeviceStep
  BY <1>13
  DEF DeviceStep, Goto, Move, Fresh, custody, workers, flight, control, PlaceInv, GateInv,
      LockInv, OneOpen, ShapesOK, OpenPlaces, In, Waiting, Outstanding
<1>14. CASE CloseHandedOffDeviceLocked
  BY <1>14
  DEF CloseHandedOffDeviceLocked, Goto, RunBounded, custody, workers, flight, control,
      PlaceInv, GateInv, LockInv, OneOpen, ShapesOK, OpenPlaces, In, Waiting, Outstanding
<1>15. CASE BuildProviderDevice
  <2>1. ASSUME NEW d \in Fresh, Move(d, "provider") PROVE PlaceInv'
    BY <1>15, <2>1
    DEF BuildProviderDevice, Goto, Move, Fresh, workers, flight, PlaceInv, ShapesOK
  <2>2. CASE UNCHANGED custody
    BY <1>15, <2>2
    DEF BuildProviderDevice, Goto, custody, workers, flight, PlaceInv, ShapesOK
  <2> QED
    BY <1>15, <2>1, <2>2 DEF BuildProviderDevice
<1>16. CASE BuildLogUploadDevice
  BY <1>16
  DEF BuildLogUploadDevice, Goto, Move, Fresh, custody, workers, flight, control, PlaceInv,
      GateInv, LockInv, OneOpen, ShapesOK, OpenPlaces, In, Waiting, Outstanding
<1>17. CASE Unlock
  BY <1>17
  DEF Unlock, Goto, custody, workers, flight, control, PlaceInv, GateInv, LockInv, OneOpen,
      ShapesOK, OpenPlaces, In, Waiting, Outstanding
<1>18. CASE RunBoundedExpires
  BY <1>18
  DEF RunBoundedExpires, custody, workers, flight, control, PlaceInv, GateInv, LockInv,
      OneOpen, ShapesOK, OpenPlaces, In, Waiting, Outstanding
<1>19. CASE ShellFinishes
  BY <1>19
  DEF ShellFinishes, custody, workers, flight, control, PlaceInv, GateInv, LockInv, OneOpen,
      ShapesOK, OpenPlaces, In, Waiting, Outstanding
<1>20. CASE UploadEnds
  BY <1>20
  DEF UploadEnds, custody, workers, flight, control, PlaceInv, GateInv, LockInv, OneOpen,
      ShapesOK, OpenPlaces, In, Waiting, Outstanding
<1>21. CASE UploadReturns
  BY <1>21
  DEF UploadReturns, custody, workers, flight, control, PlaceInv, GateInv, LockInv, OneOpen,
      ShapesOK, OpenPlaces, In, Waiting, Outstanding
<1>22. CASE UploadReleases
  BY <1>22
  DEF UploadReleases, custody, workers, flight, control, PlaceInv, GateInv, LockInv,
      OneOpen, ShapesOK, OpenPlaces, In, Waiting, Outstanding
<1>23. CASE MonitorObserves
  BY <1>23
  DEF MonitorObserves, custody, workers, flight, control, PlaceInv, GateInv, LockInv,
      OneOpen, ShapesOK, OpenPlaces, In, Waiting, Outstanding
<1>24. ASSUME NEW d \in Devices, WorkerClears(d) PROVE PlaceInv'
  BY <1>24
  DEF WorkerClears, Move, custody, workers, flight, control, PlaceInv, GateInv, LockInv,
      OneOpen, ShapesOK, OpenPlaces, In, Waiting, Outstanding
<1>25. ASSUME NEW d \in Devices, WorkerUnbinds(d) PROVE PlaceInv'
  BY <1>25
  DEF WorkerUnbinds, Move, custody, workers, flight, control, PlaceInv, GateInv, LockInv,
      OneOpen, ShapesOK, OpenPlaces, In, Waiting, Outstanding
<1>26. ASSUME NEW d \in Devices, WorkerCloses(d) PROVE PlaceInv'
  BY <1>26
  DEF WorkerCloses, Move, custody, workers, flight, control, PlaceInv, GateInv, LockInv,
      OneOpen, ShapesOK, OpenPlaces, In, Waiting, Outstanding
<1>27. ASSUME NEW d \in Devices, WorkerReleases(d) PROVE PlaceInv'
  BY <1>27
  DEF WorkerReleases, Move, custody, workers, flight, control, PlaceInv, GateInv, LockInv,
      OneOpen, ShapesOK, OpenPlaces, In, Waiting, Outstanding
<1>28. ASSUME NEW d \in Devices, WorkerFinishes(d) PROVE PlaceInv'
  BY <1>28
  DEF WorkerFinishes, custody, workers, flight, control, PlaceInv, GateInv, LockInv,
      OneOpen, ShapesOK, OpenPlaces, In, Waiting, Outstanding
<1>29. ASSUME NEW d \in Devices, WaiterTakes(d) PROVE PlaceInv'
  BY <1>29
  DEF WaiterTakes, RunBounded, custody, workers, flight, control, PlaceInv, GateInv,
      LockInv, OneOpen, ShapesOK, OpenPlaces, In, Waiting, Outstanding
<1>30. ASSUME NEW d \in Devices, WaiterExpires(d) PROVE PlaceInv'
  BY <1>30
  DEF WaiterExpires, custody, workers, flight, control, PlaceInv, GateInv, LockInv, OneOpen,
      ShapesOK, OpenPlaces, In, Waiting, Outstanding
<1>31. CASE UNCHANGED vars
  BY <1>31
  DEF vars, custody, workers, flight, control, PlaceInv, GateInv, LockInv, OneOpen,
      ShapesOK, OpenPlaces, In, Waiting, Outstanding
<1>32. CASE LateMonitorObserves
  BY <1>32
  DEF LateMonitorObserves, custody, workers, flight, control, PlaceInv, GateInv, LockInv,
      OneOpen, ShapesOK, OpenPlaces, In, Waiting, Outstanding
<1> QED
  BY <1>1, <1>2, <1>3, <1>4, <1>5, <1>6, <1>7, <1>8, <1>9, <1>10, <1>11, <1>12, <1>13,
     <1>14, <1>15, <1>16, <1>17, <1>18, <1>19, <1>20, <1>21, <1>22, <1>23, <1>24, <1>25,
     <1>26, <1>27, <1>28, <1>29, <1>30, <1>31, <1>32
  DEF Next, Requests, LockHolder, Worker, Waiter, Upload

\* Which worker has a device, and who waits for it.
LEMMA GateStep == GateInv /\ ShapesOK /\ PlaceInv /\ OneOpen /\ [Next]_vars => GateInv'
<1> SUFFICES ASSUME GateInv, ShapesOK, PlaceInv, OneOpen, [Next]_vars PROVE GateInv'
  OBVIOUS
<1>1. CASE StartProvider
  BY <1>1
  DEF StartProvider, Goto, custody, workers, flight, control, GateInv, PlaceInv, OneOpen,
      OpenPlaces, ShapesOK, Gates, In, Waiting
<1>2. CASE StopProvider
  BY <1>2
  DEF StopProvider, Goto, custody, workers, flight, control, GateInv, PlaceInv, OneOpen,
      OpenPlaces, ShapesOK, Gates, In, Waiting
<1>3. CASE StopLocked
  BY <1>3
  DEF StopLocked, Goto, custody, workers, flight, control, GateInv, PlaceInv, OneOpen,
      OpenPlaces, ShapesOK, Gates, In, Waiting
<1>4. CASE StartLocked
  BY <1>4
  DEF StartLocked, Goto, Move, custody, workers, flight, control, GateInv, PlaceInv,
      OneOpen, OpenPlaces, ShapesOK, Gates, In, Waiting
<1>5. CASE UploadLogs
  BY <1>5
  DEF UploadLogs, Goto, custody, workers, flight, control, GateInv, PlaceInv, OneOpen,
      OpenPlaces, ShapesOK, Gates, In, Waiting
<1>6. CASE RetireProviderDeviceLocked
  BY <1>6
  DEF RetireProviderDeviceLocked, Goto, RunBounded, custody, workers, flight, control,
      GateInv, PlaceInv, OneOpen, OpenPlaces, ShapesOK, Gates, In, Waiting
<1>7. CASE RetireLogUploadDeviceLocked
  BY <1>7
  DEF RetireLogUploadDeviceLocked, Goto, RunBounded, custody, workers, flight, control,
      GateInv, PlaceInv, OneOpen, OpenPlaces, ShapesOK, Gates, In, Waiting
<1>8. CASE TearDownSessionLocked
  BY <1>8
  DEF TearDownSessionLocked, Goto, RunBounded, custody, workers, flight, control, GateInv,
      PlaceInv, OneOpen, OpenPlaces, ShapesOK, Gates, In, Waiting
<1>9. CASE TakeHandback
  BY <1>9
  DEF TakeHandback, Goto, custody, workers, flight, control, GateInv, PlaceInv, OneOpen,
      OpenPlaces, ShapesOK, Gates, In, Waiting
<1>10. CASE ResumeProvidingLocked
  BY <1>10
  DEF ResumeProvidingLocked, Goto, Move, custody, workers, flight, control, GateInv,
      PlaceInv, OneOpen, OpenPlaces, ShapesOK, Gates, In, Waiting
<1>11. CASE Admit
  BY <1>11
  DEF Admit, Goto, custody, workers, flight, control, GateInv, PlaceInv, OneOpen,
      OpenPlaces, ShapesOK, Gates, In, Waiting
<1>12. CASE BindEgress
  BY <1>12
  DEF BindEgress, Goto, custody, workers, flight, control, GateInv, PlaceInv, OneOpen,
      OpenPlaces, ShapesOK, Gates, In, Waiting
<1>13. CASE DeviceStep
  BY <1>13
  DEF DeviceStep, Goto, Move, Fresh, custody, workers, flight, control, GateInv, PlaceInv,
      OneOpen, OpenPlaces, ShapesOK, Gates, In, Waiting
<1>14. CASE CloseHandedOffDeviceLocked
  BY <1>14
  DEF CloseHandedOffDeviceLocked, Goto, RunBounded, custody, workers, flight, control,
      GateInv, PlaceInv, OneOpen, OpenPlaces, ShapesOK, Gates, In, Waiting
<1>15. CASE BuildProviderDevice
  BY <1>15
  DEF BuildProviderDevice, Goto, Move, Fresh, custody, workers, flight, control, GateInv,
      PlaceInv, OneOpen, OpenPlaces, ShapesOK, Gates, In, Waiting
<1>16. CASE BuildLogUploadDevice
  BY <1>16
  DEF BuildLogUploadDevice, Goto, Move, Fresh, custody, workers, flight, control, GateInv,
      PlaceInv, OneOpen, OpenPlaces, ShapesOK, Gates, In, Waiting
<1>17. CASE Unlock
  BY <1>17
  DEF Unlock, Goto, custody, workers, flight, control, GateInv, PlaceInv, OneOpen,
      OpenPlaces, ShapesOK, Gates, In, Waiting
<1>18. CASE RunBoundedExpires
  BY <1>18
  DEF RunBoundedExpires, custody, workers, flight, control, GateInv, PlaceInv, OneOpen,
      OpenPlaces, ShapesOK, Gates, In, Waiting
<1>19. CASE ShellFinishes
  BY <1>19
  DEF ShellFinishes, custody, workers, flight, control, GateInv, PlaceInv, OneOpen,
      OpenPlaces, ShapesOK, Gates, In, Waiting
<1>20. CASE UploadEnds
  BY <1>20
  DEF UploadEnds, custody, workers, flight, control, GateInv, PlaceInv, OneOpen, OpenPlaces,
      ShapesOK, Gates, In, Waiting
<1>21. CASE UploadReturns
  BY <1>21
  DEF UploadReturns, custody, workers, flight, control, GateInv, PlaceInv, OneOpen,
      OpenPlaces, ShapesOK, Gates, In, Waiting
<1>22. CASE UploadReleases
  BY <1>22
  DEF UploadReleases, custody, workers, flight, control, GateInv, PlaceInv, OneOpen,
      OpenPlaces, ShapesOK, Gates, In, Waiting
<1>23. CASE MonitorObserves
  BY <1>23
  DEF MonitorObserves, custody, workers, flight, control, GateInv, PlaceInv, OneOpen,
      OpenPlaces, ShapesOK, Gates, In, Waiting
<1>24. ASSUME NEW d \in Devices, WorkerClears(d) PROVE GateInv'
  BY <1>24
  DEF WorkerClears, Move, custody, workers, flight, control, GateInv, PlaceInv, OneOpen,
      OpenPlaces, ShapesOK, Gates, In, Waiting
<1>25. ASSUME NEW d \in Devices, WorkerUnbinds(d) PROVE GateInv'
  BY <1>25
  DEF WorkerUnbinds, Move, custody, workers, flight, control, GateInv, PlaceInv, OneOpen,
      OpenPlaces, ShapesOK, Gates, In, Waiting
<1>26. ASSUME NEW d \in Devices, WorkerCloses(d) PROVE GateInv'
  BY <1>26
  DEF WorkerCloses, Move, custody, workers, flight, control, GateInv, PlaceInv, OneOpen,
      OpenPlaces, ShapesOK, Gates, In, Waiting
<1>27. ASSUME NEW d \in Devices, WorkerReleases(d) PROVE GateInv'
  BY <1>27
  DEF WorkerReleases, Move, custody, workers, flight, control, GateInv, PlaceInv, OneOpen,
      OpenPlaces, ShapesOK, Gates, In, Waiting
<1>28. ASSUME NEW d \in Devices, WorkerFinishes(d) PROVE GateInv'
  BY <1>28
  DEF WorkerFinishes, custody, workers, flight, control, GateInv, PlaceInv, OneOpen,
      OpenPlaces, ShapesOK, Gates, In, Waiting
<1>29. ASSUME NEW d \in Devices, WaiterTakes(d) PROVE GateInv'
  BY <1>29
  DEF WaiterTakes, RunBounded, custody, workers, flight, control, GateInv, PlaceInv,
      OneOpen, OpenPlaces, ShapesOK, Gates, In, Waiting
<1>30. ASSUME NEW d \in Devices, WaiterExpires(d) PROVE GateInv'
  BY <1>30
  DEF WaiterExpires, custody, workers, flight, control, GateInv, PlaceInv, OneOpen,
      OpenPlaces, ShapesOK, Gates, In, Waiting
<1>31. CASE UNCHANGED vars
  BY <1>31
  DEF vars, custody, workers, flight, control, GateInv, PlaceInv, OneOpen, OpenPlaces,
      ShapesOK, Gates, In, Waiting
<1>32. CASE LateMonitorObserves
  BY <1>32
  DEF LateMonitorObserves, custody, workers, flight, control, GateInv, PlaceInv, OneOpen,
      OpenPlaces, ShapesOK, Gates, In, Waiting
<1> QED
  BY <1>1, <1>2, <1>3, <1>4, <1>5, <1>6, <1>7, <1>8, <1>9, <1>10, <1>11, <1>12, <1>13,
     <1>14, <1>15, <1>16, <1>17, <1>18, <1>19, <1>20, <1>21, <1>22, <1>23, <1>24, <1>25,
     <1>26, <1>27, <1>28, <1>29, <1>30, <1>31, <1>32
  DEF Next, Requests, LockHolder, Worker, Waiter, Upload

\* The holder is in no bounded wait where it decides, and neither is a free lock.
LEMMA LockStep == LockInv /\ ShapesOK /\ PlaceInv /\ [Next]_vars => LockInv'
<1> SUFFICES ASSUME LockInv, ShapesOK, PlaceInv, [Next]_vars PROVE LockInv'
  OBVIOUS
<1>1. CASE StartProvider
  BY <1>1
  DEF StartProvider, Goto, custody, workers, flight, control, LockInv, PlaceInv, ShapesOK,
      Steps, In, Waiting, Outstanding
<1>2. CASE StopProvider
  BY <1>2
  DEF StopProvider, Goto, custody, workers, flight, control, LockInv, PlaceInv, ShapesOK,
      Steps, In, Waiting, Outstanding
<1>3. CASE StopLocked
  BY <1>3
  DEF StopLocked, Goto, custody, workers, flight, control, LockInv, PlaceInv, ShapesOK,
      Steps, In, Waiting, Outstanding
<1>4. CASE StartLocked
  BY <1>4
  DEF StartLocked, Goto, Move, custody, workers, flight, control, LockInv, PlaceInv,
      ShapesOK, Steps, In, Waiting, Outstanding
<1>5. CASE UploadLogs
  BY <1>5
  DEF UploadLogs, Goto, custody, workers, flight, control, LockInv, PlaceInv, ShapesOK,
      Steps, In, Waiting, Outstanding
<1>6. CASE RetireProviderDeviceLocked
  BY <1>6
  DEF RetireProviderDeviceLocked, Goto, RunBounded, custody, workers, flight, control,
      LockInv, PlaceInv, ShapesOK, Steps, In, Waiting, Outstanding
<1>7. CASE RetireLogUploadDeviceLocked
  BY <1>7
  DEF RetireLogUploadDeviceLocked, Goto, RunBounded, custody, workers, flight, control,
      LockInv, PlaceInv, ShapesOK, Steps, In, Waiting, Outstanding
<1>8. CASE TearDownSessionLocked
  BY <1>8
  DEF TearDownSessionLocked, Goto, RunBounded, custody, workers, flight, control, LockInv,
      PlaceInv, ShapesOK, Steps, In, Waiting, Outstanding
<1>9. CASE TakeHandback
  BY <1>9
  DEF TakeHandback, Goto, custody, workers, flight, control, LockInv, PlaceInv, ShapesOK,
      Steps, In, Waiting, Outstanding
<1>10. CASE ResumeProvidingLocked
  BY <1>10
  DEF ResumeProvidingLocked, Goto, Move, custody, workers, flight, control, LockInv,
      PlaceInv, ShapesOK, Steps, In, Waiting, Outstanding
<1>11. CASE Admit
  BY <1>11
  DEF Admit, Goto, custody, workers, flight, control, LockInv, PlaceInv, ShapesOK, Steps,
      In, Waiting, Outstanding
<1>12. CASE BindEgress
  BY <1>12
  DEF BindEgress, Goto, custody, workers, flight, control, LockInv, PlaceInv, ShapesOK,
      Steps, In, Waiting, Outstanding
<1>13. CASE DeviceStep
  BY <1>13
  DEF DeviceStep, Goto, Move, Fresh, custody, workers, flight, control, LockInv, PlaceInv,
      ShapesOK, Steps, In, Waiting, Outstanding
<1>14. CASE CloseHandedOffDeviceLocked
  BY <1>14
  DEF CloseHandedOffDeviceLocked, Goto, RunBounded, custody, workers, flight, control,
      LockInv, PlaceInv, ShapesOK, Steps, In, Waiting, Outstanding
<1>15. CASE BuildProviderDevice
  BY <1>15
  DEF BuildProviderDevice, Goto, Move, Fresh, custody, workers, flight, control, LockInv,
      PlaceInv, ShapesOK, Steps, In, Waiting, Outstanding
<1>16. CASE BuildLogUploadDevice
  BY <1>16
  DEF BuildLogUploadDevice, Goto, Move, Fresh, custody, workers, flight, control, LockInv,
      PlaceInv, ShapesOK, Steps, In, Waiting, Outstanding
<1>17. CASE Unlock
  BY <1>17
  DEF Unlock, Goto, custody, workers, flight, control, LockInv, PlaceInv, ShapesOK, Steps,
      In, Waiting, Outstanding
<1>18. CASE RunBoundedExpires
  BY <1>18
  DEF RunBoundedExpires, custody, workers, flight, control, LockInv, PlaceInv, ShapesOK,
      Steps, In, Waiting, Outstanding
<1>19. CASE ShellFinishes
  BY <1>19
  DEF ShellFinishes, custody, workers, flight, control, LockInv, PlaceInv, ShapesOK, Steps,
      In, Waiting, Outstanding
<1>20. CASE UploadEnds
  BY <1>20
  DEF UploadEnds, custody, workers, flight, control, LockInv, PlaceInv, ShapesOK, Steps, In,
      Waiting, Outstanding
<1>21. CASE UploadReturns
  BY <1>21
  DEF UploadReturns, custody, workers, flight, control, LockInv, PlaceInv, ShapesOK, Steps,
      In, Waiting, Outstanding
<1>22. CASE UploadReleases
  BY <1>22
  DEF UploadReleases, custody, workers, flight, control, LockInv, PlaceInv, ShapesOK, Steps,
      In, Waiting, Outstanding
<1>23. CASE MonitorObserves
  BY <1>23
  DEF MonitorObserves, custody, workers, flight, control, LockInv, PlaceInv, ShapesOK,
      Steps, In, Waiting, Outstanding
<1>24. ASSUME NEW d \in Devices, WorkerClears(d) PROVE LockInv'
  BY <1>24
  DEF WorkerClears, Move, custody, workers, flight, control, LockInv, PlaceInv, ShapesOK,
      Steps, In, Waiting, Outstanding
<1>25. ASSUME NEW d \in Devices, WorkerUnbinds(d) PROVE LockInv'
  BY <1>25
  DEF WorkerUnbinds, Move, custody, workers, flight, control, LockInv, PlaceInv, ShapesOK,
      Steps, In, Waiting, Outstanding
<1>26. ASSUME NEW d \in Devices, WorkerCloses(d) PROVE LockInv'
  BY <1>26
  DEF WorkerCloses, Move, custody, workers, flight, control, LockInv, PlaceInv, ShapesOK,
      Steps, In, Waiting, Outstanding
<1>27. ASSUME NEW d \in Devices, WorkerReleases(d) PROVE LockInv'
  BY <1>27
  DEF WorkerReleases, Move, custody, workers, flight, control, LockInv, PlaceInv, ShapesOK,
      Steps, In, Waiting, Outstanding
<1>28. ASSUME NEW d \in Devices, WorkerFinishes(d) PROVE LockInv'
  BY <1>28
  DEF WorkerFinishes, custody, workers, flight, control, LockInv, PlaceInv, ShapesOK, Steps,
      In, Waiting, Outstanding
<1>29. ASSUME NEW d \in Devices, WaiterTakes(d) PROVE LockInv'
  BY <1>29
  DEF WaiterTakes, RunBounded, custody, workers, flight, control, LockInv, PlaceInv,
      ShapesOK, Steps, In, Waiting, Outstanding
<1>30. ASSUME NEW d \in Devices, WaiterExpires(d) PROVE LockInv'
  BY <1>30
  DEF WaiterExpires, custody, workers, flight, control, LockInv, PlaceInv, ShapesOK, Steps,
      In, Waiting, Outstanding
<1>31. CASE UNCHANGED vars
  BY <1>31
  DEF vars, custody, workers, flight, control, LockInv, PlaceInv, ShapesOK, Steps, In,
      Waiting, Outstanding
<1>32. CASE LateMonitorObserves
  BY <1>32
  DEF LateMonitorObserves, custody, workers, flight, control, LockInv, PlaceInv, ShapesOK,
      Steps, In, Waiting, Outstanding
<1> QED
  BY <1>1, <1>2, <1>3, <1>4, <1>5, <1>6, <1>7, <1>8, <1>9, <1>10, <1>11, <1>12, <1>13,
     <1>14, <1>15, <1>16, <1>17, <1>18, <1>19, <1>20, <1>21, <1>22, <1>23, <1>24, <1>25,
     <1>26, <1>27, <1>28, <1>29, <1>30, <1>31, <1>32
  DEF Next, Requests, LockHolder, Worker, Waiter, Upload

\* At most one device is open.
LEMMA OpenStep == OneOpen /\ ShapesOK /\ PlaceInv /\ [Next]_vars => OneOpen'
<1> SUFFICES ASSUME OneOpen, ShapesOK, PlaceInv, [Next]_vars PROVE OneOpen'
  OBVIOUS
<1>1. CASE StartProvider
  BY <1>1
  DEF StartProvider, Goto, custody, workers, flight, control, OneOpen, PlaceInv, ShapesOK,
      OpenPlaces, In
<1>2. CASE StopProvider
  BY <1>2
  DEF StopProvider, Goto, custody, workers, flight, control, OneOpen, PlaceInv, ShapesOK,
      OpenPlaces, In
<1>3. CASE StopLocked
  BY <1>3
  DEF StopLocked, Goto, custody, workers, flight, control, OneOpen, PlaceInv, ShapesOK,
      OpenPlaces, In
<1>4. CASE StartLocked
  BY <1>4
  DEF StartLocked, Goto, Move, custody, workers, flight, control, OneOpen, PlaceInv,
      ShapesOK, OpenPlaces, In
<1>5. CASE UploadLogs
  BY <1>5
  DEF UploadLogs, Goto, custody, workers, flight, control, OneOpen, PlaceInv, ShapesOK,
      OpenPlaces, In
<1>6. CASE RetireProviderDeviceLocked
  BY <1>6
  DEF RetireProviderDeviceLocked, Goto, RunBounded, custody, workers, flight, control,
      OneOpen, PlaceInv, ShapesOK, OpenPlaces, In
<1>7. CASE RetireLogUploadDeviceLocked
  BY <1>7
  DEF RetireLogUploadDeviceLocked, Goto, RunBounded, custody, workers, flight, control,
      OneOpen, PlaceInv, ShapesOK, OpenPlaces, In
<1>8. CASE TearDownSessionLocked
  BY <1>8
  DEF TearDownSessionLocked, Goto, RunBounded, custody, workers, flight, control, OneOpen,
      PlaceInv, ShapesOK, OpenPlaces, In
<1>9. CASE TakeHandback
  BY <1>9
  DEF TakeHandback, Goto, custody, workers, flight, control, OneOpen, PlaceInv, ShapesOK,
      OpenPlaces, In
<1>10. CASE ResumeProvidingLocked
  BY <1>10
  DEF ResumeProvidingLocked, Goto, Move, custody, workers, flight, control, OneOpen,
      PlaceInv, ShapesOK, OpenPlaces, In
<1>11. CASE Admit
  BY <1>11
  DEF Admit, Goto, custody, workers, flight, control, OneOpen, PlaceInv, ShapesOK,
      OpenPlaces, In
<1>12. CASE BindEgress
  BY <1>12
  DEF BindEgress, Goto, custody, workers, flight, control, OneOpen, PlaceInv, ShapesOK,
      OpenPlaces, In
<1>13. CASE DeviceStep
  BY <1>13
  DEF DeviceStep, Goto, Move, Fresh, custody, workers, flight, control, OneOpen, PlaceInv,
      ShapesOK, OpenPlaces, In
<1>14. CASE CloseHandedOffDeviceLocked
  BY <1>14
  DEF CloseHandedOffDeviceLocked, Goto, RunBounded, custody, workers, flight, control,
      OneOpen, PlaceInv, ShapesOK, OpenPlaces, In
<1>15. CASE BuildProviderDevice
  BY <1>15
  DEF BuildProviderDevice, Goto, Move, Fresh, custody, workers, flight, control, OneOpen,
      PlaceInv, ShapesOK, OpenPlaces, In
<1>16. CASE BuildLogUploadDevice
  BY <1>16
  DEF BuildLogUploadDevice, Goto, Move, Fresh, custody, workers, flight, control, OneOpen,
      PlaceInv, ShapesOK, OpenPlaces, In
<1>17. CASE Unlock
  BY <1>17
  DEF Unlock, Goto, custody, workers, flight, control, OneOpen, PlaceInv, ShapesOK,
      OpenPlaces, In
<1>18. CASE RunBoundedExpires
  BY <1>18
  DEF RunBoundedExpires, custody, workers, flight, control, OneOpen, PlaceInv, ShapesOK,
      OpenPlaces, In
<1>19. CASE ShellFinishes
  BY <1>19
  DEF ShellFinishes, custody, workers, flight, control, OneOpen, PlaceInv, ShapesOK,
      OpenPlaces, In
<1>20. CASE UploadEnds
  BY <1>20
  DEF UploadEnds, custody, workers, flight, control, OneOpen, PlaceInv, ShapesOK,
      OpenPlaces, In
<1>21. CASE UploadReturns
  BY <1>21
  DEF UploadReturns, custody, workers, flight, control, OneOpen, PlaceInv, ShapesOK,
      OpenPlaces, In
<1>22. CASE UploadReleases
  BY <1>22
  DEF UploadReleases, custody, workers, flight, control, OneOpen, PlaceInv, ShapesOK,
      OpenPlaces, In
<1>23. CASE MonitorObserves
  BY <1>23
  DEF MonitorObserves, custody, workers, flight, control, OneOpen, PlaceInv, ShapesOK,
      OpenPlaces, In
<1>24. ASSUME NEW d \in Devices, WorkerClears(d) PROVE OneOpen'
  BY <1>24
  DEF WorkerClears, Move, custody, workers, flight, control, OneOpen, PlaceInv, ShapesOK,
      OpenPlaces, In
<1>25. ASSUME NEW d \in Devices, WorkerUnbinds(d) PROVE OneOpen'
  BY <1>25
  DEF WorkerUnbinds, Move, custody, workers, flight, control, OneOpen, PlaceInv, ShapesOK,
      OpenPlaces, In
<1>26. ASSUME NEW d \in Devices, WorkerCloses(d) PROVE OneOpen'
  BY <1>26
  DEF WorkerCloses, Move, custody, workers, flight, control, OneOpen, PlaceInv, ShapesOK,
      OpenPlaces, In
<1>27. ASSUME NEW d \in Devices, WorkerReleases(d) PROVE OneOpen'
  BY <1>27
  DEF WorkerReleases, Move, custody, workers, flight, control, OneOpen, PlaceInv, ShapesOK,
      OpenPlaces, In
<1>28. ASSUME NEW d \in Devices, WorkerFinishes(d) PROVE OneOpen'
  BY <1>28
  DEF WorkerFinishes, custody, workers, flight, control, OneOpen, PlaceInv, ShapesOK,
      OpenPlaces, In
<1>29. ASSUME NEW d \in Devices, WaiterTakes(d) PROVE OneOpen'
  BY <1>29
  DEF WaiterTakes, RunBounded, custody, workers, flight, control, OneOpen, PlaceInv,
      ShapesOK, OpenPlaces, In
<1>30. ASSUME NEW d \in Devices, WaiterExpires(d) PROVE OneOpen'
  BY <1>30
  DEF WaiterExpires, custody, workers, flight, control, OneOpen, PlaceInv, ShapesOK,
      OpenPlaces, In
<1>31. CASE UNCHANGED vars
  BY <1>31
  DEF vars, custody, workers, flight, control, OneOpen, PlaceInv, ShapesOK, OpenPlaces, In
<1>32. CASE LateMonitorObserves
  BY <1>32
  DEF LateMonitorObserves, custody, workers, flight, control, OneOpen, PlaceInv, ShapesOK,
      OpenPlaces, In
<1> QED
  BY <1>1, <1>2, <1>3, <1>4, <1>5, <1>6, <1>7, <1>8, <1>9, <1>10, <1>11, <1>12, <1>13,
     <1>14, <1>15, <1>16, <1>17, <1>18, <1>19, <1>20, <1>21, <1>22, <1>23, <1>24, <1>25,
     <1>26, <1>27, <1>28, <1>29, <1>30, <1>31, <1>32
  DEF Next, Requests, LockHolder, Worker, Waiter, Upload

\* From its admission on, a session has no earlier teardown beside it.
LEMMA QuietStep ==
  QuietInv /\ ShapesOK /\ PlaceInv /\ GateInv /\ LockInv /\ OneOpen /\ [Next]_vars => QuietInv'
<1> SUFFICES ASSUME QuietInv, ShapesOK, PlaceInv, GateInv, LockInv, OneOpen, [Next]_vars PROVE QuietInv'
  OBVIOUS
<1>1. CASE StartProvider
  BY <1>1
  DEF StartProvider, Goto, custody, workers, flight, control, QuietInv, Quiet, PlaceInv,
      GateInv, LockInv, OneOpen, OpenPlaces, ShapesOK, Gates, In, Waiting, Outstanding
<1>2. CASE StopProvider
  BY <1>2
  DEF StopProvider, Goto, custody, workers, flight, control, QuietInv, Quiet, PlaceInv,
      GateInv, LockInv, OneOpen, OpenPlaces, ShapesOK, Gates, In, Waiting, Outstanding
<1>3. CASE StopLocked
  BY <1>3
  DEF StopLocked, Goto, custody, workers, flight, control, QuietInv, Quiet, PlaceInv,
      GateInv, LockInv, OneOpen, OpenPlaces, ShapesOK, Gates, In, Waiting, Outstanding
<1>4. CASE StartLocked
  BY <1>4
  DEF StartLocked, Goto, Move, custody, workers, flight, control, QuietInv, Quiet, PlaceInv,
      GateInv, LockInv, OneOpen, OpenPlaces, ShapesOK, Gates, In, Waiting, Outstanding
<1>5. CASE UploadLogs
  BY <1>5
  DEF UploadLogs, Goto, custody, workers, flight, control, QuietInv, Quiet, PlaceInv,
      GateInv, LockInv, OneOpen, OpenPlaces, ShapesOK, Gates, In, Waiting, Outstanding
<1>6. CASE RetireProviderDeviceLocked
  BY <1>6
  DEF RetireProviderDeviceLocked, Goto, RunBounded, custody, workers, flight, control,
      QuietInv, Quiet, PlaceInv, GateInv, LockInv, OneOpen, OpenPlaces, ShapesOK, Gates, In,
      Waiting, Outstanding
<1>7. CASE RetireLogUploadDeviceLocked
  BY <1>7
  DEF RetireLogUploadDeviceLocked, Goto, RunBounded, custody, workers, flight, control,
      QuietInv, Quiet, PlaceInv, GateInv, LockInv, OneOpen, OpenPlaces, ShapesOK, Gates, In,
      Waiting, Outstanding
<1>8. CASE TearDownSessionLocked
  BY <1>8
  DEF TearDownSessionLocked, Goto, RunBounded, custody, workers, flight, control, QuietInv,
      Quiet, PlaceInv, GateInv, LockInv, OneOpen, OpenPlaces, ShapesOK, Gates, In, Waiting,
      Outstanding
<1>9. CASE TakeHandback
  BY <1>9
  DEF TakeHandback, Goto, custody, workers, flight, control, QuietInv, Quiet, PlaceInv,
      GateInv, LockInv, OneOpen, OpenPlaces, ShapesOK, Gates, In, Waiting, Outstanding
<1>10. CASE ResumeProvidingLocked
  BY <1>10
  DEF ResumeProvidingLocked, Goto, Move, workers, QuietInv, PlaceInv, ShapesOK, In
<1>11. CASE Admit
  BY <1>11
  DEF Admit, Goto, custody, workers, flight, control, QuietInv, Quiet, PlaceInv, GateInv,
      LockInv, OneOpen, OpenPlaces, ShapesOK, Gates, In, Waiting, Outstanding
<1>12. CASE BindEgress
  BY <1>12
  DEF BindEgress, Goto, custody, workers, flight, control, QuietInv, Quiet, PlaceInv,
      GateInv, LockInv, OneOpen, OpenPlaces, ShapesOK, Gates, In, Waiting, Outstanding
<1>13. CASE DeviceStep
  BY <1>13
  DEF DeviceStep, Goto, Move, Fresh, custody, workers, flight, control, QuietInv, Quiet,
      PlaceInv, GateInv, LockInv, OneOpen, OpenPlaces, ShapesOK, Gates, In, Waiting,
      Outstanding
<1>14. CASE CloseHandedOffDeviceLocked
  BY <1>14
  DEF CloseHandedOffDeviceLocked, Goto, RunBounded, custody, workers, flight, control,
      QuietInv, Quiet, PlaceInv, GateInv, LockInv, OneOpen, OpenPlaces, ShapesOK, Gates, In,
      Waiting, Outstanding
<1>15. CASE BuildProviderDevice
  <2>1. ASSUME NEW d \in Fresh, Move(d, "provider") PROVE QuietInv'
    BY <1>15, <2>1
    DEF BuildProviderDevice, Goto, Move, Fresh, workers, flight, QuietInv, Quiet, PlaceInv,
        ShapesOK, In
  <2>2. CASE UNCHANGED custody
    BY <1>15, <2>2
    DEF BuildProviderDevice, Goto, custody, workers, flight, QuietInv, Quiet, PlaceInv,
        ShapesOK, In
  <2> QED
    BY <1>15, <2>1, <2>2 DEF BuildProviderDevice
<1>16. CASE BuildLogUploadDevice
  BY <1>16
  DEF BuildLogUploadDevice, Goto, Move, Fresh, custody, workers, flight, control, QuietInv,
      Quiet, PlaceInv, GateInv, LockInv, OneOpen, OpenPlaces, ShapesOK, Gates, In, Waiting,
      Outstanding
<1>17. CASE Unlock
  BY <1>17
  DEF Unlock, Goto, custody, workers, flight, control, QuietInv, Quiet, PlaceInv, GateInv,
      LockInv, OneOpen, OpenPlaces, ShapesOK, Gates, In, Waiting, Outstanding
<1>18. CASE RunBoundedExpires
  BY <1>18
  DEF RunBoundedExpires, custody, workers, flight, control, QuietInv, Quiet, PlaceInv,
      GateInv, LockInv, OneOpen, OpenPlaces, ShapesOK, Gates, In, Waiting, Outstanding
<1>19. CASE ShellFinishes
  BY <1>19
  DEF ShellFinishes, custody, workers, flight, control, QuietInv, Quiet, PlaceInv, GateInv,
      LockInv, OneOpen, OpenPlaces, ShapesOK, Gates, In, Waiting, Outstanding
<1>20. CASE UploadEnds
  BY <1>20
  DEF UploadEnds, custody, workers, flight, control, QuietInv, Quiet, PlaceInv, GateInv,
      LockInv, OneOpen, OpenPlaces, ShapesOK, Gates, In, Waiting, Outstanding
<1>21. CASE UploadReturns
  BY <1>21
  DEF UploadReturns, custody, workers, flight, control, QuietInv, Quiet, PlaceInv, GateInv,
      LockInv, OneOpen, OpenPlaces, ShapesOK, Gates, In, Waiting, Outstanding
<1>22. CASE UploadReleases
  BY <1>22
  DEF UploadReleases, custody, workers, flight, control, QuietInv, Quiet, PlaceInv, GateInv,
      LockInv, OneOpen, OpenPlaces, ShapesOK, Gates, In, Waiting, Outstanding
<1>23. CASE MonitorObserves
  BY <1>23
  DEF MonitorObserves, custody, workers, flight, control, QuietInv, Quiet, PlaceInv,
      GateInv, LockInv, OneOpen, OpenPlaces, ShapesOK, Gates, In, Waiting, Outstanding
<1>24. ASSUME NEW d \in Devices, WorkerClears(d) PROVE QuietInv'
  BY <1>24
  DEF WorkerClears, Move, custody, workers, flight, control, QuietInv, Quiet, PlaceInv,
      GateInv, LockInv, OneOpen, OpenPlaces, ShapesOK, Gates, In, Waiting, Outstanding
<1>25. ASSUME NEW d \in Devices, WorkerUnbinds(d) PROVE QuietInv'
  BY <1>25
  DEF WorkerUnbinds, Move, custody, workers, flight, control, QuietInv, Quiet, PlaceInv,
      GateInv, LockInv, OneOpen, OpenPlaces, ShapesOK, Gates, In, Waiting, Outstanding
<1>26. ASSUME NEW d \in Devices, WorkerCloses(d) PROVE QuietInv'
  BY <1>26
  DEF WorkerCloses, Move, custody, workers, flight, control, QuietInv, Quiet, PlaceInv,
      GateInv, LockInv, OneOpen, OpenPlaces, ShapesOK, Gates, In, Waiting, Outstanding
<1>27. ASSUME NEW d \in Devices, WorkerReleases(d) PROVE QuietInv'
  BY <1>27
  DEF WorkerReleases, Move, custody, workers, flight, control, QuietInv, Quiet, PlaceInv,
      GateInv, LockInv, OneOpen, OpenPlaces, ShapesOK, Gates, In, Waiting, Outstanding
<1>28. ASSUME NEW d \in Devices, WorkerFinishes(d) PROVE QuietInv'
  BY <1>28
  DEF WorkerFinishes, custody, workers, flight, control, QuietInv, Quiet, PlaceInv, GateInv,
      LockInv, OneOpen, OpenPlaces, ShapesOK, Gates, In, Waiting, Outstanding
<1>29. ASSUME NEW d \in Devices, WaiterTakes(d) PROVE QuietInv'
  BY <1>29
  DEF WaiterTakes, RunBounded, custody, workers, flight, control, QuietInv, Quiet, PlaceInv,
      GateInv, LockInv, OneOpen, OpenPlaces, ShapesOK, Gates, In, Waiting, Outstanding
<1>30. ASSUME NEW d \in Devices, WaiterExpires(d) PROVE QuietInv'
  BY <1>30
  DEF WaiterExpires, custody, workers, flight, control, QuietInv, Quiet, PlaceInv, GateInv,
      LockInv, OneOpen, OpenPlaces, ShapesOK, Gates, In, Waiting, Outstanding
<1>31. CASE UNCHANGED vars
  BY <1>31
  DEF vars, custody, workers, flight, control, QuietInv, Quiet, PlaceInv, GateInv, LockInv,
      OneOpen, OpenPlaces, ShapesOK, Gates, In, Waiting, Outstanding
<1>32. CASE LateMonitorObserves
  BY <1>32
  DEF LateMonitorObserves, custody, workers, flight, control, QuietInv, Quiet, PlaceInv,
      GateInv, LockInv, OneOpen, OpenPlaces, ShapesOK, Gates, In, Waiting, Outstanding
<1> QED
  BY <1>1, <1>2, <1>3, <1>4, <1>5, <1>6, <1>7, <1>8, <1>9, <1>10, <1>11, <1>12, <1>13,
     <1>14, <1>15, <1>16, <1>17, <1>18, <1>19, <1>20, <1>21, <1>22, <1>23, <1>24, <1>25,
     <1>26, <1>27, <1>28, <1>29, <1>30, <1>31, <1>32
  DEF Next, Requests, LockHolder, Worker, Waiter, Upload

\* From step 2/8 on, a session is bound.
LEMMA BoundStep ==
  BoundInv /\ FlagsOK /\ ShapesOK /\ PlaceInv /\ GateInv /\ QuietInv /\ OneOpen /\ [Next]_vars
    => BoundInv'
<1> SUFFICES ASSUME BoundInv, FlagsOK, ShapesOK, PlaceInv, GateInv, QuietInv, OneOpen,
                    [Next]_vars
             PROVE  BoundInv'
  OBVIOUS
<1>1. CASE StartProvider
  BY <1>1
  DEF StartProvider, Goto, custody, workers, flight, control, egress, BoundInv, QuietInv, Quiet,
      PlaceInv, GateInv, OneOpen, OpenPlaces, ShapesOK, In
<1>2. CASE StopProvider
  BY <1>2
  DEF StopProvider, Goto, custody, workers, flight, control, egress, BoundInv, QuietInv, Quiet,
      PlaceInv, GateInv, OneOpen, OpenPlaces, ShapesOK, In
<1>3. CASE StopLocked
  BY <1>3
  DEF StopLocked, Goto, custody, workers, flight, control, egress, BoundInv, QuietInv, Quiet,
      PlaceInv, GateInv, OneOpen, OpenPlaces, ShapesOK, In
<1>4. CASE StartLocked
  BY <1>4
  DEF StartLocked, Goto, Move, custody, workers, flight, control, egress, BoundInv, QuietInv, Quiet,
      PlaceInv, GateInv, OneOpen, OpenPlaces, ShapesOK, In
<1>5. CASE UploadLogs
  BY <1>5
  DEF UploadLogs, Goto, custody, workers, flight, control, egress, BoundInv, QuietInv, Quiet,
      PlaceInv, GateInv, OneOpen, OpenPlaces, ShapesOK, In
<1>6. CASE RetireProviderDeviceLocked
  BY <1>6
  DEF RetireProviderDeviceLocked, Goto, RunBounded, custody, workers, flight, control, egress,
      BoundInv, QuietInv, Quiet, PlaceInv, GateInv, OneOpen, OpenPlaces, ShapesOK, In
<1>7. CASE RetireLogUploadDeviceLocked
  BY <1>7
  DEF RetireLogUploadDeviceLocked, Goto, RunBounded, custody, workers, flight, control, egress,
      BoundInv, QuietInv, Quiet, PlaceInv, GateInv, OneOpen, OpenPlaces, ShapesOK, In
<1>8. CASE TearDownSessionLocked
  BY <1>8
  DEF TearDownSessionLocked, Goto, RunBounded, custody, workers, flight, control, egress, BoundInv,
      QuietInv, Quiet, PlaceInv, GateInv, OneOpen, OpenPlaces, ShapesOK, In
<1>9. CASE TakeHandback
  BY <1>9
  DEF TakeHandback, Goto, custody, workers, flight, control, egress, BoundInv, QuietInv, Quiet,
      PlaceInv, GateInv, OneOpen, OpenPlaces, ShapesOK, In
<1>10. CASE ResumeProvidingLocked
  BY <1>10, UpdateBinds
  DEF ResumeProvidingLocked, Goto, Move, custody, workers, flight, control, egress, BoundInv,
      QuietInv, Quiet, PlaceInv, GateInv, OneOpen, OpenPlaces, ShapesOK, In
<1>11. CASE Admit
  BY <1>11
  DEF Admit, Goto, custody, workers, flight, control, egress, BoundInv, QuietInv, Quiet, PlaceInv,
      GateInv, OneOpen, OpenPlaces, ShapesOK, In
<1>12. CASE BindEgress
  BY <1>12, UpdateBinds
  DEF BindEgress, Goto, custody, workers, flight, control, egress, BoundInv, QuietInv, Quiet,
      PlaceInv, GateInv, OneOpen, OpenPlaces, ShapesOK, In
<1>13. CASE DeviceStep
  BY <1>13
  DEF DeviceStep, Goto, Move, Fresh, custody, workers, flight, control, egress, BoundInv, QuietInv,
      Quiet, PlaceInv, GateInv, OneOpen, OpenPlaces, ShapesOK, In
<1>14. CASE CloseHandedOffDeviceLocked
  BY <1>14
  DEF CloseHandedOffDeviceLocked, Goto, RunBounded, custody, workers, flight, control, egress,
      BoundInv, QuietInv, Quiet, PlaceInv, GateInv, OneOpen, OpenPlaces, ShapesOK, In
<1>15. CASE BuildProviderDevice
  BY <1>15, UpdateBinds
  DEF BuildProviderDevice, Goto, Move, Fresh, custody, workers, flight, control, egress, BoundInv,
      QuietInv, Quiet, PlaceInv, GateInv, OneOpen, OpenPlaces, ShapesOK, In
<1>16. CASE BuildLogUploadDevice
  BY <1>16
  DEF BuildLogUploadDevice, Goto, Move, Fresh, custody, workers, flight, control, egress, BoundInv,
      QuietInv, Quiet, PlaceInv, GateInv, OneOpen, OpenPlaces, ShapesOK, In
<1>17. CASE Unlock
  BY <1>17
  DEF Unlock, Goto, custody, workers, flight, control, egress, BoundInv, QuietInv, Quiet, PlaceInv,
      GateInv, OneOpen, OpenPlaces, ShapesOK, In
<1>18. CASE RunBoundedExpires
  BY <1>18
  DEF RunBoundedExpires, custody, workers, flight, control, egress, BoundInv, QuietInv, Quiet,
      PlaceInv, GateInv, OneOpen, OpenPlaces, ShapesOK, In
<1>19. CASE ShellFinishes
  BY <1>19
  DEF ShellFinishes, custody, workers, flight, control, egress, BoundInv, QuietInv, Quiet, PlaceInv,
      GateInv, OneOpen, OpenPlaces, ShapesOK, In
<1>20. CASE UploadEnds
  BY <1>20
  DEF UploadEnds, custody, workers, flight, control, egress, BoundInv, QuietInv, Quiet, PlaceInv,
      GateInv, OneOpen, OpenPlaces, ShapesOK, In
<1>21. CASE UploadReturns
  BY <1>21
  DEF UploadReturns, custody, workers, flight, control, egress, BoundInv, QuietInv, Quiet, PlaceInv,
      GateInv, OneOpen, OpenPlaces, ShapesOK, In
<1>22. CASE UploadReleases
  BY <1>22
  DEF UploadReleases, custody, workers, flight, control, egress, BoundInv, QuietInv, Quiet,
      PlaceInv, GateInv, OneOpen, OpenPlaces, ShapesOK, In
<1>23. CASE MonitorObserves
  BY <1>23, UpdateBinds, Zenon DEF MonitorObserves, FlagsOK, BoundInv
<1>24. ASSUME NEW d \in Devices, WorkerClears(d) PROVE BoundInv'
  BY <1>24
  DEF WorkerClears, Move, custody, workers, flight, control, egress, BoundInv, QuietInv, Quiet,
      PlaceInv, GateInv, OneOpen, OpenPlaces, ShapesOK, In
<1>25. ASSUME NEW d \in Devices, WorkerUnbinds(d) PROVE BoundInv'
  BY <1>25
  DEF WorkerUnbinds, Move, custody, workers, flight, control, egress, BoundInv, QuietInv, Quiet,
      PlaceInv, GateInv, OneOpen, OpenPlaces, ShapesOK, In
<1>26. ASSUME NEW d \in Devices, WorkerCloses(d) PROVE BoundInv'
  BY <1>26
  DEF WorkerCloses, Move, custody, workers, flight, control, egress, BoundInv, QuietInv, Quiet,
      PlaceInv, GateInv, OneOpen, OpenPlaces, ShapesOK, In
<1>27. ASSUME NEW d \in Devices, WorkerReleases(d) PROVE BoundInv'
  BY <1>27
  DEF WorkerReleases, Move, custody, workers, flight, control, egress, BoundInv, QuietInv, Quiet,
      PlaceInv, GateInv, OneOpen, OpenPlaces, ShapesOK, In
<1>28. ASSUME NEW d \in Devices, WorkerFinishes(d) PROVE BoundInv'
  BY <1>28
  DEF WorkerFinishes, custody, workers, flight, control, egress, BoundInv, QuietInv, Quiet,
      PlaceInv, GateInv, OneOpen, OpenPlaces, ShapesOK, In
<1>29. ASSUME NEW d \in Devices, WaiterTakes(d) PROVE BoundInv'
  BY <1>29
  DEF WaiterTakes, RunBounded, custody, workers, flight, control, egress, BoundInv, QuietInv, Quiet,
      PlaceInv, GateInv, OneOpen, OpenPlaces, ShapesOK, In
<1>30. ASSUME NEW d \in Devices, WaiterExpires(d) PROVE BoundInv'
  BY <1>30
  DEF WaiterExpires, custody, workers, flight, control, egress, BoundInv, QuietInv, Quiet, PlaceInv,
      GateInv, OneOpen, OpenPlaces, ShapesOK, In
<1>31. CASE UNCHANGED vars
  BY <1>31
  DEF vars, custody, workers, flight, control, egress, BoundInv, QuietInv, Quiet, PlaceInv, GateInv,
      OneOpen, OpenPlaces, ShapesOK, In
<1>32. CASE LateMonitorObserves
  BY <1>32
  DEF LateMonitorObserves, custody, workers, flight, control, egress, BoundInv, QuietInv, Quiet,
      PlaceInv, GateInv, OneOpen, OpenPlaces, ShapesOK, In
<1> QED
  BY <1>1, <1>2, <1>3, <1>4, <1>5, <1>6, <1>7, <1>8, <1>9, <1>10, <1>11, <1>12, <1>13,
     <1>14, <1>15, <1>16, <1>17, <1>18, <1>19, <1>20, <1>21, <1>22, <1>23, <1>24, <1>25,
     <1>26, <1>27, <1>28, <1>29, <1>30, <1>31, <1>32
  DEF Next, Requests, LockHolder, Worker, Waiter, Upload

\* The device of the upload's call, and the one the flight keeps.
LEMMA CallStep == CallInv /\ ShapesOK /\ PlaceInv /\ [Next]_vars => CallInv'
<1> SUFFICES ASSUME CallInv, ShapesOK, PlaceInv, [Next]_vars PROVE CallInv'
  OBVIOUS
<1>1. CASE StartProvider
  BY <1>1, DevicesAssumption
  DEF StartProvider, Goto, custody, workers, flight, control, CallInv, PlaceInv, ShapesOK,
      In
<1>2. CASE StopProvider
  BY <1>2, DevicesAssumption
  DEF StopProvider, Goto, custody, workers, flight, control, CallInv, PlaceInv, ShapesOK, In
<1>3. CASE StopLocked
  BY <1>3, DevicesAssumption
  DEF StopLocked, Goto, custody, workers, flight, control, CallInv, PlaceInv, ShapesOK, In
<1>4. CASE StartLocked
  BY <1>4, DevicesAssumption
  DEF StartLocked, Goto, Move, custody, workers, flight, control, CallInv, PlaceInv,
      ShapesOK, In
<1>5. CASE UploadLogs
  BY <1>5, DevicesAssumption
  DEF UploadLogs, Goto, custody, workers, flight, control, CallInv, PlaceInv, ShapesOK, In
<1>6. CASE RetireProviderDeviceLocked
  BY <1>6, DevicesAssumption
  DEF RetireProviderDeviceLocked, Goto, RunBounded, custody, workers, flight, control,
      CallInv, PlaceInv, ShapesOK, In
<1>7. CASE RetireLogUploadDeviceLocked
  BY <1>7, DevicesAssumption
  DEF RetireLogUploadDeviceLocked, Goto, RunBounded, custody, workers, flight, control,
      CallInv, PlaceInv, ShapesOK, In
<1>8. CASE TearDownSessionLocked
  BY <1>8, DevicesAssumption
  DEF TearDownSessionLocked, Goto, RunBounded, custody, workers, flight, control, CallInv,
      PlaceInv, ShapesOK, In
<1>9. CASE TakeHandback
  BY <1>9, DevicesAssumption
  DEF TakeHandback, Goto, custody, workers, flight, control, CallInv, PlaceInv, ShapesOK, In
<1>10. CASE ResumeProvidingLocked
  BY <1>10, DevicesAssumption
  DEF ResumeProvidingLocked, Goto, Move, custody, workers, flight, control, CallInv,
      PlaceInv, ShapesOK, In
<1>11. CASE Admit
  BY <1>11, DevicesAssumption
  DEF Admit, Goto, custody, workers, flight, control, CallInv, PlaceInv, ShapesOK, In
<1>12. CASE BindEgress
  BY <1>12, DevicesAssumption
  DEF BindEgress, Goto, custody, workers, flight, control, CallInv, PlaceInv, ShapesOK, In
<1>13. CASE DeviceStep
  BY <1>13, DevicesAssumption
  DEF DeviceStep, Goto, Move, Fresh, custody, workers, flight, control, CallInv, PlaceInv,
      ShapesOK, In
<1>14. CASE CloseHandedOffDeviceLocked
  BY <1>14, DevicesAssumption
  DEF CloseHandedOffDeviceLocked, Goto, RunBounded, custody, workers, flight, control,
      CallInv, PlaceInv, ShapesOK, In
<1>15. CASE BuildProviderDevice
  BY <1>15, DevicesAssumption
  DEF BuildProviderDevice, Goto, Move, Fresh, custody, workers, flight, control, CallInv,
      PlaceInv, ShapesOK, In
<1>16. CASE BuildLogUploadDevice
  BY <1>16, DevicesAssumption
  DEF BuildLogUploadDevice, Goto, Move, Fresh, custody, workers, flight, control, CallInv,
      PlaceInv, ShapesOK, In
<1>17. CASE Unlock
  BY <1>17, DevicesAssumption
  DEF Unlock, Goto, custody, workers, flight, control, CallInv, PlaceInv, ShapesOK, In
<1>18. CASE RunBoundedExpires
  BY <1>18, DevicesAssumption
  DEF RunBoundedExpires, custody, workers, flight, control, CallInv, PlaceInv, ShapesOK, In
<1>19. CASE ShellFinishes
  BY <1>19, DevicesAssumption
  DEF ShellFinishes, custody, workers, flight, control, CallInv, PlaceInv, ShapesOK, In
<1>20. CASE UploadEnds
  BY <1>20, DevicesAssumption
  DEF UploadEnds, custody, workers, flight, control, CallInv, PlaceInv, ShapesOK, In
<1>21. CASE UploadReturns
  BY <1>21, DevicesAssumption
  DEF UploadReturns, custody, workers, flight, control, CallInv, PlaceInv, ShapesOK, In
<1>22. CASE UploadReleases
  BY <1>22, DevicesAssumption
  DEF UploadReleases, custody, workers, flight, control, CallInv, PlaceInv, ShapesOK, In
<1>23. CASE MonitorObserves
  BY <1>23, DevicesAssumption
  DEF MonitorObserves, custody, workers, flight, control, CallInv, PlaceInv, ShapesOK, In
<1>24. ASSUME NEW d \in Devices, WorkerClears(d) PROVE CallInv'
  BY <1>24, DevicesAssumption
  DEF WorkerClears, Move, custody, workers, flight, control, CallInv, PlaceInv, ShapesOK, In
<1>25. ASSUME NEW d \in Devices, WorkerUnbinds(d) PROVE CallInv'
  BY <1>25, DevicesAssumption
  DEF WorkerUnbinds, Move, custody, workers, flight, control, CallInv, PlaceInv, ShapesOK,
      In
<1>26. ASSUME NEW d \in Devices, WorkerCloses(d) PROVE CallInv'
  BY <1>26, DevicesAssumption
  DEF WorkerCloses, Move, custody, workers, flight, control, CallInv, PlaceInv, ShapesOK, In
<1>27. ASSUME NEW d \in Devices, WorkerReleases(d) PROVE CallInv'
  BY <1>27, DevicesAssumption
  DEF WorkerReleases, Move, custody, workers, flight, control, CallInv, PlaceInv, ShapesOK,
      In
<1>28. ASSUME NEW d \in Devices, WorkerFinishes(d) PROVE CallInv'
  BY <1>28, DevicesAssumption
  DEF WorkerFinishes, custody, workers, flight, control, CallInv, PlaceInv, ShapesOK, In
<1>29. ASSUME NEW d \in Devices, WaiterTakes(d) PROVE CallInv'
  BY <1>29, DevicesAssumption
  DEF WaiterTakes, RunBounded, custody, workers, flight, control, CallInv, PlaceInv,
      ShapesOK, In
<1>30. ASSUME NEW d \in Devices, WaiterExpires(d) PROVE CallInv'
  BY <1>30, DevicesAssumption
  DEF WaiterExpires, custody, workers, flight, control, CallInv, PlaceInv, ShapesOK, In
<1>31. CASE UNCHANGED vars
  BY <1>31, DevicesAssumption
  DEF vars, custody, workers, flight, control, CallInv, PlaceInv, ShapesOK, In
<1>32. CASE LateMonitorObserves
  BY <1>32, DevicesAssumption
  DEF LateMonitorObserves, custody, workers, flight, control, CallInv, PlaceInv, ShapesOK, In
<1> QED
  BY <1>1, <1>2, <1>3, <1>4, <1>5, <1>6, <1>7, <1>8, <1>9, <1>10, <1>11, <1>12, <1>13,
     <1>14, <1>15, <1>16, <1>17, <1>18, <1>19, <1>20, <1>21, <1>22, <1>23, <1>24, <1>25,
     <1>26, <1>27, <1>28, <1>29, <1>30, <1>31, <1>32
  DEF Next, Requests, LockHolder, Worker, Waiter, Upload

-----------------------------------------------------------------------------
(* The custody of one identity.                                            *)

LifeOf(place) ==
  IF place \in OpenPlaces THEN "open" ELSE IF place \in ClosingPlaces THEN "closing" ELSE "none"

\* A device that changes hands changes its life, and no other device's.
LEMMA LifeMoves ==
  ASSUME ShapesOK, NEW d \in Devices, NEW place \in Places,
         where' = [where EXCEPT ![d] = place]
  PROVE  life' = [life EXCEPT ![d] = LifeOf(place)] /\ life[d] = LifeOf(where[d])
<1>1. where' \in [Devices -> Places]
  BY DEF ShapesOK
<1> QED
  BY <1>1 DEF ShapesOK, life, LifeOf

\* A device that stays open, or stays closing, does not move in the custody.
LEMMA LifeStays ==
  ASSUME ShapesOK, NEW d \in Devices, NEW place \in Places,
         where' = [where EXCEPT ![d] = place], LifeOf(place) = LifeOf(where[d])
  PROVE  UNCHANGED life
<1>1. life' = [life EXCEPT ![d] = LifeOf(place)] /\ life[d] = LifeOf(where[d])
  BY LifeMoves
<1> QED
  BY <1>1 DEF life

\* A fresh device that is put into a role is built.
LEMMA LifeBuilds ==
  ASSUME ShapesOK, \A e \in Devices : where[e] \notin OpenPlaces,
         NEW d \in Devices, where[d] = "none", NEW place \in OpenPlaces,
         where' = [where EXCEPT ![d] = place]
  PROVE  Custody!Next
<1>1. life' = [life EXCEPT ![d] = "open"] /\ life[d] = "none"
  BY LifeMoves DEF LifeOf, Places, OpenPlaces, ClosingPlaces
<1>2. \A e \in Devices : life[e] # "open"
  BY DEF life
<1> QED
  BY <1>1, <1>2 DEF Custody!Next, Custody!Build

\* An open device that a teardown is to close is closing.
LEMMA LifeCloses ==
  ASSUME ShapesOK, NEW d \in Devices, where[d] \in OpenPlaces, NEW place \in ClosingPlaces,
         where' = [where EXCEPT ![d] = place]
  PROVE  Custody!Next
<1>1. life' = [life EXCEPT ![d] = "closing"] /\ life[d] = "open"
  BY LifeMoves DEF LifeOf, Places, OpenPlaces, ClosingPlaces
<1> QED
  BY <1>1 DEF Custody!Next, Custody!Close

\* A closing device whose object goes is released.
LEMMA LifeReleases ==
  ASSUME ShapesOK, NEW d \in Devices, where[d] \in ClosingPlaces,
         where' = [where EXCEPT ![d] = "none"]
  PROVE  Custody!Next
<1>1. life' = [life EXCEPT ![d] = "none"] /\ life[d] = "closing"
  BY LifeMoves DEF LifeOf, Places, OpenPlaces, ClosingPlaces
<1> QED
  BY <1>1 DEF Custody!Next, Custody!Release

\* Every step of the service is a step of the custody, or leaves it alone.
LEMMA CustodyStep == ShapesOK /\ PlaceInv /\ CallInv /\ [Next]_vars => [Custody!Next]_life
<1> SUFFICES ASSUME ShapesOK, PlaceInv, CallInv, [Next]_vars PROVE [Custody!Next]_life
  OBVIOUS
<1>1. CASE StartProvider
  BY <1>1 DEF StartProvider, Goto, custody, workers, flight, control, life
<1>2. CASE StopProvider
  BY <1>2 DEF StopProvider, Goto, custody, workers, flight, control, life
<1>3. CASE StopLocked
  BY <1>3 DEF StopLocked, Goto, custody, workers, flight, control, life
<1>4. CASE StartLocked
  <2>1. CASE UNCHANGED where
    BY <2>1 DEF life
  <2>2. ASSUME NEW d \in Devices, where[d] = "provider", where' = [where EXCEPT ![d] = "handed"]
        PROVE  [Custody!Next]_life
    BY <2>2, LifeStays DEF OpenPlaces, ClosingPlaces, Places, LifeOf
  <2> QED
    BY <1>4, <2>1, <2>2 DEF StartLocked, Move, In, custody
<1>5. CASE UploadLogs
  BY <1>5 DEF UploadLogs, Goto, custody, workers, flight, control, life
<1>6. CASE RetireProviderDeviceLocked
  <2>1. CASE UNCHANGED where
    BY <2>1 DEF life
  <2>2. ASSUME NEW d \in Devices, where[d] = "provider", where' = [where EXCEPT ![d] = "closing"]
        PROVE  [Custody!Next]_life
    BY <2>2, LifeCloses DEF OpenPlaces, ClosingPlaces, Places, LifeOf
  <2> QED
    BY <1>6, <2>1, <2>2 DEF RetireProviderDeviceLocked, RunBounded, In, custody
<1>7. CASE RetireLogUploadDeviceLocked
  <2>1. CASE UNCHANGED where
    BY <2>1 DEF life
  <2>2. ASSUME NEW d \in Devices, where[d] = "log", where' = [where EXCEPT ![d] = "closing"]
        PROVE  [Custody!Next]_life
    BY <2>2, LifeCloses DEF OpenPlaces, ClosingPlaces, Places, LifeOf
  <2> QED
    BY <1>7, <2>1, <2>2 DEF RetireLogUploadDeviceLocked, RunBounded, In, custody
<1>8. CASE TearDownSessionLocked
  <2>1. CASE UNCHANGED where
    BY <2>1 DEF life
  <2>2. ASSUME NEW d \in Devices, where[d] = "session", where' = [where EXCEPT ![d] = "ending"]
        PROVE  [Custody!Next]_life
    BY <2>2, LifeCloses DEF OpenPlaces, ClosingPlaces, Places, LifeOf
  <2>3. ASSUME NEW d \in Devices, where[d] = "session", where' = [where EXCEPT ![d] = "clearing"]
        PROVE  [Custody!Next]_life
    BY <2>3, LifeStays DEF OpenPlaces, ClosingPlaces, Places, LifeOf
  <2> QED
    BY <1>8, <2>1, <2>2, <2>3 DEF TearDownSessionLocked, RunBounded, In, custody
<1>9. CASE TakeHandback
  BY <1>9 DEF TakeHandback, Goto, custody, workers, flight, control, life
<1>10. CASE ResumeProvidingLocked
  <2>1. CASE UNCHANGED where
    BY <2>1 DEF life
  <2>2. ASSUME NEW d \in Devices, where[d] = "back", where' = [where EXCEPT ![d] = "provider"]
        PROVE  [Custody!Next]_life
    BY <2>2, LifeStays DEF OpenPlaces, ClosingPlaces, Places, LifeOf
  <2> QED
    BY <1>10, <2>1, <2>2 DEF ResumeProvidingLocked, Move, In, custody
<1>11. CASE Admit
  BY <1>11 DEF Admit, Goto, custody, workers, flight, control, life
<1>12. CASE BindEgress
  BY <1>12 DEF BindEgress, Goto, custody, workers, flight, control, life
<1>13. CASE DeviceStep
  <2>1. CASE UNCHANGED where
    BY <2>1 DEF life
  <2>2. ASSUME NEW d \in Devices, where[d] = "handed", where' = [where EXCEPT ![d] = "session"]
        PROVE  [Custody!Next]_life
    BY <2>2, LifeStays DEF OpenPlaces, ClosingPlaces, Places, LifeOf
  <2>3. ASSUME NEW d \in Fresh, In("handed") = {}, where' = [where EXCEPT ![d] = "session"]
        PROVE  [Custody!Next]_life
    <3>1. \A e \in Devices : where[e] \notin OpenPlaces
      BY <1>13, <2>3 DEF DeviceStep, PlaceInv, OpenPlaces, In
    <3> QED
      BY <2>3, <3>1, LifeBuilds DEF Fresh, OpenPlaces
  <2> QED
    BY <1>13, <2>1, <2>2, <2>3 DEF DeviceStep, Move, In, custody
<1>14. CASE CloseHandedOffDeviceLocked
  <2>1. CASE UNCHANGED where
    BY <2>1 DEF life
  <2>2. ASSUME NEW d \in Devices, where[d] = "handed", where' = [where EXCEPT ![d] = "closing"]
        PROVE  [Custody!Next]_life
    BY <2>2, LifeCloses DEF OpenPlaces, ClosingPlaces, Places, LifeOf
  <2> QED
    BY <1>14, <2>1, <2>2 DEF CloseHandedOffDeviceLocked, RunBounded, In, custody
<1>15. CASE BuildProviderDevice
  <2>1. CASE UNCHANGED where
    BY <2>1 DEF life
  <2>2. ASSUME NEW d \in Fresh, where' = [where EXCEPT ![d] = "provider"]
        PROVE  [Custody!Next]_life
    <3>1. \A e \in Devices : where[e] \notin OpenPlaces
      BY <1>15 DEF BuildProviderDevice, PlaceInv, OpenPlaces
    <3> QED
      BY <2>2, <3>1, LifeBuilds DEF Fresh, OpenPlaces
  <2> QED
    BY <1>15, <2>1, <2>2 DEF BuildProviderDevice, Move, custody
<1>16. CASE BuildLogUploadDevice
  <2>1. CASE UNCHANGED where
    BY <2>1 DEF life
  <2>2. ASSUME NEW d \in Fresh, where' = [where EXCEPT ![d] = "log"]
        PROVE  [Custody!Next]_life
    <3>1. \A e \in Devices : where[e] \notin OpenPlaces
      BY <1>16 DEF BuildLogUploadDevice, PlaceInv, OpenPlaces
    <3> QED
      BY <2>2, <3>1, LifeBuilds DEF Fresh, OpenPlaces
  <2> QED
    BY <1>16, <2>1, <2>2 DEF BuildLogUploadDevice, Move, custody
<1>17. CASE Unlock
  BY <1>17 DEF Unlock, Goto, custody, workers, flight, control, life
<1>18. CASE RunBoundedExpires
  BY <1>18 DEF RunBoundedExpires, custody, workers, flight, control, life
<1>19. CASE ShellFinishes
  BY <1>19 DEF ShellFinishes, custody, workers, flight, control, life
<1>20. CASE UploadEnds
  BY <1>20 DEF UploadEnds, custody, workers, flight, control, life
<1>21. CASE UploadReturns
  BY <1>21 DEF UploadReturns, custody, workers, flight, control, life
<1>22. CASE UploadReleases
  <2>1. CASE \A d \in Devices : where[d] # "flight"
    BY <1>22, <2>1 DEF UploadReleases, ShapesOK, life
  <2>2. ASSUME NEW d \in Devices, where[d] = "flight"
        PROVE  [Custody!Next]_life
    <3>1. where' = [where EXCEPT ![d] = "none"]
      BY <1>22, <2>2 DEF UploadReleases, ShapesOK, CallInv
    <3> QED
      BY <2>2, <3>1, LifeReleases DEF OpenPlaces, ClosingPlaces, Places, LifeOf
  <2> QED
    BY <2>1, <2>2
<1>23. CASE MonitorObserves
  BY <1>23 DEF MonitorObserves, custody, workers, flight, control, life
<1>24. ASSUME NEW d \in Devices, WorkerClears(d) PROVE [Custody!Next]_life
  <2>1. CASE where' = [where EXCEPT ![d] = "back"]
    BY <1>24, <2>1, LifeStays DEF WorkerClears, OpenPlaces, ClosingPlaces, Places, LifeOf
  <2>2. CASE where' = [where EXCEPT ![d] = "closing"]
    BY <1>24, <2>2, LifeCloses DEF WorkerClears, OpenPlaces, ClosingPlaces, Places, LifeOf
  <2> QED
    BY <1>24, <2>1, <2>2 DEF WorkerClears, Move
<1>25. ASSUME NEW d \in Devices, WorkerUnbinds(d) PROVE [Custody!Next]_life
  BY <1>25, LifeStays DEF WorkerUnbinds, Move, OpenPlaces, ClosingPlaces, Places, LifeOf
<1>26. ASSUME NEW d \in Devices, WorkerCloses(d) PROVE [Custody!Next]_life
  BY <1>26, LifeStays DEF WorkerCloses, Move, OpenPlaces, ClosingPlaces, Places, LifeOf
<1>27. ASSUME NEW d \in Devices, WorkerReleases(d) PROVE [Custody!Next]_life
  <2>1. CASE call = d
    BY <1>27, <2>1, LifeStays
    DEF WorkerReleases, Move, OpenPlaces, ClosingPlaces, Places, LifeOf
  <2>2. CASE call # d
    BY <1>27, <2>2, LifeReleases
    DEF WorkerReleases, Move, OpenPlaces, ClosingPlaces, Places, LifeOf
  <2> QED
    BY <2>1, <2>2
<1>28. ASSUME NEW d \in Devices, WorkerFinishes(d) PROVE [Custody!Next]_life
  BY <1>28 DEF WorkerFinishes, custody, workers, flight, control, life
<1>29. ASSUME NEW d \in Devices, WaiterTakes(d) PROVE [Custody!Next]_life
  BY <1>29, LifeCloses DEF WaiterTakes, RunBounded, OpenPlaces, ClosingPlaces, Places, LifeOf
<1>30. ASSUME NEW d \in Devices, WaiterExpires(d) PROVE [Custody!Next]_life
  BY <1>30 DEF WaiterExpires, custody, workers, flight, control, life
<1>31. CASE UNCHANGED vars
  BY <1>31 DEF vars, custody, workers, flight, control, life
<1>32. CASE LateMonitorObserves
  BY <1>32 DEF LateMonitorObserves, custody, workers, flight, control, life
<1> QED
  BY <1>1, <1>2, <1>3, <1>4, <1>5, <1>6, <1>7, <1>8, <1>9, <1>10, <1>11, <1>12, <1>13,
     <1>14, <1>15, <1>16, <1>17, <1>18, <1>19, <1>20, <1>21, <1>22, <1>23, <1>24, <1>25,
     <1>26, <1>27, <1>28, <1>29, <1>30, <1>31, <1>32
  DEF Next, Requests, LockHolder, Worker, Waiter, Upload

-----------------------------------------------------------------------------

IInv ==
  /\ FlagsOK /\ ShapesOK /\ PlaceInv /\ GateInv /\ LockInv /\ OneOpen
  /\ QuietInv /\ BoundInv /\ CallInv

LEMMA InitIInv == Init => IInv
<1> SUFFICES ASSUME Init PROVE IInv
  OBVIOUS
<1>1. FlagsOK
  BY Zenon DEF Init, FlagsOK
<1>2. ShapesOK
  BY DEF Init, ShapesOK, Places, OpenPlaces, ClosingPlaces, Gates, Teardowns, Steps, Operations
<1>3. PlaceInv /\ GateInv /\ LockInv /\ OneOpen
  BY DEF Init, PlaceInv, GateInv, LockInv, OneOpen, OpenPlaces, Waiting
<1>4. QuietInv /\ BoundInv /\ CallInv
  BY DEF Init, QuietInv, BoundInv, CallInv, In
<1> QED
  BY <1>1, <1>2, <1>3, <1>4 DEF IInv

LEMMA NextIInv == IInv /\ [Next]_vars => IInv'
  BY FlagsStep, ShapesStep, PlaceStep, GateStep, LockStep, OpenStep, QuietStep, BoundStep,
     CallStep DEF IInv

\* The inductive invariant holds of every behaviour.
THEOREM SpecIInv == Spec => []IInv
  BY InitIInv, NextIInv, PTL DEF Spec

\* The types, for any set of device objects.
THEOREM DevicesTypeCorrect == Spec => []TypeOK
<1>1. IInv => TypeOK
  BY DEF IInv, FlagsOK, ShapesOK, TypeOK
<1> QED
  BY <1>1, SpecIInv, PTL

\* The upload's call never runs on a released device.
THEOREM CallDeviceStaysAlive == Spec => []CallDeviceIsAlive
<1>1. IInv => CallDeviceIsAlive
  BY DEF IInv, CallInv, CallDeviceIsAlive
<1> QED
  BY <1>1, SpecIInv, PTL

\* No teardown of an earlier device is outstanding beside a session, but for a
\* log upload waiter's.
THEOREM NoTeardownBesideSession == Spec => []SessionBesideNoTeardown
<1>1. IInv => SessionBesideNoTeardown
  BY DEF IInv, QuietInv, Quiet, SessionBesideNoTeardown
<1> QED
  BY <1>1, SpecIInv, PTL

\* A session is bound whenever its monitor had an interface to bind: no late worker
\* or monitor of an earlier teardown takes the binding, and a lost default route
\* does not while the interface exists.
THEOREM SessionKeepsBinding == Spec => []SessionStaysBound
<1>1. IInv => SessionStaysBound
  BY DEF IInv, BoundInv, SessionStaysBound
<1> QED
  BY <1>1, SpecIInv, PTL

\* The service implements the custody of one identity: at most one device open, none
\* back from a teardown, none released unclosed.
THEOREM ImplementsCustody == Spec => OneIdentityCustody
<1>1. Init => Custody!Init
  BY DEF Init, Custody!Init, life, OpenPlaces, ClosingPlaces
<1>2. IInv /\ [Next]_vars => [Custody!Next]_life
  BY CustodyStep DEF IInv
<1> QED
  BY <1>1, <1>2, SpecIInv, PTL DEF Spec, OneIdentityCustody, Custody!Spec

-----------------------------------------------------------------------------
(* The admission of a session's device.                                     *)

\* A start past its admission is in a process that does not restart.
RestartInv == pc \in {"bind", "device"} => ~restartPending

\* What one step may do: only a start's device step gives a session a device, and
\* only a start that is refused asks for the restart.
Opening == In("session") = {} /\ In("session")' # {} => DeviceStep

Committing == restartPending' # restartPending => Admit /\ restartPending'

\* No step gives a device or asks for a restart elsewhere.
LEMMA AdmissionKept ==
  ShapesOK /\ FlagsOK /\ RestartInv /\ [Next]_vars => Opening /\ Committing /\ RestartInv'
<1> SUFFICES ASSUME ShapesOK, FlagsOK, RestartInv, [Next]_vars
             PROVE  Opening /\ Committing /\ RestartInv'
  OBVIOUS
<1> USE DEF ShapesOK, FlagsOK, RestartInv, Opening, Committing
<1>1. CASE StartProvider
  BY <1>1 DEF StartProvider, In, Goto, custody, control
<1>2. CASE StopProvider
  BY <1>2 DEF StopProvider, In, Goto, custody, control
<1>3. CASE StopLocked
  BY <1>3 DEF StopLocked, In, Goto, custody, control
<1>4. CASE StartLocked
  BY <1>4 DEF StartLocked, In, Move, Goto, custody, control
<1>5. CASE UploadLogs
  BY <1>5 DEF UploadLogs, In, Goto, custody, control
<1>6. CASE RetireProviderDeviceLocked
  BY <1>6 DEF RetireProviderDeviceLocked, In, RunBounded, Goto, custody, control
<1>7. CASE RetireLogUploadDeviceLocked
  BY <1>7 DEF RetireLogUploadDeviceLocked, In, RunBounded, Goto, custody, control
<1>8. CASE TearDownSessionLocked
  BY <1>8 DEF TearDownSessionLocked, In, RunBounded, Goto, custody, control
<1>9. CASE TakeHandback
  BY <1>9 DEF TakeHandback, In, Goto, custody, control
<1>10. CASE ResumeProvidingLocked
  BY <1>10 DEF ResumeProvidingLocked, In, Move, Goto, custody, control
<1>11. CASE Admit
  <2>1. Opening
    BY <1>11 DEF Admit, In, custody
  <2>2. restartPending \in BOOLEAN /\ restartPending' \in BOOLEAN
    BY <1>11 DEF Admit
  <2>3. restartPending => restartPending'
    BY <1>11 DEF Admit
  <2>4. Committing
    BY <1>11, <2>2, <2>3, Zenon DEF Committing
  <2>5. ASSUME pc' \in {"bind", "device"} PROVE ~restartPending'
    BY <1>11, <2>5 DEF Admit, Goto
  <2> QED
    BY <2>1, <2>4, <2>5
<1>12. CASE BindEgress
  BY <1>12 DEF BindEgress, In, Goto, custody, control
<1>13. CASE DeviceStep
  BY <1>13 DEF DeviceStep, In, Goto, custody, control
<1>14. CASE CloseHandedOffDeviceLocked
  BY <1>14 DEF CloseHandedOffDeviceLocked, In, RunBounded, Goto, custody, control
<1>15. CASE BuildProviderDevice
  BY <1>15 DEF BuildProviderDevice, In, Move, Fresh, Goto, custody, control
<1>16. CASE BuildLogUploadDevice
  BY <1>16 DEF BuildLogUploadDevice, In, Move, Fresh, Goto, custody, control
<1>17. CASE Unlock
  BY <1>17 DEF Unlock, In, Goto, custody, control
<1>18. CASE RunBoundedExpires
  BY <1>18 DEF RunBoundedExpires, In, custody, control
<1>19. CASE ShellFinishes
  BY <1>19 DEF ShellFinishes, In, custody, control
<1>20. CASE UploadEnds
  BY <1>20 DEF UploadEnds, In, custody, control
<1>21. CASE UploadReturns
  BY <1>21 DEF UploadReturns, In, custody, control
<1>22. CASE UploadReleases
  BY <1>22 DEF UploadReleases, In, custody, control
<1>23. CASE MonitorObserves
  BY <1>23 DEF MonitorObserves, In, custody, control
<1>24. ASSUME NEW d \in Devices, WorkerClears(d) PROVE Opening /\ Committing /\ RestartInv'
  BY <1>24 DEF WorkerClears, In, Move, custody, control
<1>25. ASSUME NEW d \in Devices, WorkerUnbinds(d) PROVE Opening /\ Committing /\ RestartInv'
  BY <1>25 DEF WorkerUnbinds, In, Move, custody, control
<1>26. ASSUME NEW d \in Devices, WorkerCloses(d) PROVE Opening /\ Committing /\ RestartInv'
  BY <1>26 DEF WorkerCloses, In, Move, custody, control
<1>27. ASSUME NEW d \in Devices, WorkerReleases(d) PROVE Opening /\ Committing /\ RestartInv'
  BY <1>27 DEF WorkerReleases, In, Move, custody, control
<1>28. ASSUME NEW d \in Devices, WorkerFinishes(d) PROVE Opening /\ Committing /\ RestartInv'
  BY <1>28 DEF WorkerFinishes, In, custody, control
<1>29. ASSUME NEW d \in Devices, WaiterTakes(d) PROVE Opening /\ Committing /\ RestartInv'
  BY <1>29 DEF WaiterTakes, In, RunBounded, custody, control
<1>30. ASSUME NEW d \in Devices, WaiterExpires(d) PROVE Opening /\ Committing /\ RestartInv'
  BY <1>30 DEF WaiterExpires, In, custody, control
<1>31. CASE UNCHANGED vars
  BY <1>31 DEF vars, In, custody, control
<1>32. CASE LateMonitorObserves
  BY <1>32 DEF LateMonitorObserves, In, custody, control
<1> QED
  BY <1>1, <1>2, <1>3, <1>4, <1>5, <1>6, <1>7, <1>8, <1>9, <1>10, <1>11, <1>12, <1>13,
     <1>14, <1>15, <1>16, <1>17, <1>18, <1>19, <1>20, <1>21, <1>22, <1>23, <1>24, <1>25, <1>26,
     <1>27, <1>28, <1>29, <1>30, <1>31, <1>32
  DEF Next, Requests, LockHolder, Worker, Waiter, Upload

\* Every step of the service is one of the admission's, or leaves it alone.
LEMMA AdmissionStep ==
  ASSUME IInv, IInv', RestartInv, [Next]_vars
  PROVE  [Admission!Next]_<<In("session") # {}, TeardownPending, restartPending>>
<1> DEFINE has == In("session") # {}
<1>1. Opening /\ Committing
  BY AdmissionKept DEF IInv
<1>2. (has => ~TeardownPending) /\ (has => ~TeardownPending)'
  BY DEF IInv, QuietInv, Quiet, TeardownPending
<1>3. restartPending \in BOOLEAN /\ restartPending' \in BOOLEAN
  BY DEF IInv, FlagsOK
<1>4. TeardownPending \in BOOLEAN /\ TeardownPending' \in BOOLEAN
  BY DEF TeardownPending
<1>5. has \in BOOLEAN /\ has' \in BOOLEAN
  OBVIOUS
<1>6. CASE restartPending' # restartPending
  <2>1. Admit /\ restartPending'
    BY <1>1, <1>6 DEF Committing
  <2>2. ~has /\ (~has)'
    BY <2>1 DEF Admit, IInv, PlaceInv, In, custody
  <2>3. UNCHANGED TeardownPending
    BY <2>1 DEF Admit, TeardownPending, custody, workers
  <2> QED
    BY <1>3, <2>1, <2>2, <2>3 DEF Admission!Next, Admission!AskRestart
<1>7. CASE restartPending' = restartPending /\ ~has /\ has'
  <2>1. DeviceStep
    BY <1>1, <1>7 DEF Opening
  <2>2. ~TeardownPending /\ ~restartPending
    BY <2>1 DEF DeviceStep, RestartInv, IInv, QuietInv, Quiet, TeardownPending
  <2>3. UNCHANGED TeardownPending
    BY <1>2, <1>7, <1>4, <2>2, Zenon
  <2> QED
    BY <1>7, <1>5, <2>2, <2>3, Zenon DEF Admission!Next, Admission!Open
<1>8. CASE restartPending' = restartPending /\ has /\ ~has'
  BY <1>8 DEF Admission!Next, Admission!Close, TeardownPending
<1>9. CASE restartPending' = restartPending /\ has /\ has'
  <2>1. UNCHANGED TeardownPending
    BY <1>2, <1>9, <1>4, Zenon
  <2>2. UNCHANGED has
    BY <1>9, <1>5, Zenon
  <2> QED
    BY <1>9, <2>1, <2>2
<1>10. CASE restartPending' = restartPending /\ ~has /\ ~has'
  BY <1>10 DEF Admission!Next, Admission!Hold, Admission!Finish, TeardownPending
<1> QED
  BY <1>6, <1>7, <1>8, <1>9, <1>10

\* The service keeps DeviceAdmission with every device in play: a session gets one
\* only with no teardown pending and no restart under way, for any number of
\* device objects (StartLocked's refusals, SelfRestartPending).
THEOREM DevicesImplementAdmission == Spec => DevicesAreAdmitted
<1>1. Init => RestartInv /\ Admission!Init
  BY DEF Init, RestartInv, Admission!Init, In, TeardownPending
<1>2. IInv /\ RestartInv /\ [Next]_vars => RestartInv'
  BY AdmissionKept DEF IInv
<1>3. IInv /\ IInv' /\ RestartInv /\ [Next]_vars
        => [Admission!Next]_<<In("session") # {}, TeardownPending, restartPending>>
  BY AdmissionStep
<1> QED
  BY <1>1, <1>2, <1>3, SpecIInv, PTL DEF Spec, DevicesAreAdmitted, Admission!Spec
=============================================================================
