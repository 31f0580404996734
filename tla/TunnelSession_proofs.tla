------------------------ MODULE TunnelSession_proofs ------------------------
(***************************************************************************)
(* Proofs about TunnelSession, for every set of requests, every staged      *)
(* stop and with or without firewall failures and crashes.                  *)
(*                                                                         *)
(* The inductive invariant IInv is a conjunction of named parts, each       *)
(* proved from the parts before it:                                        *)
(*   LockInv    who may be at which step of which operation;                *)
(*   IntentInv  what the user last asked for, by where the threads are;     *)
(*   SessionInv where a session's device can exist;                         *)
(*   OwnerInv   where the route owner, its marker and the routes can exist; *)
(*   PolicyInv  what the firewall and its watchdog can hold.                *)
(* MirrorInv (the status mirror), StagedInv (a --stop-after bring-up) and   *)
(* GrantInv (where a ticket, its watch and its evaluator can be) are        *)
(* inductive relative to it. From them the session is shown to keep the     *)
(* two interfaces it shares with other components: CaptureGrant with        *)
(* CaptureReadiness, DeviceAdmission with SessionDevices.                   *)
(***************************************************************************)
EXTENDS TunnelSession, TLAPS

StartAts   == {"startUnwind", "startAdmit", "startWiden", "startSteps", "startFence",
               "startWatch", "startAborted", "startFailed"}
\* Steps of the transaction before it owns routes, while it owns them, after.
ProbeAts   == {"prepare", "firewall", "connecting", "network"}
OwningAts  == {"arm", "routes", "dns", "connected", "secure", "commit", "committed", "upWatch"}
ActAts     == {"actCheck", "rewatch", "rollback", "rolledBack", "actHalted", "actFailed"}
                \cup ProbeAts \cup OwningAts
UnwindAts  == {"stop", "startUnwind", "startAborted", "startFailed", "rollback",
               "actHalted", "actFailed"}

\* The lock's holder is where its operation is, and an unwind belongs to one of
\* the operations that unwind.
LockInv ==
  /\ owner = "free" <=> at = "none"
  /\ at \in StartAts <=> (owner = "pipe" /\ at # "stop")
  /\ at \in ActAts <=> owner = "act"
  /\ at = "stop" => owner \in {"pipe", "main", "fs"}
  /\ \A t \in {"pipe", "main", "fs"} : pc[t] = "busy" <=> owner = t
  /\ owner = "act" => pc["act"] \in {"waiting", "stale", "busy"}
  /\ pc["act"] \in {"waiting", "stale", "busy", "idle"}
  /\ pc["act"] = "busy" => owner = "act"
  /\ unwind # "no" => at \in UnwindAts
  /\ at = "rollback" => unwind # "cancel" /\ unwind # "teardown"
  /\ outcome # "none" => at \in {"rollback", "rolledBack"}
  /\ pc["main"] = "dead" => /\ owner = "free" /\ watch = "none"
                            /\ \A t \in {"pipe", "act", "fs"} : pc[t] = "idle"

\* A stop under way is the user's last word, a start under way is too, and a
\* capture that may still be committed is one the user last asked for.
IntentInv ==
  /\ pc["main"] \in {"stopWait", "busy", "escape", "stopped", "dead"} =>
       pc["pipe"] = "idle" /\ intent = "off"
  /\ pc["pipe"] \in {"stopWait", "escape"} => intent = "off"
  /\ at = "stop" /\ owner = "pipe" => intent = "off"
  /\ at \in StartAts => intent = "on"
  /\ ~cancelled => intent = "on"
  /\ final /\ unwind # "no" => \/ at \in {"startAborted", "actHalted"}
                               \/ owner = "fs" \/ intent = "off"

\* A session's device exists while its state says so, and none is built over a
\* held device or in a process that is about to end.
SessionInv ==
  /\ OneSessionDevice
  /\ Live(state) => session
  /\ at \in {"startFence", "startWatch"} => session
  /\ at \in {"startUnwind", "startAborted", "startFailed", "stop", "actFailed", "actHalted"}
       /\ unwind = "no" => ~session /\ state = "Stopped"
  /\ at \in {"startAdmit", "startWiden", "startSteps"} => ~session
  /\ at \in {"startWiden", "startSteps"} => ~held /\ ~restartPending
  /\ at = "startAdmit" => state = "Stopped"
  /\ at \in {"startWiden", "startSteps", "startFence"} => state = "Starting"
  /\ at = "startWatch" => Live(state)
  /\ at \in ((ProbeAts \cup OwningAts \cup {"rewatch"}) \ {"upWatch"}) => state = "Preparing"
  /\ at = "upWatch" => state = "Up"
  /\ unwind \in {"routes", "firewall", "teardown"} => state # "Up"
  /\ at \in {"rollback", "rolledBack"} =>
       state = IF outcome = "halted" THEN "Stopped" ELSE "Preparing"
  /\ unwind \in {"routes", "firewall", "teardown"} /\ Live(state) => at = "rollback"

\* The route owner exists from the Network stage to the unwind that reverts it,
\* routes exist only under an owner, and a cancelled commit leaves it to the stop
\* that cancelled it.
OwnerInv ==
  /\ routes => netConfig
  /\ crashArmed => netConfig
  /\ marker => netConfig \/ pc["main"] = "dead"
  /\ pc["main"] = "dead" => ~netConfig
  /\ at \in OwningAts => netConfig
  /\ at \in OwningAts => marker \/ escaped
  /\ at = "arm" => ~routes
  /\ at \in OwningAts \ {"arm"} => crashArmed \/ escaped
  /\ RoutesAreCovered
  /\ at \in {"dns", "connected", "secure", "commit", "committed", "upWatch"}
       \/ state = "Up" => routes \/ escaped
  /\ state = "Up" => netConfig
  /\ netConfig => \/ state = "Up" \/ at \in OwningAts \/ unwind \in {"cancel", "routes"}
                  \/ cancelled /\ state = "Preparing"
  /\ at \in UnwindAts /\ unwind \notin {"cancel", "routes"} => ~netConfig
  /\ at \in UnwindAts \ {"rollback"} /\ unwind # "cancel" => cancelled
  /\ outcome = "halted" => cancelled
  /\ at \in {"rolledBack", "rewatch"} \cup ProbeAts
        \cup {"startAdmit", "startWiden", "startSteps", "startFence", "startWatch"} => ~netConfig

\* Where the session has ended, or the unwind has passed the firewall.
Released ==
  \/ owner = "free" /\ state \in {"Stopped", "Error"}
  \/ at = "actCheck" /\ state \in {"Stopped", "Error"}
  \/ unwind = "teardown"
  \/ at \in UnwindAts \ {"rollback"} /\ unwind = "no"
  \/ at = "startAdmit"
  \/ at = "rollback" /\ unwind = "no" /\ outcome = "halted"
  \/ at = "rolledBack" /\ outcome = "halted"

\* What the policy and its watchdog can hold.
PolicyInv ==
  /\ wfp = "Off" /\ timer # "idle" => stray
  /\ WindowIsAttended
  /\ Released => /\ wfp = "Connected" => WfpMayFail
                 /\ ~killSwitch /\ ~stray => wfp \in {"Off", "Connected"}
                 /\ timer # "idle" => stray
  /\ at \in {"commit", "committed", "upWatch"} \/ state = "Up" =>
       stray \/ (wfp \in {"Connected", "Off"} /\ timer = "idle")

IInv == TypeOK /\ LockInv /\ IntentInv /\ SessionInv /\ OwnerInv /\ PolicyInv

\* The mirror is behind only between a step that owns routes and its publish, in
\* an unwind about to revert them, and behind an escape.
MirrorInv ==
  ~escaped /\ at \notin {"arm", "routes", "dns"} /\ unwind # "routes"
    => mirror = [state |-> state, routes |-> netConfig]

\* Steps that end a staged bring-up with a final unwind.
FinalAts == {"stop", "startAborted", "actHalted"}

\* Where a staged bring-up has ended, or its final unwind has passed the firewall.
StagedEnd ==
  \/ owner = "free" /\ state = "Stopped"
  \/ at = "actCheck" /\ state = "Stopped"
  \/ at \in FinalAts /\ unwind \in {"teardown", "no"}
  \/ at \in {"rollback", "rolledBack"} /\ outcome = "halted"

\* A staged bring-up never comes Up, so no failsafe can end it, and every step
\* that leaves it Stopped went through a final unwind.
StagedInv ==
  stopAfter # 0 =>
    /\ state # "Up" /\ at \notin {"commit", "committed", "upWatch"}
    /\ watch # "up" /\ pc["fs"] = "idle"
    /\ at \in FinalAts /\ unwind \in {"cancel", "routes", "firewall"} => final
    /\ at = "rollback" => ~final
    /\ at = "rollback" /\ outcome = "halted" => ~hadRoutes
    /\ StagedEnd => /\ wfp = "Off" /\ timer = "idle"
                    /\ unwind # "teardown" => ~session

\* A transaction under way has its evaluator, which no watch stands beside; there is
\* no live tunnel under a watch for a ticket or its holder; and a start past its cancel
\* has neither a watch nor an evaluator of the present readiness.
GrantInv ==
  /\ at \in ActAts \ {"actCheck"} => pc["act"] = "busy"
  /\ pc["act"] \in {"waiting", "busy"} => watch # "capture"
  /\ watch = "capture" \/ at = "startWatch" \/ pc["act"] \in {"waiting", "stale"} => state # "Up"
  /\ at \in StartAts /\ unwind # "cancel" => watch = "none" /\ pc["act"] # "waiting"

-----------------------------------------------------------------------------
(* Type correctness, of the flags and of everything else.                  *)

FlagsOK ==
  /\ final \in BOOLEAN /\ hadRoutes \in BOOLEAN
  /\ session \in BOOLEAN /\ killSwitch \in BOOLEAN
  /\ netConfig \in BOOLEAN /\ routes \in BOOLEAN /\ crashArmed \in BOOLEAN
  /\ marker \in BOOLEAN /\ bumped \in BOOLEAN /\ cancelled \in BOOLEAN
  /\ held \in BOOLEAN /\ restartPending \in BOOLEAN /\ fsKillSwitch \in BOOLEAN
  /\ escaped \in BOOLEAN /\ stray \in BOOLEAN

ShapesOK ==
  /\ pc \in [Threads -> Places]
  /\ owner \in Threads \cup {"free"}
  /\ at \in AtSteps /\ unwind \in UnwindSteps
  /\ outcome \in {"none", "waiting", "failed", "halted"}
  /\ op \in Request /\ stopAfter \in 0..8
  /\ state \in States /\ mode \in Modes
  /\ wfp \in WfpStates /\ timer \in {"idle", "armed", "fired"}
  /\ watch \in {"none", "rpc", "capture", "up"}
  /\ mirror \in [state : States, routes : BOOLEAN]
  /\ intent \in {"on", "off"}

\* What the requests the app sends are made of.
LEMMA RequestFacts ==
  /\ \A r \in Requests : r \in Request
  /\ NoRequest \in Request
  /\ \A q \in Request : q.on \in BOOLEAN /\ q.mode \in Modes
BY RequestsAssumption DEF Request, NoRequest, Kinds, Modes

\* Every step keeps every flag a flag.
LEMMA FlagsInductive == FlagsOK /\ op \in Request /\ [Next]_vars => FlagsOK'
<1> SUFFICES ASSUME FlagsOK, op \in Request, [Next]_vars PROVE FlagsOK'
  OBVIOUS
<1> USE DEF FlagsOK
<1>1. ASSUME NEW r \in Requests, ReceiveBlocking(r) PROVE FlagsOK'
  BY <1>1 DEF ReceiveBlocking, machine, devices, fences, history, facts
<1>2. ASSUME NEW r \in Requests, ReceiveStop(r) PROVE FlagsOK'
  BY <1>2 DEF ReceiveStop, machine, devices, facts
<1>3. CASE SetKillSwitch
  <2>1. killSwitch' \in BOOLEAN
    BY <1>3, RequestFacts DEF SetKillSwitch, ApplyWfpLocked, ApplyWfpFails
  <2>2. stray' \in BOOLEAN
    BY <1>3, RequestFacts DEF SetKillSwitch, ApplyWfpLocked, ApplyWfpFails
  <2> QED
    BY <1>3, <2>1, <2>2 DEF SetKillSwitch, ApplyWfpLocked, ApplyWfpFails,
      devices, fences
<1>4. CASE UnwindCancel
  BY <1>4 DEF UnwindCancel, machine, devices, history
<1>5. CASE UnwindRoutes
  BY <1>5 DEF UnwindRoutes, devices, fences
<1>6. CASE UnwindFirewall
  <2>1. final' \in BOOLEAN
    BY <1>6 DEF UnwindFirewall, ApplyWfpLocked, ApplyWfpFails
  <2>2. hadRoutes' \in BOOLEAN
    BY <1>6 DEF UnwindFirewall, ApplyWfpLocked, ApplyWfpFails
  <2>3. stray' \in BOOLEAN
    BY <1>6 DEF UnwindFirewall, ApplyWfpLocked, ApplyWfpFails
  <2> QED
    BY <1>6, <2>1, <2>2, <2>3 DEF UnwindFirewall, ApplyWfpLocked,
      ApplyWfpFails, devices, fences
<1>7. CASE UnwindTeardown
  <2>1. session' \in BOOLEAN
    BY <1>7 DEF UnwindTeardown
  <2>2. held' \in BOOLEAN
    BY <1>7 DEF UnwindTeardown
  <2> QED
    BY <1>7, <2>1, <2>2 DEF UnwindTeardown, machine, fences, history
<1>8. CASE StartEnter
  BY <1>8, RequestFacts DEF StartEnter, StopLocked, machine, devices
<1>9. CASE StartReadiness
  <2>1. cancelled' \in BOOLEAN
    BY <1>9 DEF StartReadiness
  <2> QED
    BY <1>9, <2>1 DEF StartReadiness, machine, devices, facts
<1>10. CASE StartAdmit
  <2>1. cancelled' \in BOOLEAN
    BY <1>10 DEF StartAdmit, Release
  <2>2. restartPending' \in BOOLEAN
    BY <1>10 DEF StartAdmit, Release
  <2> QED
    BY <1>10, <2>1, <2>2 DEF StartAdmit, Release, machine, history
<1>11. CASE StartWiden
  <2>1. stray' \in BOOLEAN
    BY <1>11 DEF StartWiden, ApplyWfpLocked, ApplyWfpFails
  <2> QED
    BY <1>11, <2>1 DEF StartWiden, ApplyWfpLocked, ApplyWfpFails, devices,
      fences, facts
<1>12. CASE StartSteps
  <2>1. final' \in BOOLEAN
    BY <1>12 DEF StartSteps, StopLocked
  <2>2. session' \in BOOLEAN
    BY <1>12 DEF StartSteps, StopLocked
  <2> QED
    BY <1>12, <2>1, <2>2 DEF StartSteps, StopLocked, machine, fences, history
<1>13. CASE StartFence
  <2>1. final' \in BOOLEAN
    BY <1>13 DEF StartFence, StopLocked
  <2> QED
    BY <1>13, <2>1 DEF StartFence, StopLocked, machine, devices, fences,
      history
<1>14. CASE StartWatch
  BY <1>14 DEF StartWatch, Release, machine, devices, history, facts, Done
<1>15. CASE StartEnded
  BY <1>15 DEF StartEnded, Release, machine, devices, fences, history, Done
<1>16. CASE ActReady
  BY <1>16 DEF ActReady, machine, devices, history, facts
<1>17. CASE ActLeave
  BY <1>17 DEF ActLeave, machine, devices, fences, history, facts
<1>18. CASE ActAcquire
  BY <1>18 DEF ActAcquire, machine, devices, fences, history, facts
<1>19. CASE ActCheck
  BY <1>19 DEF ActCheck, Release, machine, devices, fences, history, facts, Done
<1>20. CASE CapturePrepare
  <2>1. final' \in BOOLEAN
    BY <1>20 DEF CapturePrepare, Proceed, Rollback
  <2>2. hadRoutes' \in BOOLEAN
    BY <1>20 DEF CapturePrepare, Proceed, Rollback
  <2> QED
    BY <1>20, <2>1, <2>2 DEF CapturePrepare, Proceed, Rollback, machine,
      devices, fences, history, facts
<1>21. CASE \/ CaptureCheck("firewall", "connecting")
          \/ CaptureCheck("connected", "secure")
          \/ CaptureCheck("commit", "committed")
  <2>1. final' \in BOOLEAN
    BY <1>21 DEF CaptureCheck, Proceed, Rollback
  <2>2. hadRoutes' \in BOOLEAN
    BY <1>21 DEF CaptureCheck, Proceed, Rollback
  <2> QED
    BY <1>21, <2>1, <2>2 DEF CaptureCheck, Proceed, Rollback, machine,
      devices, fences, history, facts
<1>22. CASE CaptureFirewall
  <2>1. final' \in BOOLEAN
    BY <1>22 DEF CaptureFirewall, ApplyWfpLocked, Proceed, ApplyWfpFails, Rollback
  <2>2. hadRoutes' \in BOOLEAN
    BY <1>22 DEF CaptureFirewall, ApplyWfpLocked, Proceed, ApplyWfpFails, Rollback
  <2>3. stray' \in BOOLEAN
    BY <1>22 DEF CaptureFirewall, ApplyWfpLocked, Proceed, ApplyWfpFails, Rollback
  <2> QED
    BY <1>22, <2>1, <2>2, <2>3 DEF CaptureFirewall, ApplyWfpLocked, Proceed,
      ApplyWfpFails, Rollback, devices, fences
<1>23. CASE CaptureOwn
  <2>1. final' \in BOOLEAN
    BY <1>23 DEF CaptureOwn, Proceed, Rollback
  <2>2. hadRoutes' \in BOOLEAN
    BY <1>23 DEF CaptureOwn, Proceed, Rollback
  <2>3. netConfig' \in BOOLEAN
    BY <1>23 DEF CaptureOwn, Proceed, Rollback
  <2>4. marker' \in BOOLEAN
    BY <1>23 DEF CaptureOwn, Proceed, Rollback
  <2> QED
    BY <1>23, <2>1, <2>2, <2>3, <2>4 DEF CaptureOwn, Proceed, Rollback,
      devices, fences, history, facts
<1>24. CASE ArmCrashRevert
  <2>1. final' \in BOOLEAN
    BY <1>24 DEF ArmCrashRevert, Proceed, Rollback
  <2>2. hadRoutes' \in BOOLEAN
    BY <1>24 DEF ArmCrashRevert, Proceed, Rollback
  <2>3. crashArmed' \in BOOLEAN
    BY <1>24 DEF ArmCrashRevert, Proceed, Rollback
  <2> QED
    BY <1>24, <2>1, <2>2, <2>3 DEF ArmCrashRevert, Proceed, Rollback, devices,
      fences, history, facts
<1>25. CASE AddTunRoute
  <2>1. final' \in BOOLEAN
    BY <1>25 DEF AddTunRoute, Proceed, Rollback
  <2>2. hadRoutes' \in BOOLEAN
    BY <1>25 DEF AddTunRoute, Proceed, Rollback
  <2>3. routes' \in BOOLEAN
    BY <1>25 DEF AddTunRoute, Proceed, Rollback
  <2>4. crashArmed' \in BOOLEAN
    BY <1>25 DEF AddTunRoute, Proceed, Rollback
  <2> QED
    BY <1>25, <2>1, <2>2, <2>3, <2>4 DEF AddTunRoute, Proceed, Rollback,
      devices, fences, history, facts
<1>26. CASE CaptureDns
  <2>1. final' \in BOOLEAN
    BY <1>26 DEF CaptureDns, Proceed, Rollback
  <2>2. hadRoutes' \in BOOLEAN
    BY <1>26 DEF CaptureDns, Proceed, Rollback
  <2> QED
    BY <1>26, <2>1, <2>2 DEF CaptureDns, Proceed, Rollback, machine, devices,
      fences, history
<1>27. CASE CaptureSecure
  <2>1. final' \in BOOLEAN
    BY <1>27 DEF CaptureSecure, SecureDone, ApplyWfpLocked, ApplyWfpFails, Rollback,
      Proceed, StopLocked
  <2>2. hadRoutes' \in BOOLEAN
    BY <1>27 DEF CaptureSecure, SecureDone, ApplyWfpLocked, ApplyWfpFails, Rollback,
      Proceed, StopLocked
  <2>3. stray' \in BOOLEAN
    BY <1>27 DEF CaptureSecure, SecureDone, ApplyWfpLocked, ApplyWfpFails, Rollback,
      Proceed, StopLocked
  <2> QED
    BY <1>27, <2>1, <2>2, <2>3 DEF CaptureSecure, SecureDone, ApplyWfpLocked,
      ApplyWfpFails, Rollback, devices, fences, Proceed, StopLocked
<1>28. CASE CaptureCommitted
  BY <1>28 DEF CaptureCommitted, Release, machine, devices, fences, history, Done
<1>29. CASE CaptureHalted
  BY <1>29 DEF CaptureHalted, Rollback, machine, devices, fences, history, facts
<1>30. CASE CaptureRewiden
  <2>1. stray' \in BOOLEAN
    BY <1>30 DEF CaptureRewiden, ApplyWfpLocked, ApplyWfpFails
  <2> QED
    BY <1>30, <2>1 DEF CaptureRewiden, ApplyWfpLocked, ApplyWfpFails, devices,
      fences
<1>31. CASE CaptureRolledBack
  <2>1. final' \in BOOLEAN
    BY <1>31 DEF CaptureRolledBack, StopLocked, Release
  <2> QED
    BY <1>31, <2>1 DEF CaptureRolledBack, StopLocked, Release, machine,
      devices, fences, history, facts
<1>32. CASE CaptureWatch
  BY <1>32 DEF CaptureWatch, Release, machine, devices, history, facts, Done
<1>33. CASE CaptureFailed
  BY <1>33 DEF CaptureFailed, Release, machine, devices, fences, history, Done
<1>34. CASE ServiceStop
  BY <1>34 DEF ServiceStop, machine, devices, fences, history, facts
<1>35. CASE ServiceStopTunnel
  BY <1>35 DEF ServiceStopTunnel, machine, devices, facts
<1>36. CASE FailsafeFire
  BY <1>36 DEF FailsafeFire, machine, devices, facts
<1>37. CASE FailsafeBump
  BY <1>37 DEF FailsafeBump, machine, devices, history, facts
<1>38. CASE FailsafeCancel
  BY <1>38 DEF FailsafeCancel, machine, devices, history, facts
<1>39. ASSUME NEW t \in {"pipe", "main", "fs"}, StopEnter(t) PROVE FlagsOK'
  <2>1. final' \in BOOLEAN
    BY <1>39 DEF StopEnter, StopLocked
  <2> QED
    BY <1>39, <2>1 DEF StopEnter, machine, devices, fences,
      history, facts
<1>40. ASSUME NEW t \in {"pipe", "main", "fs"}, EscapeRoutes(t) PROVE FlagsOK'
  BY <1>40 DEF EscapeRoutes, devices, facts
<1>41. ASSUME NEW t \in {"pipe", "main", "fs"}, EscapeFirewall(t) PROVE FlagsOK'
  BY <1>41 DEF EscapeFirewall, Done, devices, fences
<1>42. CASE StopReturn
  BY <1>42 DEF StopReturn, Release, machine, devices, fences, history, facts, Done
<1>43. CASE LogoutTimeout
  BY <1>43 DEF LogoutTimeout, Done, machine, devices, fences, history, facts
<1>44. CASE TeardownWorkerFinishes
  <2>1. held' \in BOOLEAN
    BY <1>44 DEF TeardownWorkerFinishes
  <2> QED
    BY <1>44, <2>1 DEF TeardownWorkerFinishes, control, machine, fences,
      history, facts
<1>45. CASE TimerFires
  BY <1>45 DEF TimerFires, control, devices, fences, history, facts
<1>46. CASE TimerNarrows
  BY <1>46 DEF TimerNarrows, control, devices, fences, history, facts
<1>47. CASE ProcessEnds
  BY <1>47 DEF ProcessEnds
<1>48. CASE ReportAndClearPriorState
  <2>1. marker' \in BOOLEAN
    BY <1>48 DEF ReportAndClearPriorState
  <2> QED
    BY <1>48, <2>1 DEF ReportAndClearPriorState, devices, fences, history,
      facts
<1>49. CASE UNCHANGED vars
  BY <1>49 DEF vars, control, machine, devices, fences, history, facts
<1> QED
  BY <1>1, <1>2, <1>3, <1>4, <1>5, <1>6, <1>7, <1>8, <1>9, <1>10, <1>11, <1>12,
      <1>13, <1>14, <1>15, <1>16, <1>17, <1>18, <1>19, <1>20, <1>21, <1>22, <1>23,
      <1>24, <1>25, <1>26, <1>27, <1>28, <1>29, <1>30, <1>31, <1>32, <1>33, <1>34,
      <1>35, <1>36, <1>37, <1>38, <1>39, <1>40, <1>41, <1>42, <1>43, <1>44, <1>45,
      <1>46, <1>47, <1>48, <1>49
      DEF Next, UnwindStep, StartStep, CaptureStep, StopStep

\* Every step keeps every place, status, policy and request in its set.
LEMMA ShapesInductive == FlagsOK /\ FlagsOK' /\ ShapesOK /\ [Next]_vars => ShapesOK'
<1> SUFFICES ASSUME FlagsOK, FlagsOK', ShapesOK, [Next]_vars PROVE ShapesOK'
  OBVIOUS
<1> USE DEF FlagsOK, ShapesOK, Threads, Places, AtSteps, UnwindSteps, States, WfpStates
<1>1. ASSUME NEW r \in Requests, ReceiveBlocking(r) PROVE ShapesOK'
  BY <1>1, RequestFacts DEF ReceiveBlocking, PipeReady, Goto, machine, devices,
      fences, history, facts
<1>2. ASSUME NEW r \in Requests, ReceiveStop(r) PROVE ShapesOK'
  BY <1>2, RequestFacts DEF ReceiveStop, PipeReady, Goto, machine, devices, facts
<1>3. CASE SetKillSwitch
  BY <1>3, RequestFacts DEF SetKillSwitch, ApplyWfpLocked, PublishStatusLocked,
      ApplyWfpFails, Done, devices, fences, Goto
<1>4. CASE UnwindCancel
  BY <1>4 DEF UnwindCancel, Live, machine, devices, history
<1>5. CASE UnwindRoutes
  BY <1>5 DEF UnwindRoutes, PublishStatusLocked, devices, fences
<1>6. CASE UnwindFirewall
  BY <1>6 DEF UnwindFirewall, FirewallAfter, ApplyWfpLocked, PublishStatusLocked,
      ApplyWfpFails, devices, fences
<1>7. CASE UnwindTeardown
  BY <1>7 DEF UnwindTeardown, PublishStatusLocked, machine, fences, history
<1>8. CASE StartEnter
  BY <1>8, RequestFacts DEF StartEnter, StopLocked, Goto, machine, devices
<1>9. CASE StartReadiness
  BY <1>9 DEF StartReadiness, machine, devices, facts
<1>10. CASE StartAdmit
  <2>1. pc' \in [Threads -> Places] /\ op' \in Request /\ mode' \in Modes
    BY <1>10, RequestFacts DEF StartAdmit, Release, Done, Goto
  <2>2. owner' \in Threads \cup {"free"} /\ at' \in AtSteps /\ state' \in States
    BY <1>10 DEF StartAdmit, Release
  <2>3. mirror' \in [state : States, routes : BOOLEAN]
    BY <1>10, <2>2 DEF StartAdmit, PublishStatusLocked
  <2> QED
    BY <1>10, <2>1, <2>2, <2>3 DEF StartAdmit, machine, history
<1>11. CASE StartWiden
  BY <1>11 DEF StartWiden, ApplyWfpLocked, ApplyWfpFails, devices, fences, facts
<1>12. CASE StartSteps
  BY <1>12 DEF StartSteps, StopLocked, PublishStatusLocked, machine, fences, history
<1>13. CASE StartFence
  BY <1>13 DEF StartFence, StopLocked, PublishStatusLocked, machine, devices,
      fences, history
<1>14. CASE StartWatch
  BY <1>14, RequestFacts DEF StartWatch, Release, machine, devices, history, facts,
      Done, Goto
<1>15. CASE StartEnded
  BY <1>15, RequestFacts DEF StartEnded, PublishStatusLocked, Release, machine,
      devices, fences, history, Done, Goto
<1>16. CASE ActReady
  BY <1>16 DEF ActReady, Goto, machine, devices, history, facts
<1>17. CASE ActLeave
  BY <1>17 DEF ActLeave, Goto, machine, devices, fences, history, facts
<1>18. CASE ActAcquire
  BY <1>18 DEF ActAcquire, machine, devices, fences, history, facts
<1>19. CASE ActCheck
  BY <1>19, RequestFacts DEF ActCheck, Release, Goto, machine, devices, fences,
      history, facts, Done
<1>20. CASE CapturePrepare
  BY <1>20 DEF CapturePrepare, Proceed, Rollback, machine, devices, fences, history,
      facts
<1>21. CASE \/ CaptureCheck("firewall", "connecting")
          \/ CaptureCheck("connected", "secure")
          \/ CaptureCheck("commit", "committed")
  BY <1>21 DEF CaptureCheck, Proceed, Rollback, machine, devices, fences, history,
      facts
<1>22. CASE CaptureFirewall
  BY <1>22 DEF CaptureFirewall, ApplyWfpLocked, Proceed, PublishStatusLocked,
      ApplyWfpFails, Rollback, devices, fences
<1>23. CASE CaptureOwn
  BY <1>23 DEF CaptureOwn, Proceed, Rollback, devices, fences, history, facts
<1>24. CASE ArmCrashRevert
  BY <1>24 DEF ArmCrashRevert, Proceed, Rollback, devices, fences, history, facts
<1>25. CASE AddTunRoute
  BY <1>25 DEF AddTunRoute, Proceed, Rollback, devices, fences, history, facts
<1>26. CASE CaptureDns
  BY <1>26 DEF CaptureDns, Proceed, Rollback, PublishStatusLocked, machine, devices,
      fences, history
<1>27. CASE CaptureSecure
  BY <1>27 DEF CaptureSecure, SecureDone, ApplyWfpLocked, PublishStatusLocked,
      ApplyWfpFails, Rollback, devices, fences, Proceed, StopLocked
<1>28. CASE CaptureCommitted
  BY <1>28, RequestFacts DEF CaptureCommitted, Release, PublishStatusLocked,
      machine, devices, fences, history, Done, Goto
<1>29. CASE CaptureHalted
  BY <1>29 DEF CaptureHalted, Rollback, machine, devices, fences, history, facts
<1>30. CASE CaptureRewiden
  BY <1>30 DEF CaptureRewiden, ApplyWfpLocked, PublishStatusLocked, ApplyWfpFails,
      devices, fences
<1>31. CASE CaptureRolledBack
  BY <1>31, RequestFacts DEF CaptureRolledBack, StopLocked, Release, machine,
      devices, fences, history, facts, Done, Goto
<1>32. CASE CaptureWatch
  BY <1>32, RequestFacts DEF CaptureWatch, Release, machine, devices, history,
      facts, Done, Goto
<1>33. CASE CaptureFailed
  BY <1>33, RequestFacts DEF CaptureFailed, PublishStatusLocked, Release, machine,
      devices, fences, history, Done, Goto
<1>34. CASE ServiceStop
  BY <1>34 DEF ServiceStop, Goto, machine, devices, fences, history, facts
<1>35. CASE ServiceStopTunnel
  BY <1>35 DEF ServiceStopTunnel, Goto, machine, devices, facts
<1>36. CASE FailsafeFire
  BY <1>36 DEF FailsafeFire, Goto, machine, devices, facts
<1>37. CASE FailsafeBump
  BY <1>37 DEF FailsafeBump, Goto, machine, devices, history, facts
<1>38. CASE FailsafeCancel
  BY <1>38 DEF FailsafeCancel, Goto, machine, devices, history, facts
<1>39. ASSUME NEW t \in {"pipe", "main", "fs"}, StopEnter(t) PROVE ShapesOK'
  BY <1>39 DEF StopEnter, StopLocked, Goto, machine, devices, fences, history, facts
<1>40. ASSUME NEW t \in {"pipe", "main", "fs"}, EscapeRoutes(t) PROVE ShapesOK'
  BY <1>40 DEF EscapeRoutes, Goto, devices, facts
<1>41. ASSUME NEW t \in {"pipe", "main", "fs"}, EscapeFirewall(t) PROVE ShapesOK'
  BY <1>41, RequestFacts DEF EscapeFirewall, Done, devices, fences, Goto
<1>42. CASE StopReturn
  <2>1. pc' \in [Threads -> Places]
    BY <1>42 DEF StopReturn, Release, Done, Goto
  <2>2. op' \in Request
    BY <1>42, RequestFacts DEF StopReturn, Release, Done
  <2> QED
    BY <1>42, <2>1, <2>2 DEF StopReturn, Release, machine, devices, fences, history, facts
<1>43. CASE LogoutTimeout
  BY <1>43, RequestFacts DEF LogoutTimeout, Done, machine, devices, fences, history,
      facts, Goto
<1>44. CASE TeardownWorkerFinishes
  BY <1>44 DEF TeardownWorkerFinishes, control, machine, fences, history, facts
<1>45. CASE TimerFires
  BY <1>45 DEF TimerFires, control, devices, fences, history, facts
<1>46. CASE TimerNarrows
  BY <1>46 DEF TimerNarrows, control, devices, fences, history, facts
<1>47. CASE ProcessEnds
  <2>1. pc' \in [Threads -> Places] /\ mode' \in Modes
    BY <1>47 DEF ProcessEnds, Modes
  <2>2. mirror' \in [state : States, routes : BOOLEAN]
    BY <1>47 DEF ProcessEnds
  <2> QED
    BY <1>47, <2>1, <2>2, RequestFacts DEF ProcessEnds
<1>48. CASE ReportAndClearPriorState
  BY <1>48 DEF ReportAndClearPriorState, Goto, devices, fences, history, facts
<1>49. CASE UNCHANGED vars
  BY <1>49 DEF vars, control, machine, devices, fences, history, facts
<1> QED
  BY <1>1, <1>2, <1>3, <1>4, <1>5, <1>6, <1>7, <1>8, <1>9, <1>10, <1>11, <1>12,
      <1>13, <1>14, <1>15, <1>16, <1>17, <1>18, <1>19, <1>20, <1>21, <1>22, <1>23,
      <1>24, <1>25, <1>26, <1>27, <1>28, <1>29, <1>30, <1>31, <1>32, <1>33, <1>34,
      <1>35, <1>36, <1>37, <1>38, <1>39, <1>40, <1>41, <1>42, <1>43, <1>44, <1>45,
      <1>46, <1>47, <1>48, <1>49
      DEF Next, UnwindStep, StartStep, CaptureStep, StopStep

\* Every variable of the controller keeps the values its code counterpart can
\* hold: a status, a policy or a thread is never in a state outside its enum.
THEOREM TypeCorrect == Spec => []TypeOK
<1>1. Init => FlagsOK
  BY DEF Init, FlagsOK
<1>2. Init => ShapesOK
  BY RequestFacts, StopAftersAssumption
  DEF Init, ShapesOK, Threads, Places, AtSteps, UnwindSteps, States, WfpStates,
      Modes
<1>3. FlagsOK /\ ShapesOK /\ [Next]_vars => (FlagsOK /\ ShapesOK)'
  BY FlagsInductive, ShapesInductive DEF ShapesOK
<1>4. FlagsOK /\ ShapesOK => TypeOK
  BY DEF FlagsOK, ShapesOK, TypeOK
<1> QED
  BY <1>1, <1>2, <1>3, <1>4, PTL DEF Spec

-----------------------------------------------------------------------------
(* The lock discipline and the user's last word.                            *)

\* Only the holder of mutex_ moves an operation, and it leaves nothing behind.
LEMMA LockInductive ==
  TypeOK /\ LockInv /\ [Next]_vars => LockInv'
<1> SUFFICES ASSUME TypeOK, LockInv, [Next]_vars PROVE LockInv'
  OBVIOUS
<1> USE DEF TypeOK, LockInv, Threads, StartAts, ActAts, ProbeAts, OwningAts,
      UnwindAts
<1>1. ASSUME NEW r \in Requests, ReceiveBlocking(r) PROVE LockInv'
  BY <1>1 DEF ReceiveBlocking, PipeReady, Goto, machine, devices, fences, history,
      facts
<1>2. ASSUME NEW r \in Requests, ReceiveStop(r) PROVE LockInv'
  BY <1>2 DEF ReceiveStop, PipeReady, Goto, machine, devices, facts
<1>3. CASE SetKillSwitch
  BY <1>3 DEF SetKillSwitch, Done, devices, fences, Goto
<1>4. CASE UnwindCancel
  BY <1>4 DEF UnwindCancel, machine, devices, history
<1>5. CASE UnwindRoutes
  BY <1>5 DEF UnwindRoutes, devices, fences
<1>6. CASE UnwindFirewall
  BY <1>6 DEF UnwindFirewall, devices, fences
<1>7. CASE UnwindTeardown
  BY <1>7 DEF UnwindTeardown, machine, fences, history
<1>8. CASE StartEnter
  BY <1>8 DEF StartEnter, StopLocked, Goto, machine, devices
<1>9. CASE StartReadiness
  BY <1>9 DEF StartReadiness, machine, devices, facts
<1>10. CASE StartAdmit
  BY <1>10 DEF StartAdmit, Release, machine, history, Done, Goto
<1>11. CASE StartWiden
  BY <1>11 DEF StartWiden, devices, fences, facts
<1>12. CASE StartSteps
  BY <1>12 DEF StartSteps, StopLocked, machine, fences, history
<1>13. CASE StartFence
  BY <1>13 DEF StartFence, StopLocked, machine, devices, fences, history
<1>14. CASE StartWatch
  BY <1>14 DEF StartWatch, Release, machine, devices, history, facts, Done, Goto
<1>15. CASE StartEnded
  BY <1>15 DEF StartEnded, Release, machine, devices, fences, history, Done, Goto
<1>16. CASE ActReady
  BY <1>16 DEF ActReady, Goto, machine, devices, history, facts
<1>17. CASE ActLeave
  BY <1>17 DEF ActLeave, Goto, machine, devices, fences, history, facts
<1>18. CASE ActAcquire
  BY <1>18 DEF ActAcquire, machine, devices, fences, history, facts
<1>19. CASE ActCheck
  BY <1>19 DEF ActCheck, Release, Goto, machine, devices, fences, history, facts,
      Done
<1>20. CASE CapturePrepare
  BY <1>20 DEF CapturePrepare, Proceed, Rollback, machine, devices, fences, history,
      facts
<1>21. CASE \/ CaptureCheck("firewall", "connecting")
          \/ CaptureCheck("connected", "secure")
          \/ CaptureCheck("commit", "committed")
  BY <1>21 DEF CaptureCheck, Proceed, Rollback, machine, devices, fences, history,
      facts
<1>22. CASE CaptureFirewall
  BY <1>22 DEF CaptureFirewall, Proceed, Rollback, devices, fences
<1>23. CASE CaptureOwn
  BY <1>23 DEF CaptureOwn, Proceed, Rollback, devices, fences, history, facts
<1>24. CASE ArmCrashRevert
  BY <1>24 DEF ArmCrashRevert, Proceed, Rollback, devices, fences, history, facts
<1>25. CASE AddTunRoute
  BY <1>25 DEF AddTunRoute, Proceed, Rollback, devices, fences, history, facts
<1>26. CASE CaptureDns
  BY <1>26 DEF CaptureDns, Proceed, Rollback, machine, devices, fences, history
<1>27. CASE CaptureSecure
  BY <1>27 DEF CaptureSecure, SecureDone, Rollback, devices, fences, Proceed,
      StopLocked
<1>28. CASE CaptureCommitted
  BY <1>28 DEF CaptureCommitted, Release, machine, devices, fences, history, Done,
      Goto
<1>29. CASE CaptureHalted
  BY <1>29 DEF CaptureHalted, Rollback, machine, devices, fences, history, facts
<1>30. CASE CaptureRewiden
  BY <1>30 DEF CaptureRewiden, devices, fences
<1>31. CASE CaptureRolledBack
  BY <1>31 DEF CaptureRolledBack, StopLocked, Release, machine, devices, fences,
      history, facts, Done, Goto
<1>32. CASE CaptureWatch
  BY <1>32 DEF CaptureWatch, Release, machine, devices, history, facts, Done, Goto
<1>33. CASE CaptureFailed
  BY <1>33 DEF CaptureFailed, Release, machine, devices, fences, history, Done, Goto
<1>34. CASE ServiceStop
  BY <1>34 DEF ServiceStop, Goto, machine, devices, fences, history, facts
<1>35. CASE ServiceStopTunnel
  BY <1>35 DEF ServiceStopTunnel, Goto, machine, devices, facts
<1>36. CASE FailsafeFire
  BY <1>36 DEF FailsafeFire, Goto, machine, devices, facts
<1>37. CASE FailsafeBump
  BY <1>37 DEF FailsafeBump, Goto, machine, devices, history, facts
<1>38. CASE FailsafeCancel
  BY <1>38 DEF FailsafeCancel, Goto, machine, devices, history, facts
<1>39. ASSUME NEW t \in {"pipe", "main", "fs"}, StopEnter(t) PROVE LockInv'
  BY <1>39 DEF StopEnter, StopLocked, Goto, machine, devices, fences, history, facts
<1>40. ASSUME NEW t \in {"pipe", "main", "fs"}, EscapeRoutes(t) PROVE LockInv'
  BY <1>40 DEF EscapeRoutes, Goto, devices, facts
<1>41. ASSUME NEW t \in {"pipe", "main", "fs"}, EscapeFirewall(t) PROVE LockInv'
  BY <1>41 DEF EscapeFirewall, Done, devices, fences, Goto
<1>42. CASE StopReturn
  BY <1>42 DEF StopReturn, Release, machine, devices, fences, history, facts, Done,
      Goto
<1>43. CASE LogoutTimeout
  BY <1>43 DEF LogoutTimeout, Done, machine, devices, fences, history, facts, Goto
<1>44. CASE TeardownWorkerFinishes
  BY <1>44 DEF TeardownWorkerFinishes, control, machine, fences, history, facts
<1>45. CASE TimerFires
  BY <1>45 DEF TimerFires, control, devices, fences, history, facts
<1>46. CASE TimerNarrows
  BY <1>46 DEF TimerNarrows, control, devices, fences, history, facts
<1>47. CASE ProcessEnds
  BY <1>47 DEF ProcessEnds
<1>48. CASE ReportAndClearPriorState
  BY <1>48 DEF ReportAndClearPriorState, Goto, devices, fences, history, facts
<1>49. CASE UNCHANGED vars
  BY <1>49 DEF vars, control, machine, devices, fences, history, facts
<1> QED
  BY <1>1, <1>2, <1>3, <1>4, <1>5, <1>6, <1>7, <1>8, <1>9, <1>10, <1>11, <1>12,
      <1>13, <1>14, <1>15, <1>16, <1>17, <1>18, <1>19, <1>20, <1>21, <1>22, <1>23,
      <1>24, <1>25, <1>26, <1>27, <1>28, <1>29, <1>30, <1>31, <1>32, <1>33, <1>34,
      <1>35, <1>36, <1>37, <1>38, <1>39, <1>40, <1>41, <1>42, <1>43, <1>44, <1>45,
      <1>46, <1>47, <1>48, <1>49
      DEF Next, UnwindStep, StartStep, CaptureStep, StopStep

\* A stop or a start under way stays the user's last word until it is over, and
\* whoever moves the user's last word to off cancels the capture with it.
LEMMA IntentInductive ==
  TypeOK /\ LockInv /\ IntentInv /\ [Next]_vars => IntentInv'
<1> SUFFICES ASSUME TypeOK, LockInv, IntentInv, [Next]_vars PROVE IntentInv'
  OBVIOUS
<1> USE DEF TypeOK, LockInv, IntentInv, Threads, StartAts, ActAts, ProbeAts,
      OwningAts, UnwindAts
<1>1. ASSUME NEW r \in Requests, ReceiveBlocking(r) PROVE IntentInv'
  BY <1>1 DEF ReceiveBlocking, PipeReady, Goto, machine, devices, fences, history,
      facts
<1>2. ASSUME NEW r \in Requests, ReceiveStop(r) PROVE IntentInv'
  BY <1>2 DEF ReceiveStop, PipeReady, Goto, machine, devices, facts
<1>3. CASE SetKillSwitch
  BY <1>3 DEF SetKillSwitch, Done, devices, fences, Goto
<1>4. CASE UnwindCancel
  BY <1>4 DEF UnwindCancel, machine, devices, history
<1>5. CASE UnwindRoutes
  BY <1>5 DEF UnwindRoutes, devices, fences
<1>6. CASE UnwindFirewall
  BY <1>6 DEF UnwindFirewall, devices, fences
<1>7. CASE UnwindTeardown
  BY <1>7 DEF UnwindTeardown, machine, fences, history
<1>8. CASE StartEnter
  BY <1>8 DEF StartEnter, StopLocked, Goto, machine, devices
<1>9. CASE StartReadiness
  BY <1>9 DEF StartReadiness, machine, devices, facts
<1>10. CASE StartAdmit
  BY <1>10 DEF StartAdmit, Release, machine, history, Done, Goto
<1>11. CASE StartWiden
  BY <1>11 DEF StartWiden, devices, fences, facts
<1>12. CASE StartSteps
  BY <1>12 DEF StartSteps, StopLocked, machine, fences, history
<1>13. CASE StartFence
  BY <1>13 DEF StartFence, StopLocked, machine, devices, fences, history
<1>14. CASE StartWatch
  BY <1>14 DEF StartWatch, Release, machine, devices, history, facts, Done, Goto
<1>15. CASE StartEnded
  BY <1>15 DEF StartEnded, Release, machine, devices, fences, history, Done, Goto
<1>16. CASE ActReady
  BY <1>16 DEF ActReady, Goto, machine, devices, history, facts
<1>17. CASE ActLeave
  BY <1>17 DEF ActLeave, Goto, machine, devices, fences, history, facts
<1>18. CASE ActAcquire
  BY <1>18 DEF ActAcquire, machine, devices, fences, history, facts
<1>19. CASE ActCheck
  BY <1>19 DEF ActCheck, Release, Goto, machine, devices, fences, history, facts,
      Done
<1>20. CASE CapturePrepare
  BY <1>20 DEF CapturePrepare, Proceed, Rollback, machine, devices, fences, history,
      facts
<1>21. CASE \/ CaptureCheck("firewall", "connecting")
          \/ CaptureCheck("connected", "secure")
          \/ CaptureCheck("commit", "committed")
  BY <1>21 DEF CaptureCheck, Proceed, Rollback, machine, devices, fences, history,
      facts
<1>22. CASE CaptureFirewall
  BY <1>22 DEF CaptureFirewall, Proceed, Rollback, devices, fences
<1>23. CASE CaptureOwn
  BY <1>23 DEF CaptureOwn, Proceed, Rollback, devices, fences, history, facts
<1>24. CASE ArmCrashRevert
  BY <1>24 DEF ArmCrashRevert, Proceed, Rollback, devices, fences, history, facts
<1>25. CASE AddTunRoute
  BY <1>25 DEF AddTunRoute, Proceed, Rollback, devices, fences, history, facts
<1>26. CASE CaptureDns
  BY <1>26 DEF CaptureDns, Proceed, Rollback, machine, devices, fences, history
<1>27. CASE CaptureSecure
  BY <1>27 DEF CaptureSecure, SecureDone, Rollback, devices, fences, Proceed,
      StopLocked
<1>28. CASE CaptureCommitted
  BY <1>28 DEF CaptureCommitted, Release, machine, devices, fences, history, Done,
      Goto
<1>29. CASE CaptureHalted
  BY <1>29 DEF CaptureHalted, Rollback, machine, devices, fences, history, facts
<1>30. CASE CaptureRewiden
  BY <1>30 DEF CaptureRewiden, devices, fences
<1>31. CASE CaptureRolledBack
  BY <1>31 DEF CaptureRolledBack, StopLocked, Release, machine, devices, fences,
      history, facts, Done, Goto
<1>32. CASE CaptureWatch
  BY <1>32 DEF CaptureWatch, Release, machine, devices, history, facts, Done, Goto
<1>33. CASE CaptureFailed
  BY <1>33 DEF CaptureFailed, Release, machine, devices, fences, history, Done, Goto
<1>34. CASE ServiceStop
  BY <1>34 DEF ServiceStop, Goto, machine, devices, fences, history, facts
<1>35. CASE ServiceStopTunnel
  BY <1>35 DEF ServiceStopTunnel, Goto, machine, devices, facts
<1>36. CASE FailsafeFire
  BY <1>36 DEF FailsafeFire, Goto, machine, devices, facts
<1>37. CASE FailsafeBump
  BY <1>37 DEF FailsafeBump, Goto, machine, devices, history, facts
<1>38. CASE FailsafeCancel
  BY <1>38 DEF FailsafeCancel, Goto, machine, devices, history, facts
<1>39. ASSUME NEW t \in {"pipe", "main", "fs"}, StopEnter(t) PROVE IntentInv'
  BY <1>39 DEF StopEnter, StopLocked, Goto, machine, devices, fences, history, facts
<1>40. ASSUME NEW t \in {"pipe", "main", "fs"}, EscapeRoutes(t) PROVE IntentInv'
  BY <1>40 DEF EscapeRoutes, Goto, devices, facts
<1>41. ASSUME NEW t \in {"pipe", "main", "fs"}, EscapeFirewall(t) PROVE IntentInv'
  BY <1>41 DEF EscapeFirewall, Done, devices, fences, Goto
<1>42. CASE StopReturn
  BY <1>42 DEF StopReturn, Release, machine, devices, fences, history, facts, Done,
      Goto
<1>43. CASE LogoutTimeout
  BY <1>43 DEF LogoutTimeout, Done, machine, devices, fences, history, facts, Goto
<1>44. CASE TeardownWorkerFinishes
  BY <1>44 DEF TeardownWorkerFinishes, control, machine, fences, history, facts
<1>45. CASE TimerFires
  BY <1>45 DEF TimerFires, control, devices, fences, history, facts
<1>46. CASE TimerNarrows
  BY <1>46 DEF TimerNarrows, control, devices, fences, history, facts
<1>47. CASE ProcessEnds
  BY <1>47 DEF ProcessEnds
<1>48. CASE ReportAndClearPriorState
  BY <1>48 DEF ReportAndClearPriorState, Goto, devices, fences, history, facts
<1>49. CASE UNCHANGED vars
  BY <1>49 DEF vars, control, machine, devices, fences, history, facts
<1> QED
  BY <1>1, <1>2, <1>3, <1>4, <1>5, <1>6, <1>7, <1>8, <1>9, <1>10, <1>11, <1>12,
      <1>13, <1>14, <1>15, <1>16, <1>17, <1>18, <1>19, <1>20, <1>21, <1>22, <1>23,
      <1>24, <1>25, <1>26, <1>27, <1>28, <1>29, <1>30, <1>31, <1>32, <1>33, <1>34,
      <1>35, <1>36, <1>37, <1>38, <1>39, <1>40, <1>41, <1>42, <1>43, <1>44, <1>45,
      <1>46, <1>47, <1>48, <1>49
      DEF Next, UnwindStep, StartStep, CaptureStep, StopStep

-----------------------------------------------------------------------------
(* The session's device, the routes and the policy.                         *)

\* A device is built only where the last one is gone, and every ending of a
\* session lets go of it.
LEMMA SessionInductive ==
  TypeOK /\ LockInv /\ OwnerInv /\ SessionInv /\ [Next]_vars => SessionInv'
<1> SUFFICES ASSUME TypeOK, LockInv, OwnerInv, SessionInv, [Next]_vars PROVE SessionInv'
  OBVIOUS
<1> USE DEF TypeOK, LockInv, OwnerInv, RoutesAreCovered, SessionInv,
      OneSessionDevice, Live, StartAts, ActAts, ProbeAts, OwningAts, UnwindAts
<1>1. ASSUME NEW r \in Requests, ReceiveBlocking(r) PROVE SessionInv'
  BY <1>1 DEF ReceiveBlocking, machine, devices, fences, history, facts
<1>2. ASSUME NEW r \in Requests, ReceiveStop(r) PROVE SessionInv'
  BY <1>2 DEF ReceiveStop, machine, devices, facts
<1>3. CASE SetKillSwitch
  BY <1>3 DEF SetKillSwitch, devices, fences
<1>4. CASE UnwindCancel
  BY <1>4 DEF UnwindCancel, machine, devices, history
<1>5. CASE UnwindRoutes
  BY <1>5 DEF UnwindRoutes, devices, fences
<1>6. CASE UnwindFirewall
  BY <1>6 DEF UnwindFirewall, devices, fences
<1>7. CASE UnwindTeardown
  BY <1>7 DEF UnwindTeardown, machine, fences, history
<1>8. CASE StartEnter
  BY <1>8 DEF StartEnter, StopLocked, machine, devices
<1>9. CASE StartReadiness
  BY <1>9 DEF StartReadiness, machine, devices, facts
<1>10. CASE StartAdmit
  <2>1. ~session' /\ ~routes' /\ unwind' = unwind /\ unwind = "no"
    BY <1>10 DEF StartAdmit, machine
  <2>2. CASE ~restartPending /\ ~held
    BY <1>10, <2>1, <2>2 DEF StartAdmit, Release
  <2>3. CASE restartPending \/ held
    BY <1>10, <2>1, <2>3 DEF StartAdmit, Release
  <2> QED
    BY <2>2, <2>3
<1>11. CASE StartWiden
  BY <1>11 DEF StartWiden, devices, fences, facts
<1>12. CASE StartSteps
  BY <1>12 DEF StartSteps, StopLocked, machine, fences, history
<1>13. CASE StartFence
  BY <1>13 DEF StartFence, StopLocked, machine, devices, fences, history
<1>14. CASE StartWatch
  BY <1>14 DEF StartWatch, Release, machine, devices, history, facts
<1>15. CASE StartEnded
  BY <1>15 DEF StartEnded, Release, machine, devices, fences, history
<1>16. CASE ActReady
  BY <1>16 DEF ActReady, machine, devices, history, facts
<1>17. CASE ActLeave
  BY <1>17 DEF ActLeave, machine, devices, fences, history, facts
<1>18. CASE ActAcquire
  BY <1>18 DEF ActAcquire, machine, devices, fences, history, facts
<1>19. CASE ActCheck
  BY <1>19 DEF ActCheck, Release, machine, devices, fences, history, facts
<1>20. CASE CapturePrepare
  BY <1>20 DEF CapturePrepare, Proceed, Rollback, machine, devices, fences, history,
      facts
<1>21. CASE \/ CaptureCheck("firewall", "connecting")
          \/ CaptureCheck("connected", "secure")
          \/ CaptureCheck("commit", "committed")
  BY <1>21 DEF CaptureCheck, Proceed, Rollback, machine, devices, fences, history,
      facts
<1>22. CASE CaptureFirewall
  BY <1>22 DEF CaptureFirewall, Proceed, Rollback, devices, fences
<1>23. CASE CaptureOwn
  BY <1>23 DEF CaptureOwn, Proceed, Rollback, devices, fences, history, facts
<1>24. CASE ArmCrashRevert
  BY <1>24 DEF ArmCrashRevert, Proceed, Rollback, devices, fences, history, facts
<1>25. CASE AddTunRoute
  BY <1>25 DEF AddTunRoute, Proceed, Rollback, devices, fences, history, facts
<1>26. CASE CaptureDns
  BY <1>26 DEF CaptureDns, Proceed, Rollback, machine, devices, fences, history
<1>27. CASE CaptureSecure
  BY <1>27 DEF CaptureSecure, SecureDone, Rollback, devices, fences, Proceed,
      StopLocked
<1>28. CASE CaptureCommitted
  BY <1>28 DEF CaptureCommitted, Release, machine, devices, fences, history
<1>29. CASE CaptureHalted
  BY <1>29 DEF CaptureHalted, Rollback, machine, devices, fences, history, facts
<1>30. CASE CaptureRewiden
  BY <1>30 DEF CaptureRewiden, devices, fences
<1>31. CASE CaptureRolledBack
  BY <1>31 DEF CaptureRolledBack, StopLocked, Release, machine, devices, fences,
      history, facts
<1>32. CASE CaptureWatch
  BY <1>32 DEF CaptureWatch, Release, machine, devices, history, facts
<1>33. CASE CaptureFailed
  BY <1>33 DEF CaptureFailed, Release, machine, devices, fences, history
<1>34. CASE ServiceStop
  BY <1>34 DEF ServiceStop, machine, devices, fences, history, facts
<1>35. CASE ServiceStopTunnel
  BY <1>35 DEF ServiceStopTunnel, machine, devices, facts
<1>36. CASE FailsafeFire
  BY <1>36 DEF FailsafeFire, machine, devices, facts
<1>37. CASE FailsafeBump
  BY <1>37 DEF FailsafeBump, machine, devices, history, facts
<1>38. CASE FailsafeCancel
  BY <1>38 DEF FailsafeCancel, machine, devices, history, facts
<1>39. ASSUME NEW t \in {"pipe", "main", "fs"}, StopEnter(t) PROVE SessionInv'
  BY <1>39 DEF StopEnter, StopLocked, machine, devices, fences, history, facts
<1>40. ASSUME NEW t \in {"pipe", "main", "fs"}, EscapeRoutes(t) PROVE SessionInv'
  BY <1>40 DEF EscapeRoutes, devices, facts
<1>41. ASSUME NEW t \in {"pipe", "main", "fs"}, EscapeFirewall(t) PROVE SessionInv'
  BY <1>41 DEF EscapeFirewall, devices, fences
<1>42. CASE StopReturn
  BY <1>42 DEF StopReturn, Release, machine, devices, fences, history, facts
<1>43. CASE LogoutTimeout
  BY <1>43 DEF LogoutTimeout, machine, devices, fences, history, facts
<1>44. CASE TeardownWorkerFinishes
  BY <1>44 DEF TeardownWorkerFinishes, control, machine, fences, history, facts
<1>45. CASE TimerFires
  BY <1>45 DEF TimerFires, control, devices, fences, history, facts
<1>46. CASE TimerNarrows
  BY <1>46 DEF TimerNarrows, control, devices, fences, history, facts
<1>47. CASE ProcessEnds
  BY <1>47 DEF ProcessEnds
<1>48. CASE ReportAndClearPriorState
  BY <1>48 DEF ReportAndClearPriorState, devices, fences, history, facts
<1>49. CASE UNCHANGED vars
  BY <1>49 DEF vars, control, machine, devices, fences, history, facts
<1> QED
  BY <1>1, <1>2, <1>3, <1>4, <1>5, <1>6, <1>7, <1>8, <1>9, <1>10, <1>11, <1>12,
      <1>13, <1>14, <1>15, <1>16, <1>17, <1>18, <1>19, <1>20, <1>21, <1>22, <1>23,
      <1>24, <1>25, <1>26, <1>27, <1>28, <1>29, <1>30, <1>31, <1>32, <1>33, <1>34,
      <1>35, <1>36, <1>37, <1>38, <1>39, <1>40, <1>41, <1>42, <1>43, <1>44, <1>45,
      <1>46, <1>47, <1>48, <1>49
      DEF Next, UnwindStep, StartStep, CaptureStep, StopStep

\* Routes are added under an owner and a marker, and leave before them.
LEMMA OwnerInductive ==
  TypeOK /\ LockInv /\ SessionInv /\ OwnerInv /\ [Next]_vars => OwnerInv'
<1> SUFFICES ASSUME TypeOK, LockInv, SessionInv, OwnerInv, [Next]_vars PROVE OwnerInv'
  OBVIOUS
<1> USE DEF TypeOK, LockInv, SessionInv, OneSessionDevice, OwnerInv,
      RoutesAreCovered, Live, Threads, StartAts, ActAts, ProbeAts, OwningAts,
      UnwindAts
<1>1. ASSUME NEW r \in Requests, ReceiveBlocking(r) PROVE OwnerInv'
  BY <1>1 DEF ReceiveBlocking, PipeReady, Goto, machine, devices, fences, history,
      facts
<1>2. ASSUME NEW r \in Requests, ReceiveStop(r) PROVE OwnerInv'
  BY <1>2 DEF ReceiveStop, PipeReady, Goto, machine, devices, facts
<1>3. CASE SetKillSwitch
  BY <1>3 DEF SetKillSwitch, Done, devices, fences, Goto
<1>4. CASE UnwindCancel
  BY <1>4 DEF UnwindCancel, machine, devices, history
<1>5. CASE UnwindRoutes
  BY <1>5 DEF UnwindRoutes, devices, fences
<1>6. CASE UnwindFirewall
  BY <1>6 DEF UnwindFirewall, devices, fences
<1>7. CASE UnwindTeardown
  BY <1>7 DEF UnwindTeardown, machine, fences, history
<1>8. CASE StartEnter
  BY <1>8 DEF StartEnter, StopLocked, Goto, machine, devices
<1>9. CASE StartReadiness
  BY <1>9 DEF StartReadiness, machine, devices, facts
<1>10. CASE StartAdmit
  BY <1>10 DEF StartAdmit, Release, machine, history, Done, Goto
<1>11. CASE StartWiden
  BY <1>11 DEF StartWiden, devices, fences, facts
<1>12. CASE StartSteps
  BY <1>12 DEF StartSteps, StopLocked, machine, fences, history
<1>13. CASE StartFence
  BY <1>13 DEF StartFence, StopLocked, machine, devices, fences, history
<1>14. CASE StartWatch
  BY <1>14 DEF StartWatch, Release, machine, devices, history, facts, Done, Goto
<1>15. CASE StartEnded
  BY <1>15 DEF StartEnded, Release, machine, devices, fences, history, Done, Goto
<1>16. CASE ActReady
  BY <1>16 DEF ActReady, Goto, machine, devices, history, facts
<1>17. CASE ActLeave
  BY <1>17 DEF ActLeave, Goto, machine, devices, fences, history, facts
<1>18. CASE ActAcquire
  BY <1>18 DEF ActAcquire, machine, devices, fences, history, facts
<1>19. CASE ActCheck
  BY <1>19 DEF ActCheck, Release, Goto, machine, devices, fences, history, facts,
      Done
<1>20. CASE CapturePrepare
  BY <1>20 DEF CapturePrepare, Proceed, Rollback, machine, devices, fences, history,
      facts
<1>21. CASE \/ CaptureCheck("firewall", "connecting")
          \/ CaptureCheck("connected", "secure")
          \/ CaptureCheck("commit", "committed")
  BY <1>21 DEF CaptureCheck, Proceed, Rollback, machine, devices, fences, history,
      facts
<1>22. CASE CaptureFirewall
  BY <1>22 DEF CaptureFirewall, Proceed, Rollback, devices, fences
<1>23. CASE CaptureOwn
  BY <1>23 DEF CaptureOwn, Proceed, Rollback, devices, fences, history, facts
<1>24. CASE ArmCrashRevert
  BY <1>24 DEF ArmCrashRevert, Proceed, Rollback, devices, fences, history, facts
<1>25. CASE AddTunRoute
  BY <1>25 DEF AddTunRoute, Proceed, Rollback, devices, fences, history, facts
<1>26. CASE CaptureDns
  BY <1>26 DEF CaptureDns, Proceed, Rollback, machine, devices, fences, history
<1>27. CASE CaptureSecure
  BY <1>27 DEF CaptureSecure, SecureDone, Rollback, devices, fences, Proceed,
      StopLocked
<1>28. CASE CaptureCommitted
  BY <1>28 DEF CaptureCommitted, Release, machine, devices, fences, history, Done,
      Goto
<1>29. CASE CaptureHalted
  BY <1>29 DEF CaptureHalted, Rollback, machine, devices, fences, history, facts
<1>30. CASE CaptureRewiden
  BY <1>30 DEF CaptureRewiden, devices, fences
<1>31. CASE CaptureRolledBack
  BY <1>31 DEF CaptureRolledBack, StopLocked, Release, machine, devices, fences,
      history, facts, Done, Goto
<1>32. CASE CaptureWatch
  BY <1>32 DEF CaptureWatch, Release, machine, devices, history, facts, Done, Goto
<1>33. CASE CaptureFailed
  BY <1>33 DEF CaptureFailed, Release, machine, devices, fences, history, Done, Goto
<1>34. CASE ServiceStop
  BY <1>34 DEF ServiceStop, Goto, machine, devices, fences, history, facts
<1>35. CASE ServiceStopTunnel
  BY <1>35 DEF ServiceStopTunnel, Goto, machine, devices, facts
<1>36. CASE FailsafeFire
  BY <1>36 DEF FailsafeFire, Goto, machine, devices, facts
<1>37. CASE FailsafeBump
  BY <1>37 DEF FailsafeBump, Goto, machine, devices, history, facts
<1>38. CASE FailsafeCancel
  BY <1>38 DEF FailsafeCancel, Goto, machine, devices, history, facts
<1>39. ASSUME NEW t \in {"pipe", "main", "fs"}, StopEnter(t) PROVE OwnerInv'
  BY <1>39 DEF StopEnter, StopLocked, Goto, machine, devices, fences, history, facts
<1>40. ASSUME NEW t \in {"pipe", "main", "fs"}, EscapeRoutes(t) PROVE OwnerInv'
  BY <1>40 DEF EscapeRoutes, Goto, devices, facts
<1>41. ASSUME NEW t \in {"pipe", "main", "fs"}, EscapeFirewall(t) PROVE OwnerInv'
  BY <1>41 DEF EscapeFirewall, Done, devices, fences, Goto
<1>42. CASE StopReturn
  BY <1>42 DEF StopReturn, Release, machine, devices, fences, history, facts, Done,
      Goto
<1>43. CASE LogoutTimeout
  BY <1>43 DEF LogoutTimeout, Done, machine, devices, fences, history, facts, Goto
<1>44. CASE TeardownWorkerFinishes
  BY <1>44 DEF TeardownWorkerFinishes, control, machine, fences, history, facts
<1>45. CASE TimerFires
  BY <1>45 DEF TimerFires, control, devices, fences, history, facts
<1>46. CASE TimerNarrows
  BY <1>46 DEF TimerNarrows, control, devices, fences, history, facts
<1>47. CASE ProcessEnds
  BY <1>47 DEF ProcessEnds
<1>48. CASE ReportAndClearPriorState
  BY <1>48 DEF ReportAndClearPriorState, Goto, devices, fences, history, facts
<1>49. CASE UNCHANGED vars
  BY <1>49 DEF vars, control, machine, devices, fences, history, facts
<1> QED
  BY <1>1, <1>2, <1>3, <1>4, <1>5, <1>6, <1>7, <1>8, <1>9, <1>10, <1>11, <1>12,
      <1>13, <1>14, <1>15, <1>16, <1>17, <1>18, <1>19, <1>20, <1>21, <1>22, <1>23,
      <1>24, <1>25, <1>26, <1>27, <1>28, <1>29, <1>30, <1>31, <1>32, <1>33, <1>34,
      <1>35, <1>36, <1>37, <1>38, <1>39, <1>40, <1>41, <1>42, <1>43, <1>44, <1>45,
      <1>46, <1>47, <1>48, <1>49
      DEF Next, UnwindStep, StartStep, CaptureStep, StopStep

\* Every change of policy settles its watchdog, and every ending leaves the
\* policy the kill switch asks for.
LEMMA PolicyInductive ==
  TypeOK /\ LockInv /\ SessionInv /\ OwnerInv /\ PolicyInv /\ [Next]_vars => PolicyInv'
<1> SUFFICES ASSUME TypeOK, LockInv, SessionInv, OwnerInv, PolicyInv, [Next]_vars PROVE PolicyInv'
  OBVIOUS
<1> USE DEF TypeOK, LockInv, SessionInv, OneSessionDevice, OwnerInv,
      RoutesAreCovered, PolicyInv, WindowIsAttended, Released, Live, StartAts,
      ActAts, ProbeAts, OwningAts, UnwindAts
<1>1. ASSUME NEW r \in Requests, ReceiveBlocking(r) PROVE PolicyInv'
  BY <1>1 DEF ReceiveBlocking, machine, devices, fences, history, facts
<1>2. ASSUME NEW r \in Requests, ReceiveStop(r) PROVE PolicyInv'
  BY <1>2 DEF ReceiveStop, machine, devices, facts
<1>3. CASE SetKillSwitch
  <2>1. op.on \in BOOLEAN /\ killSwitch' = op.on
    BY <1>3, RequestFacts DEF SetKillSwitch
  <2>2. state' = state /\ owner' = owner /\ at' = at /\ unwind' = unwind /\ outcome' = outcome
    BY <1>3 DEF SetKillSwitch
  <2>3. owner = "free" /\ at = "none" /\ unwind = "no"
    BY <1>3 DEF SetKillSwitch
  <2>4. CASE /\ wfp' = wfp /\ timer' = timer /\ stray' = stray
             /\ ~(killSwitch /\ ~op.on /\ state # "Up" /\ wfp \in {"Armed", "Connecting"})
    <3>1. Released' <=> Released
      BY <2>2
    <3>2. Released /\ ~killSwitch' /\ ~stray => wfp \in {"Off", "Connected"}
      BY <2>1, <2>3, <2>4 DEF WfpStates
    <3> QED
      BY <2>2, <2>4, <3>1, <3>2
  <2>5. CASE ApplyWfpLocked("Off") /\ state # "Up"
    BY <2>2, <2>5 DEF ApplyWfpLocked
  <2>6. CASE (ApplyWfpLocked("Connected") \/ ApplyWfpFails) /\ state = "Up" /\ wfp = "Off"
    BY <2>2, <2>3, <2>6 DEF ApplyWfpLocked, ApplyWfpFails
  <2> QED
    BY <1>3, <2>4, <2>5, <2>6 DEF SetKillSwitch
<1>4. CASE UnwindCancel
  BY <1>4 DEF UnwindCancel, machine, devices, history
<1>5. CASE UnwindRoutes
  BY <1>5 DEF UnwindRoutes, devices, fences
<1>6. CASE UnwindFirewall
  BY <1>6 DEF UnwindFirewall, FirewallAfter, ApplyWfpLocked, ApplyWfpFails, devices,
      fences
<1>7. CASE UnwindTeardown
  BY <1>7 DEF UnwindTeardown, machine, fences, history
<1>8. CASE StartEnter
  BY <1>8 DEF StartEnter, StopLocked, machine, devices
<1>9. CASE StartReadiness
  BY <1>9 DEF StartReadiness, machine, devices, facts
<1>10. CASE StartAdmit
  BY <1>10 DEF StartAdmit, Release, machine, history
<1>11. CASE StartWiden
  BY <1>11 DEF StartWiden, ApplyWfpLocked, ApplyWfpFails, devices, fences, facts
<1>12. CASE StartSteps
  BY <1>12 DEF StartSteps, StopLocked, machine, fences, history
<1>13. CASE StartFence
  BY <1>13 DEF StartFence, StopLocked, machine, devices, fences, history
<1>14. CASE StartWatch
  BY <1>14 DEF StartWatch, Release, machine, devices, history, facts
<1>15. CASE StartEnded
  BY <1>15 DEF StartEnded, Release, machine, devices, fences, history
<1>16. CASE ActReady
  BY <1>16 DEF ActReady, machine, devices, history, facts
<1>17. CASE ActLeave
  BY <1>17 DEF ActLeave, machine, devices, fences, history, facts
<1>18. CASE ActAcquire
  BY <1>18 DEF ActAcquire, machine, devices, fences, history, facts
<1>19. CASE ActCheck
  BY <1>19 DEF ActCheck, Release, machine, devices, fences, history, facts
<1>20. CASE CapturePrepare
  BY <1>20 DEF CapturePrepare, Proceed, Rollback, machine, devices, fences, history,
      facts
<1>21. CASE \/ CaptureCheck("firewall", "connecting")
          \/ CaptureCheck("connected", "secure")
          \/ CaptureCheck("commit", "committed")
  BY <1>21 DEF CaptureCheck, Proceed, Rollback, machine, devices, fences, history,
      facts
<1>22. CASE CaptureFirewall
  BY <1>22 DEF CaptureFirewall, ApplyWfpLocked, Proceed, ApplyWfpFails, Rollback,
      devices, fences
<1>23. CASE CaptureOwn
  BY <1>23 DEF CaptureOwn, Proceed, Rollback, devices, fences, history, facts
<1>24. CASE ArmCrashRevert
  BY <1>24 DEF ArmCrashRevert, Proceed, Rollback, devices, fences, history, facts
<1>25. CASE AddTunRoute
  BY <1>25 DEF AddTunRoute, Proceed, Rollback, devices, fences, history, facts
<1>26. CASE CaptureDns
  BY <1>26 DEF CaptureDns, Proceed, Rollback, machine, devices, fences, history
<1>27. CASE CaptureSecure
  BY <1>27 DEF CaptureSecure, SecureDone, ApplyWfpLocked, ApplyWfpFails, Rollback,
      devices, fences, Proceed, StopLocked
<1>28. CASE CaptureCommitted
  BY <1>28 DEF CaptureCommitted, Release, machine, devices, fences, history
<1>29. CASE CaptureHalted
  BY <1>29 DEF CaptureHalted, Rollback, machine, devices, fences, history, facts
<1>30. CASE CaptureRewiden
  BY <1>30 DEF CaptureRewiden, ApplyWfpLocked, ApplyWfpFails, devices, fences
<1>31. CASE CaptureRolledBack
  BY <1>31 DEF CaptureRolledBack, StopLocked, Release, machine, devices, fences,
      history, facts
<1>32. CASE CaptureWatch
  BY <1>32 DEF CaptureWatch, Release, machine, devices, history, facts
<1>33. CASE CaptureFailed
  BY <1>33 DEF CaptureFailed, Release, machine, devices, fences, history
<1>34. CASE ServiceStop
  BY <1>34 DEF ServiceStop, machine, devices, fences, history, facts
<1>35. CASE ServiceStopTunnel
  BY <1>35 DEF ServiceStopTunnel, machine, devices, facts
<1>36. CASE FailsafeFire
  BY <1>36 DEF FailsafeFire, machine, devices, facts
<1>37. CASE FailsafeBump
  BY <1>37 DEF FailsafeBump, machine, devices, history, facts
<1>38. CASE FailsafeCancel
  BY <1>38 DEF FailsafeCancel, machine, devices, history, facts
<1>39. ASSUME NEW t \in {"pipe", "main", "fs"}, StopEnter(t) PROVE PolicyInv'
  BY <1>39 DEF StopEnter, StopLocked, machine, devices, fences, history, facts
<1>40. ASSUME NEW t \in {"pipe", "main", "fs"}, EscapeRoutes(t) PROVE PolicyInv'
  BY <1>40 DEF EscapeRoutes, devices, facts
<1>41. ASSUME NEW t \in {"pipe", "main", "fs"}, EscapeFirewall(t) PROVE PolicyInv'
  BY <1>41 DEF EscapeFirewall, devices, fences
<1>42. CASE StopReturn
  BY <1>42 DEF StopReturn, Release, machine, devices, fences, history, facts
<1>43. CASE LogoutTimeout
  BY <1>43 DEF LogoutTimeout, machine, devices, fences, history, facts
<1>44. CASE TeardownWorkerFinishes
  BY <1>44 DEF TeardownWorkerFinishes, control, machine, fences, history, facts
<1>45. CASE TimerFires
  BY <1>45 DEF TimerFires, control, devices, fences, history, facts
<1>46. CASE TimerNarrows
  BY <1>46 DEF TimerNarrows, control, devices, fences, history, facts
<1>47. CASE ProcessEnds
  BY <1>47 DEF ProcessEnds
<1>48. CASE ReportAndClearPriorState
  BY <1>48 DEF ReportAndClearPriorState, devices, fences, history, facts
<1>49. CASE UNCHANGED vars
  BY <1>49 DEF vars, control, machine, devices, fences, history, facts
<1> QED
  BY <1>1, <1>2, <1>3, <1>4, <1>5, <1>6, <1>7, <1>8, <1>9, <1>10, <1>11, <1>12,
      <1>13, <1>14, <1>15, <1>16, <1>17, <1>18, <1>19, <1>20, <1>21, <1>22, <1>23,
      <1>24, <1>25, <1>26, <1>27, <1>28, <1>29, <1>30, <1>31, <1>32, <1>33, <1>34,
      <1>35, <1>36, <1>37, <1>38, <1>39, <1>40, <1>41, <1>42, <1>43, <1>44, <1>45,
      <1>46, <1>47, <1>48, <1>49
      DEF Next, UnwindStep, StartStep, CaptureStep, StopStep

\* Whatever moves the state or the owner of routes publishes before it lets go of
\* the lock (PublishStatusLocked).
LEMMA MirrorInductive ==
  LockInv /\ MirrorInv /\ [Next]_vars => MirrorInv'
<1> SUFFICES ASSUME LockInv, MirrorInv, [Next]_vars PROVE MirrorInv'
  OBVIOUS
<1> USE DEF LockInv, MirrorInv, UnwindAts
<1>1. ASSUME NEW r \in Requests, ReceiveBlocking(r) PROVE MirrorInv'
BY <1>1 DEF ReceiveBlocking, Goto, machine, devices, fences, history, facts
<1>2. ASSUME NEW r \in Requests, ReceiveStop(r) PROVE MirrorInv'
BY <1>2 DEF ReceiveStop, Goto, machine, devices, facts
<1>3. CASE SetKillSwitch
  BY <1>3 DEF SetKillSwitch, PublishStatusLocked, devices, fences
<1>4. CASE UnwindCancel
BY <1>4 DEF UnwindCancel, machine, devices, history
<1>5. CASE UnwindRoutes
BY <1>5 DEF UnwindRoutes, PublishStatusLocked, devices, fences
<1>6. CASE UnwindFirewall
BY <1>6 DEF UnwindFirewall, PublishStatusLocked, devices, fences
<1>7. CASE UnwindTeardown
BY <1>7 DEF UnwindTeardown, PublishStatusLocked, machine, fences, history
<1>8. CASE StartEnter
BY <1>8 DEF StartEnter, StopLocked, Goto, machine, devices
<1>9. CASE StartReadiness
BY <1>9 DEF StartReadiness, machine, devices, facts
<1>10. CASE StartAdmit
BY <1>10 DEF StartAdmit, Release, PublishStatusLocked, Done, Goto, machine, history
<1>11. CASE StartWiden
BY <1>11 DEF StartWiden, devices, fences, facts
<1>12. CASE StartSteps
BY <1>12 DEF StartSteps, StopLocked, PublishStatusLocked, machine, fences, history
<1>13. CASE StartFence
BY <1>13 DEF StartFence, StopLocked, PublishStatusLocked, machine, devices, fences,
      history
<1>14. CASE StartWatch
BY <1>14 DEF StartWatch, Release, Done, Goto, machine, devices, history, facts
<1>15. CASE StartEnded
BY <1>15 DEF StartEnded, Release, PublishStatusLocked, Done, Goto, machine, devices,
      fences, history
<1>16. CASE ActReady
BY <1>16 DEF ActReady, Goto, machine, devices, history, facts
<1>17. CASE ActLeave
BY <1>17 DEF ActLeave, Goto, machine, devices, fences, history, facts
<1>18. CASE ActAcquire
BY <1>18 DEF ActAcquire, machine, devices, fences, history, facts
<1>19. CASE ActCheck
BY <1>19 DEF ActCheck, Release, Goto, Done, machine, devices, fences, history, facts
<1>20. CASE CapturePrepare
BY <1>20 DEF CapturePrepare, Proceed, Rollback, machine, devices, fences, history,
      facts
<1>21. CASE \/ CaptureCheck("firewall", "connecting")
          \/ CaptureCheck("connected", "secure")
          \/ CaptureCheck("commit", "committed")
BY <1>21 DEF CaptureCheck, Proceed, Rollback, machine, devices, fences, history, facts
<1>22. CASE CaptureFirewall
BY <1>22 DEF CaptureFirewall, Proceed, Rollback, PublishStatusLocked, devices, fences
<1>23. CASE CaptureOwn
BY <1>23 DEF CaptureOwn, Proceed, Rollback, devices, fences, history, facts
<1>24. CASE ArmCrashRevert
BY <1>24 DEF ArmCrashRevert, Proceed, Rollback, devices, fences, history, facts
<1>25. CASE AddTunRoute
BY <1>25 DEF AddTunRoute, Proceed, Rollback, devices, fences, history, facts
<1>26. CASE CaptureDns
BY <1>26 DEF CaptureDns, Proceed, Rollback, PublishStatusLocked, machine, devices,
      fences, history
<1>27. CASE CaptureSecure
BY <1>27 DEF CaptureSecure, Rollback, PublishStatusLocked, SecureDone, StopLocked,
      Proceed, devices, fences
<1>28. CASE CaptureCommitted
BY <1>28 DEF CaptureCommitted, Release, PublishStatusLocked, Done, Goto, machine,
      devices, fences, history
<1>29. CASE CaptureHalted
BY <1>29 DEF CaptureHalted, Rollback, machine, devices, fences, history, facts
<1>30. CASE CaptureRewiden
BY <1>30 DEF CaptureRewiden, PublishStatusLocked, devices, fences
<1>31. CASE CaptureRolledBack
BY <1>31 DEF CaptureRolledBack, StopLocked, Release, Done, Goto, machine, devices,
      fences, history, facts
<1>32. CASE CaptureWatch
BY <1>32 DEF CaptureWatch, Release, Done, Goto, machine, devices, history, facts
<1>33. CASE CaptureFailed
BY <1>33 DEF CaptureFailed, Release, PublishStatusLocked, Done, Goto, machine,
      devices, fences, history
<1>34. CASE ServiceStop
BY <1>34 DEF ServiceStop, Goto, machine, devices, fences, history, facts
<1>35. CASE ServiceStopTunnel
BY <1>35 DEF ServiceStopTunnel, Goto, machine, devices, facts
<1>36. CASE FailsafeFire
BY <1>36 DEF FailsafeFire, Goto, machine, devices, facts
<1>37. CASE FailsafeBump
BY <1>37 DEF FailsafeBump, Goto, machine, devices, history, facts
<1>38. CASE FailsafeCancel
BY <1>38 DEF FailsafeCancel, Goto, machine, devices, history, facts
<1>39. ASSUME NEW t \in {"pipe", "main", "fs"}, StopEnter(t) PROVE MirrorInv'
BY <1>39 DEF StopEnter, StopLocked, Goto, machine, devices, fences, history, facts
<1>40. ASSUME NEW t \in {"pipe", "main", "fs"}, EscapeRoutes(t) PROVE MirrorInv'
BY <1>40 DEF EscapeRoutes, Goto, devices, facts
<1>41. ASSUME NEW t \in {"pipe", "main", "fs"}, EscapeFirewall(t) PROVE MirrorInv'
BY <1>41 DEF EscapeFirewall, Done, Goto, devices, fences
<1>42. CASE StopReturn
BY <1>42 DEF StopReturn, Release, Done, Goto, machine, devices, fences, history, facts
<1>43. CASE LogoutTimeout
BY <1>43 DEF LogoutTimeout, Done, Goto, machine, devices, fences, history, facts
<1>44. CASE TeardownWorkerFinishes
BY <1>44 DEF TeardownWorkerFinishes, control, machine, fences, history, facts
<1>45. CASE TimerFires
BY <1>45 DEF TimerFires, control, devices, fences, history, facts
<1>46. CASE TimerNarrows
BY <1>46 DEF TimerNarrows, control, devices, fences, history, facts
<1>47. CASE ProcessEnds
BY <1>47 DEF ProcessEnds
<1>48. CASE ReportAndClearPriorState
BY <1>48 DEF ReportAndClearPriorState, Goto, devices, fences, history, facts
<1>49. CASE UNCHANGED vars
  BY <1>49 DEF vars, control, machine, devices, fences, history, facts
<1> QED
BY <1>1, <1>2, <1>3, <1>4, <1>5, <1>6, <1>7, <1>8, <1>9, <1>10, <1>11, <1>12, <1>13,
      <1>14, <1>15, <1>16, <1>17, <1>18, <1>19, <1>20, <1>21, <1>22, <1>23, <1>24,
      <1>25, <1>26, <1>27, <1>28, <1>29, <1>30, <1>31, <1>32, <1>33, <1>34, <1>35,
      <1>36, <1>37, <1>38, <1>39, <1>40, <1>41, <1>42, <1>43, <1>44, <1>45, <1>46,
      <1>47, <1>48, <1>49
      DEF Next, UnwindStep, StartStep, CaptureStep, StopStep

\* A staged stop is final, and nothing that comes after it puts a policy back.
LEMMA StagedInductive ==
  TypeOK /\ LockInv /\ SessionInv /\ OwnerInv /\ StagedInv /\ [Next]_vars => StagedInv'
<1> SUFFICES ASSUME TypeOK, LockInv, SessionInv, OwnerInv, StagedInv, [Next]_vars
    PROVE StagedInv'
  OBVIOUS
<1> USE DEF TypeOK, LockInv, SessionInv, OneSessionDevice, OwnerInv, StagedInv,
      StagedEnd, FinalAts, Live, Threads, StartAts, ActAts, ProbeAts, OwningAts,
      UnwindAts
<1>1. ASSUME NEW r \in Requests, ReceiveBlocking(r) PROVE StagedInv'
BY <1>1 DEF ReceiveBlocking, Goto, machine, devices, fences, history, facts
<1>2. ASSUME NEW r \in Requests, ReceiveStop(r) PROVE StagedInv'
BY <1>2 DEF ReceiveStop, Goto, machine, devices, facts
<1>3. CASE SetKillSwitch
BY <1>3 DEF SetKillSwitch, Done, ApplyWfpLocked, ApplyWfpFails, Goto, devices, fences
<1>4. CASE UnwindCancel
BY <1>4 DEF UnwindCancel, machine, devices, history
<1>5. CASE UnwindRoutes
BY <1>5 DEF UnwindRoutes, devices, fences
<1>6. CASE UnwindFirewall
BY <1>6 DEF UnwindFirewall, ApplyWfpLocked, ApplyWfpFails, FirewallAfter, devices,
      fences
<1>7. CASE UnwindTeardown
BY <1>7 DEF UnwindTeardown, machine, fences, history
<1>8. CASE StartEnter
BY <1>8 DEF StartEnter, StopLocked, Goto, machine, devices
<1>9. CASE StartReadiness
BY <1>9 DEF StartReadiness, machine, devices, facts
<1>10. CASE StartAdmit
BY <1>10 DEF StartAdmit, Release, Done, Goto, machine, history
<1>11. CASE StartWiden
BY <1>11 DEF StartWiden, ApplyWfpLocked, ApplyWfpFails, devices, fences, facts
<1>12. CASE StartSteps
BY <1>12 DEF StartSteps, StopLocked, machine, fences, history
<1>13. CASE StartFence
BY <1>13 DEF StartFence, StopLocked, machine, devices, fences, history
<1>14. CASE StartWatch
BY <1>14 DEF StartWatch, Release, Done, Goto, machine, devices, history, facts
<1>15. CASE StartEnded
BY <1>15 DEF StartEnded, Release, Done, Goto, machine, devices, fences, history
<1>16. CASE ActReady
BY <1>16 DEF ActReady, Goto, machine, devices, history, facts
<1>17. CASE ActLeave
BY <1>17 DEF ActLeave, Goto, machine, devices, fences, history, facts
<1>18. CASE ActAcquire
BY <1>18 DEF ActAcquire, machine, devices, fences, history, facts
<1>19. CASE ActCheck
BY <1>19 DEF ActCheck, Release, Goto, Done, machine, devices, fences, history, facts
<1>20. CASE CapturePrepare
BY <1>20 DEF CapturePrepare, Proceed, Rollback, machine, devices, fences, history,
      facts
<1>21. CASE \/ CaptureCheck("firewall", "connecting")
          \/ CaptureCheck("connected", "secure")
          \/ CaptureCheck("commit", "committed")
BY <1>21 DEF CaptureCheck, Proceed, Rollback, machine, devices, fences, history, facts
<1>22. CASE CaptureFirewall
BY <1>22 DEF CaptureFirewall, Proceed, Rollback, ApplyWfpLocked, ApplyWfpFails,
      devices, fences
<1>23. CASE CaptureOwn
BY <1>23 DEF CaptureOwn, Proceed, Rollback, devices, fences, history, facts
<1>24. CASE ArmCrashRevert
BY <1>24 DEF ArmCrashRevert, Proceed, Rollback, devices, fences, history, facts
<1>25. CASE AddTunRoute
BY <1>25 DEF AddTunRoute, Proceed, Rollback, devices, fences, history, facts
<1>26. CASE CaptureDns
BY <1>26 DEF CaptureDns, Proceed, Rollback, machine, devices, fences, history
<1>27. CASE CaptureSecure
BY <1>27 DEF CaptureSecure, Rollback, ApplyWfpLocked, ApplyWfpFails, SecureDone,
      StopLocked, Proceed, devices, fences
<1>28. CASE CaptureCommitted
BY <1>28 DEF CaptureCommitted, Release, Done, Goto, machine, devices, fences, history
<1>29. CASE CaptureHalted
BY <1>29 DEF CaptureHalted, Rollback, machine, devices, fences, history, facts
<1>30. CASE CaptureRewiden
BY <1>30 DEF CaptureRewiden, ApplyWfpLocked, ApplyWfpFails, devices, fences
<1>31. CASE CaptureRolledBack
BY <1>31 DEF CaptureRolledBack, StopLocked, Release, Done, Goto, machine, devices,
      fences, history, facts
<1>32. CASE CaptureWatch
BY <1>32 DEF CaptureWatch, Release, Done, Goto, machine, devices, history, facts
<1>33. CASE CaptureFailed
BY <1>33 DEF CaptureFailed, Release, Done, Goto, machine, devices, fences, history
<1>34. CASE ServiceStop
BY <1>34 DEF ServiceStop, Goto, machine, devices, fences, history, facts
<1>35. CASE ServiceStopTunnel
BY <1>35 DEF ServiceStopTunnel, Goto, machine, devices, facts
<1>36. CASE FailsafeFire
BY <1>36 DEF FailsafeFire, Goto, machine, devices, facts
<1>37. CASE FailsafeBump
BY <1>37 DEF FailsafeBump, Goto, machine, devices, history, facts
<1>38. CASE FailsafeCancel
BY <1>38 DEF FailsafeCancel, Goto, machine, devices, history, facts
<1>39. ASSUME NEW t \in {"pipe", "main", "fs"}, StopEnter(t) PROVE StagedInv'
BY <1>39 DEF StopEnter, StopLocked, Goto, machine, devices, fences, history, facts
<1>40. ASSUME NEW t \in {"pipe", "main", "fs"}, EscapeRoutes(t) PROVE StagedInv'
BY <1>40 DEF EscapeRoutes, Goto, HolderBlocked, devices, facts
<1>41. ASSUME NEW t \in {"pipe", "main", "fs"}, EscapeFirewall(t) PROVE StagedInv'
BY <1>41 DEF EscapeFirewall, Done, Goto, devices, fences
<1>42. CASE StopReturn
BY <1>42 DEF StopReturn, Release, Done, Goto, machine, devices, fences, history, facts
<1>43. CASE LogoutTimeout
BY <1>43 DEF LogoutTimeout, Done, HolderBlocked, Goto, machine, devices, fences,
      history, facts
<1>44. CASE TeardownWorkerFinishes
BY <1>44 DEF TeardownWorkerFinishes, control, machine, fences, history, facts
<1>45. CASE TimerFires
BY <1>45 DEF TimerFires, control, devices, fences, history, facts
<1>46. CASE TimerNarrows
BY <1>46 DEF TimerNarrows, control, devices, fences, history, facts
<1>47. CASE ProcessEnds
BY <1>47 DEF ProcessEnds
<1>48. CASE ReportAndClearPriorState
BY <1>48 DEF ReportAndClearPriorState, Goto, devices, fences, history, facts
<1>49. CASE UNCHANGED vars
  BY <1>49 DEF vars, control, machine, devices, fences, history, facts
<1> QED
BY <1>1, <1>2, <1>3, <1>4, <1>5, <1>6, <1>7, <1>8, <1>9, <1>10, <1>11, <1>12, <1>13,
      <1>14, <1>15, <1>16, <1>17, <1>18, <1>19, <1>20, <1>21, <1>22, <1>23, <1>24,
      <1>25, <1>26, <1>27, <1>28, <1>29, <1>30, <1>31, <1>32, <1>33, <1>34, <1>35,
      <1>36, <1>37, <1>38, <1>39, <1>40, <1>41, <1>42, <1>43, <1>44, <1>45, <1>46,
      <1>47, <1>48, <1>49
      DEF Next, UnwindStep, StartStep, CaptureStep, StopStep

-----------------------------------------------------------------------------
(* The interfaces with the readiness and with the devices.                  *)

\* The evaluator of a ticket and the watch for one are where their readiness is.
LEMMA GrantInductive ==
  TypeOK /\ LockInv /\ SessionInv /\ GrantInv /\ [Next]_vars => GrantInv'
<1> SUFFICES ASSUME TypeOK, LockInv, SessionInv, GrantInv, [Next]_vars PROVE GrantInv'
  OBVIOUS
<1> USE DEF TypeOK, LockInv, SessionInv, GrantInv, Live, Threads, StartAts, ActAts,
      ProbeAts, OwningAts, UnwindAts
<1>1. ASSUME NEW r \in Requests, ReceiveBlocking(r) PROVE GrantInv'
  BY <1>1 DEF ReceiveBlocking, Goto, machine, devices, fences, history, facts
<1>2. ASSUME NEW r \in Requests, ReceiveStop(r) PROVE GrantInv'
  BY <1>2 DEF ReceiveStop, Goto, machine, devices, facts
<1>3. CASE SetKillSwitch
  BY <1>3 DEF SetKillSwitch, Done, Goto, devices, fences
<1>4. CASE UnwindCancel
  BY <1>4 DEF UnwindCancel, machine, devices, history
<1>5. CASE UnwindRoutes
  BY <1>5 DEF UnwindRoutes, devices, fences
<1>6. CASE UnwindFirewall
  BY <1>6 DEF UnwindFirewall, devices, fences
<1>7. CASE UnwindTeardown
  BY <1>7 DEF UnwindTeardown, machine, fences, history
<1>8. CASE StartEnter
  BY <1>8 DEF StartEnter, StopLocked, Goto, machine, devices
<1>9. CASE StartReadiness
  BY <1>9 DEF StartReadiness, machine, devices, facts
<1>10. CASE StartAdmit
  BY <1>10 DEF StartAdmit, Release, Done, Goto, machine, history
<1>11. CASE StartWiden
  BY <1>11 DEF StartWiden, devices, fences, facts
<1>12. CASE StartSteps
  BY <1>12 DEF StartSteps, StopLocked, machine, fences, history
<1>13. CASE StartFence
  BY <1>13 DEF StartFence, StopLocked, machine, devices, fences, history
<1>14. CASE StartWatch
  BY <1>14 DEF StartWatch, Release, Done, Goto, machine, devices, history, facts
<1>15. CASE StartEnded
  BY <1>15 DEF StartEnded, Release, Done, Goto, machine, devices, fences, history
<1>16. CASE ActReady
  BY <1>16 DEF ActReady, Goto, machine, devices, history, facts
<1>17. CASE ActLeave
  BY <1>17 DEF ActLeave, Goto, machine, devices, fences, history, facts
<1>18. CASE ActAcquire
  BY <1>18 DEF ActAcquire, machine, devices, fences, history, facts
<1>19. CASE ActCheck
  BY <1>19 DEF ActCheck, Release, Goto, Done, machine, devices, fences, history, facts
<1>20. CASE CapturePrepare
  BY <1>20 DEF CapturePrepare, Proceed, Rollback, machine, devices, fences, history,
      facts
<1>21. CASE \/ CaptureCheck("firewall", "connecting")
          \/ CaptureCheck("connected", "secure")
          \/ CaptureCheck("commit", "committed")
  BY <1>21 DEF CaptureCheck, Proceed, Rollback, machine, devices, fences, history, facts
<1>22. CASE CaptureFirewall
  BY <1>22 DEF CaptureFirewall, Proceed, Rollback, devices, fences
<1>23. CASE CaptureOwn
  BY <1>23 DEF CaptureOwn, Proceed, Rollback, devices, fences, history, facts
<1>24. CASE ArmCrashRevert
  BY <1>24 DEF ArmCrashRevert, Proceed, Rollback, devices, fences, history, facts
<1>25. CASE AddTunRoute
  BY <1>25 DEF AddTunRoute, Proceed, Rollback, devices, fences, history, facts
<1>26. CASE CaptureDns
  BY <1>26 DEF CaptureDns, Proceed, Rollback, machine, devices, fences, history
<1>27. CASE CaptureSecure
  BY <1>27 DEF CaptureSecure, Rollback, SecureDone, StopLocked, Proceed, devices, fences
<1>28. CASE CaptureCommitted
  BY <1>28 DEF CaptureCommitted, Release, Done, Goto, machine, devices, fences, history
<1>29. CASE CaptureHalted
  BY <1>29 DEF CaptureHalted, Rollback, machine, devices, fences, history, facts
<1>30. CASE CaptureRewiden
  BY <1>30 DEF CaptureRewiden, devices, fences
<1>31. CASE CaptureRolledBack
  BY <1>31 DEF CaptureRolledBack, StopLocked, Release, Done, Goto, machine, devices,
      fences, history, facts
<1>32. CASE CaptureWatch
  BY <1>32 DEF CaptureWatch, Release, Done, Goto, machine, devices, history, facts
<1>33. CASE CaptureFailed
  BY <1>33 DEF CaptureFailed, Release, Done, Goto, machine, devices, fences, history
<1>34. CASE ServiceStop
  BY <1>34 DEF ServiceStop, Goto, machine, devices, fences, history, facts
<1>35. CASE ServiceStopTunnel
  BY <1>35 DEF ServiceStopTunnel, Goto, machine, devices, facts
<1>36. CASE FailsafeFire
  BY <1>36 DEF FailsafeFire, Goto, machine, devices, facts
<1>37. CASE FailsafeBump
  BY <1>37 DEF FailsafeBump, Goto, machine, devices, history, facts
<1>38. CASE FailsafeCancel
  BY <1>38 DEF FailsafeCancel, Goto, machine, devices, history, facts
<1>39. ASSUME NEW t \in {"pipe", "main", "fs"}, StopEnter(t) PROVE GrantInv'
  BY <1>39 DEF StopEnter, StopLocked, Goto, machine, devices, fences, history, facts
<1>40. ASSUME NEW t \in {"pipe", "main", "fs"}, EscapeRoutes(t) PROVE GrantInv'
  BY <1>40 DEF EscapeRoutes, Goto, devices, facts
<1>41. ASSUME NEW t \in {"pipe", "main", "fs"}, EscapeFirewall(t) PROVE GrantInv'
  BY <1>41 DEF EscapeFirewall, Done, Goto, devices, fences
<1>42. CASE StopReturn
  BY <1>42 DEF StopReturn, Release, Done, Goto, machine, devices, fences, history, facts
<1>43. CASE LogoutTimeout
  BY <1>43 DEF LogoutTimeout, Done, Goto, machine, devices, fences, history, facts
<1>44. CASE TeardownWorkerFinishes
  BY <1>44 DEF TeardownWorkerFinishes, control, machine, fences, history, facts
<1>45. CASE TimerFires
  BY <1>45 DEF TimerFires, control, devices, fences, history, facts
<1>46. CASE TimerNarrows
  BY <1>46 DEF TimerNarrows, control, devices, fences, history, facts
<1>47. CASE ProcessEnds
  BY <1>47 DEF ProcessEnds
<1>48. CASE ReportAndClearPriorState
  BY <1>48 DEF ReportAndClearPriorState, Goto, devices, fences, history, facts
<1>49. CASE UNCHANGED vars
  BY <1>49 DEF vars, control, machine, devices, fences, history, facts
<1> QED
  BY <1>1, <1>2, <1>3, <1>4, <1>5, <1>6, <1>7, <1>8, <1>9, <1>10, <1>11, <1>12, <1>13,
      <1>14, <1>15, <1>16, <1>17, <1>18, <1>19, <1>20, <1>21, <1>22, <1>23, <1>24,
      <1>25, <1>26, <1>27, <1>28, <1>29, <1>30, <1>31, <1>32, <1>33, <1>34, <1>35,
      <1>36, <1>37, <1>38, <1>39, <1>40, <1>41, <1>42, <1>43, <1>44, <1>45, <1>46,
      <1>47, <1>48, <1>49
      DEF Next, UnwindStep, StartStep, CaptureStep, StopStep

\* Every step of the session takes, keeps, drops, spends or cancels its grant.
LEMMA GrantStep ==
  TypeOK /\ LockInv /\ SessionInv /\ OwnerInv /\ GrantInv /\ [Next]_vars
    => [Grant!Next]_<<cancelled, grant>>
<1> SUFFICES ASSUME TypeOK, LockInv, SessionInv, OwnerInv, GrantInv, [Next]_vars PROVE
    [Grant!Next]_<<cancelled, grant>>
  OBVIOUS
<1> USE DEF TypeOK, LockInv, SessionInv, OwnerInv, GrantInv, Live, Threads, grant,
      CapturingSteps, Grant!Next, Grant!Take, Grant!Drop, Grant!Spend, Grant!Cancel,
      Grant!Renew, StartAts, ActAts, ProbeAts, OwningAts, UnwindAts
<1>1. ASSUME NEW r \in Requests, ReceiveBlocking(r) PROVE [Grant!Next]_<<cancelled, grant>>
  BY <1>1 DEF ReceiveBlocking, Goto, machine, devices, fences, history, facts
<1>2. ASSUME NEW r \in Requests, ReceiveStop(r) PROVE [Grant!Next]_<<cancelled, grant>>
  BY <1>2 DEF ReceiveStop, Goto, machine, devices, facts
<1>3. CASE SetKillSwitch
  BY <1>3 DEF SetKillSwitch, Done, Goto, devices, fences
<1>4. CASE UnwindCancel
  <2>1. cancelled' = TRUE /\ at' = at /\ state' # "Up"
    BY <1>4 DEF UnwindCancel
  <2>2. CASE pc["act"] = "waiting"
    <3>1. pc'["act"] = "stale" /\ at \notin CapturingSteps
      BY <1>4, <2>2 DEF UnwindCancel
    <3> QED
      BY <2>1, <2>2, <3>1
  <2>3. CASE pc["act"] # "waiting"
    <3>1. pc' = pc
      BY <1>4, <2>3 DEF UnwindCancel
    <3>2. grant' \in {grant, "none"}
      BY <1>4, <2>1, <2>3, <3>1
    <3> QED
      BY <2>1, <3>2
  <2> QED
    BY <2>2, <2>3
<1>5. CASE UnwindRoutes
  BY <1>5 DEF UnwindRoutes, devices, fences
<1>6. CASE UnwindFirewall
  BY <1>6 DEF UnwindFirewall, devices, fences
<1>7. CASE UnwindTeardown
  BY <1>7 DEF UnwindTeardown, machine, fences, history
<1>8. CASE StartEnter
  BY <1>8 DEF StartEnter, StopLocked, Goto, machine, devices
<1>9. CASE StartReadiness
  BY <1>9 DEF StartReadiness, machine, devices, facts
<1>10. CASE StartAdmit
  BY <1>10 DEF StartAdmit, Release, Done, Goto, machine, history
<1>11. CASE StartWiden
  BY <1>11 DEF StartWiden, devices, fences, facts
<1>12. CASE StartSteps
  BY <1>12 DEF StartSteps, StopLocked, machine, fences, history
<1>13. CASE StartFence
  BY <1>13 DEF StartFence, StopLocked, machine, devices, fences, history
<1>14. CASE StartWatch
  BY <1>14 DEF StartWatch, Release, Done, Goto, machine, devices, history, facts
<1>15. CASE StartEnded
  BY <1>15 DEF StartEnded, Release, Done, Goto, machine, devices, fences, history
<1>16. CASE ActReady
  BY <1>16 DEF ActReady, Goto, machine, devices, history, facts
<1>17. CASE ActLeave
  BY <1>17 DEF ActLeave, Goto, machine, devices, fences, history, facts
<1>18. CASE ActAcquire
  BY <1>18 DEF ActAcquire, machine, devices, fences, history, facts
<1>19. CASE ActCheck
  BY <1>19 DEF ActCheck, Release, Goto, Done, machine, devices, fences, history, facts
<1>20. CASE CapturePrepare
  BY <1>20 DEF CapturePrepare, Proceed, Rollback, machine, devices, fences, history,
      facts
<1>21. CASE \/ CaptureCheck("firewall", "connecting")
          \/ CaptureCheck("connected", "secure")
          \/ CaptureCheck("commit", "committed")
  BY <1>21 DEF CaptureCheck, Proceed, Rollback, machine, devices, fences, history, facts
<1>22. CASE CaptureFirewall
  BY <1>22 DEF CaptureFirewall, Proceed, Rollback, devices, fences
<1>23. CASE CaptureOwn
  BY <1>23 DEF CaptureOwn, Proceed, Rollback, devices, fences, history, facts
<1>24. CASE ArmCrashRevert
  BY <1>24 DEF ArmCrashRevert, Proceed, Rollback, devices, fences, history, facts
<1>25. CASE AddTunRoute
  BY <1>25 DEF AddTunRoute, Proceed, Rollback, devices, fences, history, facts
<1>26. CASE CaptureDns
  BY <1>26 DEF CaptureDns, Proceed, Rollback, machine, devices, fences, history
<1>27. CASE CaptureSecure
  BY <1>27 DEF CaptureSecure, Rollback, SecureDone, StopLocked, Proceed, devices, fences
<1>28. CASE CaptureCommitted
  BY <1>28 DEF CaptureCommitted, Release, Done, Goto, machine, devices, fences, history
<1>29. CASE CaptureHalted
  BY <1>29 DEF CaptureHalted, Rollback, machine, devices, fences, history, facts
<1>30. CASE CaptureRewiden
  BY <1>30 DEF CaptureRewiden, devices, fences
<1>31. CASE CaptureRolledBack
  BY <1>31 DEF CaptureRolledBack, StopLocked, Release, Done, Goto, machine, devices,
      fences, history, facts
<1>32. CASE CaptureWatch
  BY <1>32 DEF CaptureWatch, Release, Done, Goto, machine, devices, history, facts
<1>33. CASE CaptureFailed
  BY <1>33 DEF CaptureFailed, Release, Done, Goto, machine, devices, fences, history
<1>34. CASE ServiceStop
  BY <1>34 DEF ServiceStop, Goto, machine, devices, fences, history, facts
<1>35. CASE ServiceStopTunnel
  BY <1>35 DEF ServiceStopTunnel, Goto, machine, devices, facts
<1>36. CASE FailsafeFire
  BY <1>36 DEF FailsafeFire, Goto, machine, devices, facts
<1>37. CASE FailsafeBump
  BY <1>37 DEF FailsafeBump, Goto, machine, devices, history, facts
<1>38. CASE FailsafeCancel
  BY <1>38 DEF FailsafeCancel, Goto, machine, devices, history, facts
<1>39. ASSUME NEW t \in {"pipe", "main", "fs"}, StopEnter(t) PROVE [Grant!Next]_<<cancelled, grant>>
  BY <1>39 DEF StopEnter, StopLocked, Goto, machine, devices, fences, history, facts
<1>40. ASSUME NEW t \in {"pipe", "main", "fs"}, EscapeRoutes(t)
  PROVE  [Grant!Next]_<<cancelled, grant>>
  BY <1>40 DEF EscapeRoutes, Goto, devices, facts
<1>41. ASSUME NEW t \in {"pipe", "main", "fs"}, EscapeFirewall(t)
  PROVE  [Grant!Next]_<<cancelled, grant>>
  BY <1>41 DEF EscapeFirewall, Done, Goto, devices, fences
<1>42. CASE StopReturn
  BY <1>42 DEF StopReturn, Release, Done, Goto, machine, devices, fences, history, facts
<1>43. CASE LogoutTimeout
  BY <1>43 DEF LogoutTimeout, Done, Goto, machine, devices, fences, history, facts
<1>44. CASE TeardownWorkerFinishes
  BY <1>44 DEF TeardownWorkerFinishes, control, machine, fences, history, facts
<1>45. CASE TimerFires
  BY <1>45 DEF TimerFires, control, devices, fences, history, facts
<1>46. CASE TimerNarrows
  BY <1>46 DEF TimerNarrows, control, devices, fences, history, facts
<1>47. CASE ProcessEnds
  BY <1>47 DEF ProcessEnds
<1>48. CASE ReportAndClearPriorState
  BY <1>48 DEF ReportAndClearPriorState, Goto, devices, fences, history, facts
<1>49. CASE UNCHANGED vars
  BY <1>49 DEF vars, control, machine, devices, fences, history, facts
<1> QED
  BY <1>1, <1>2, <1>3, <1>4, <1>5, <1>6, <1>7, <1>8, <1>9, <1>10, <1>11, <1>12, <1>13,
      <1>14, <1>15, <1>16, <1>17, <1>18, <1>19, <1>20, <1>21, <1>22, <1>23, <1>24,
      <1>25, <1>26, <1>27, <1>28, <1>29, <1>30, <1>31, <1>32, <1>33, <1>34, <1>35,
      <1>36, <1>37, <1>38, <1>39, <1>40, <1>41, <1>42, <1>43, <1>44, <1>45, <1>46,
      <1>47, <1>48, <1>49
      DEF Next, UnwindStep, StartStep, CaptureStep, StopStep

\* Every step of the session core is one of the admission's, or leaves the devices.
LEMMA AdmissionStep ==
  TypeOK /\ SessionInv /\ [Next]_vars => [Admission!Next]_<<session, held, restartPending>>
<1> SUFFICES ASSUME TypeOK, SessionInv, [Next]_vars
  PROVE  [Admission!Next]_<<session, held, restartPending>>
  OBVIOUS
<1> USE DEF TypeOK, SessionInv, OneSessionDevice, Admission!Next, Admission!Open,
      Admission!Close, Admission!Hold, Admission!Finish, Admission!AskRestart,
      Admission!End
<1>1. ASSUME NEW r \in Requests, ReceiveBlocking(r)
  PROVE  [Admission!Next]_<<session, held, restartPending>>
  BY <1>1 DEF ReceiveBlocking, devices
<1>2. ASSUME NEW r \in Requests, ReceiveStop(r)
  PROVE  [Admission!Next]_<<session, held, restartPending>>
  BY <1>2 DEF ReceiveStop, devices
<1>3. CASE SetKillSwitch
  BY <1>3 DEF SetKillSwitch, devices
<1>4. CASE UnwindCancel
  BY <1>4 DEF UnwindCancel, devices
<1>5. CASE UnwindRoutes
  BY <1>5 DEF UnwindRoutes, devices
<1>6. CASE UnwindFirewall
  BY <1>6 DEF UnwindFirewall, devices
<1>7. CASE UnwindTeardown
  BY <1>7 DEF UnwindTeardown
<1>8. CASE StartEnter
  BY <1>8 DEF StartEnter, devices
<1>9. CASE StartReadiness
  BY <1>9 DEF StartReadiness, devices
<1>10. CASE StartAdmit
  BY <1>10 DEF StartAdmit
<1>11. CASE StartWiden
  BY <1>11 DEF StartWiden, devices
<1>12. CASE StartSteps
  BY <1>12 DEF StartSteps
<1>13. CASE StartFence
  BY <1>13 DEF StartFence, devices
<1>14. CASE StartWatch
  BY <1>14 DEF StartWatch, devices
<1>15. CASE StartEnded
  BY <1>15 DEF StartEnded, devices
<1>16. CASE ActReady
  BY <1>16 DEF ActReady, devices
<1>17. CASE ActLeave
  BY <1>17 DEF ActLeave, devices
<1>18. CASE ActAcquire
  BY <1>18 DEF ActAcquire, devices
<1>19. CASE ActCheck
  BY <1>19 DEF ActCheck, devices
<1>20. CASE CapturePrepare
  BY <1>20 DEF CapturePrepare, devices
<1>21. CASE \/ CaptureCheck("firewall", "connecting")
          \/ CaptureCheck("connected", "secure")
          \/ CaptureCheck("commit", "committed")
  BY <1>21 DEF CaptureCheck, devices
<1>22. CASE CaptureFirewall
  BY <1>22 DEF CaptureFirewall, devices
<1>23. CASE CaptureOwn
  BY <1>23 DEF CaptureOwn, devices
<1>24. CASE ArmCrashRevert
  BY <1>24 DEF ArmCrashRevert, devices
<1>25. CASE AddTunRoute
  BY <1>25 DEF AddTunRoute, devices
<1>26. CASE CaptureDns
  BY <1>26 DEF CaptureDns, devices
<1>27. CASE CaptureSecure
  BY <1>27 DEF CaptureSecure, devices
<1>28. CASE CaptureCommitted
  BY <1>28 DEF CaptureCommitted, devices
<1>29. CASE CaptureHalted
  BY <1>29 DEF CaptureHalted, devices
<1>30. CASE CaptureRewiden
  BY <1>30 DEF CaptureRewiden, devices
<1>31. CASE CaptureRolledBack
  BY <1>31 DEF CaptureRolledBack, devices
<1>32. CASE CaptureWatch
  BY <1>32 DEF CaptureWatch, devices
<1>33. CASE CaptureFailed
  BY <1>33 DEF CaptureFailed, devices
<1>34. CASE ServiceStop
  BY <1>34 DEF ServiceStop, devices
<1>35. CASE ServiceStopTunnel
  BY <1>35 DEF ServiceStopTunnel, devices
<1>36. CASE FailsafeFire
  BY <1>36 DEF FailsafeFire, devices
<1>37. CASE FailsafeBump
  BY <1>37 DEF FailsafeBump, devices
<1>38. CASE FailsafeCancel
  BY <1>38 DEF FailsafeCancel, devices
<1>39. ASSUME NEW t \in {"pipe", "main", "fs"}, StopEnter(t)
  PROVE  [Admission!Next]_<<session, held, restartPending>>
  BY <1>39 DEF StopEnter, devices
<1>40. ASSUME NEW t \in {"pipe", "main", "fs"}, EscapeRoutes(t)
  PROVE  [Admission!Next]_<<session, held, restartPending>>
  BY <1>40 DEF EscapeRoutes, devices
<1>41. ASSUME NEW t \in {"pipe", "main", "fs"}, EscapeFirewall(t)
  PROVE  [Admission!Next]_<<session, held, restartPending>>
  BY <1>41 DEF EscapeFirewall, devices
<1>42. CASE StopReturn
  BY <1>42 DEF StopReturn, devices
<1>43. CASE LogoutTimeout
  BY <1>43 DEF LogoutTimeout, devices
<1>44. CASE TeardownWorkerFinishes
  BY <1>44 DEF TeardownWorkerFinishes
<1>45. CASE TimerFires
  BY <1>45 DEF TimerFires, devices
<1>46. CASE TimerNarrows
  BY <1>46 DEF TimerNarrows, devices
<1>47. CASE ProcessEnds
  BY <1>47 DEF ProcessEnds
<1>48. CASE ReportAndClearPriorState
  BY <1>48 DEF ReportAndClearPriorState, devices
<1>49. CASE UNCHANGED vars
  BY <1>49 DEF vars, devices
<1> QED
  BY <1>1, <1>2, <1>3, <1>4, <1>5, <1>6, <1>7, <1>8, <1>9, <1>10, <1>11, <1>12, <1>13,
      <1>14, <1>15, <1>16, <1>17, <1>18, <1>19, <1>20, <1>21, <1>22, <1>23, <1>24,
      <1>25, <1>26, <1>27, <1>28, <1>29, <1>30, <1>31, <1>32, <1>33, <1>34, <1>35,
      <1>36, <1>37, <1>38, <1>39, <1>40, <1>41, <1>42, <1>43, <1>44, <1>45, <1>46,
      <1>47, <1>48, <1>49
      DEF Next, UnwindStep, StartStep, CaptureStep, StopStep

-----------------------------------------------------------------------------
(* The theorems.                                                            *)

\* The parts of the inductive invariant hold together.
LEMMA Invariance == Spec => []IInv
<1>1. Init => LockInv /\ IntentInv /\ SessionInv /\ OwnerInv /\ PolicyInv
  BY DEF Init, LockInv, IntentInv, SessionInv, OwnerInv, PolicyInv, OneSessionDevice,
      RoutesAreCovered, WindowIsAttended, Released, Live, Threads, StartAts, ActAts,
      ProbeAts, OwningAts, UnwindAts
<1>2. IInv /\ TypeOK' /\ [Next]_vars => IInv'
  BY LockInductive, IntentInductive, SessionInductive, OwnerInductive, PolicyInductive
      DEF IInv
<1> QED
  BY <1>1, <1>2, TypeCorrect, PTL DEF Spec, IInv

\* However the five endings, the escapes, the watchdog and a crash interleave, a
\* session that has ended holds no route, owner, marker or armed crash path, and
\* no policy the kill switch did not ask for (StopLocked, phase 1).
THEOREM EndedIsReleased == Spec => []EndedMachineIsReleased
<1>1. IInv => EndedMachineIsReleased
  BY DEF IInv, TypeOK, LockInv, OwnerInv, PolicyInv, EndedMachineIsReleased, Ended, Released,
      WfpStates, OwningAts, UnwindAts
<1> QED
  BY <1>1, Invariance, PTL

\* Capture routes never outlive what can take them away again, except behind an
\* escape (BringUpTunnelLocked's Network stage and RevertMachineStateLocked).
THEOREM RoutesCovered == Spec => []RoutesAreCovered
<1>1. IInv => RoutesAreCovered
  BY DEF IInv, OwnerInv
<1> QED
  BY <1>1, Invariance, PTL

\* Two sessions' devices never coexist, and a process that has decided to restart
\* builds none (StartLocked's refusals and TearDownSessionLocked).
THEOREM SingleDevice == Spec => []OneSessionDevice
<1>1. IInv => OneSessionDevice
  BY DEF IInv, SessionInv
<1> QED
  BY <1>1, Invariance, PTL

\* A tunnel reported up has its device and routes, and no watchdog of an earlier
\* window can still block it (ApplyWfpLocked's join).
THEOREM UpIsUsable == Spec => []UpCarriesTraffic
<1>1. IInv => UpCarriesTraffic
  BY DEF IInv, SessionInv, OwnerInv, PolicyInv, UpCarriesTraffic, Live
<1> QED
  BY <1>1, Invariance, PTL

\* An open DNS window always has the watchdog that will close it
\* (ArmConnectingWatchdogLocked).
THEOREM WindowAttended == Spec => []WindowIsAttended
<1>1. IInv => WindowIsAttended
  BY DEF IInv, PolicyInv
<1> QED
  BY <1>1, Invariance, PTL

\* No interleaving commits a capture after the user's last stop
\* (stopGeneration_, CancelCapture and the checks of ApplyCapture).
THEOREM StopIsFinal == Spec => NoCaptureAfterStop
<1>1. IInv /\ [Next]_vars => [state # "Up" /\ state' = "Up" => intent = "on"]_vars
  <2> SUFFICES ASSUME IInv, Next, state # "Up", state' = "Up" PROVE intent = "on"
    OBVIOUS
  <2>1. CASE CaptureCommitted
    BY <2>1 DEF CaptureCommitted, IInv, IntentInv
  <2>2. ASSUME NEW r \in Requests, ReceiveBlocking(r) PROVE FALSE
    BY <2>2 DEF ReceiveBlocking, machine, devices, fences, history, facts
  <2>3. ASSUME NEW r \in Requests, ReceiveStop(r) PROVE FALSE
    BY <2>3 DEF ReceiveStop, machine, devices, facts
  <2>4. CASE SetKillSwitch
    BY <2>4 DEF SetKillSwitch, devices, fences
  <2>5. CASE UnwindCancel
    BY <2>5 DEF UnwindCancel, Live, machine, devices, history
  <2>6. CASE UnwindRoutes
    BY <2>6 DEF UnwindRoutes, devices, fences
  <2>7. CASE UnwindFirewall
    BY <2>7 DEF UnwindFirewall, devices, fences
  <2>8. CASE UnwindTeardown
    BY <2>8 DEF UnwindTeardown, machine, fences, history
  <2>9. CASE StartEnter
    BY <2>9 DEF StartEnter, machine, devices
  <2>10. CASE StartReadiness
    BY <2>10 DEF StartReadiness, machine, devices, facts
  <2>11. CASE StartAdmit
    BY <2>11 DEF StartAdmit, machine, history
  <2>12. CASE StartWiden
    BY <2>12 DEF StartWiden, devices, fences, facts
  <2>13. CASE StartSteps
    BY <2>13 DEF StartSteps, machine, fences, history
  <2>14. CASE StartFence
    BY <2>14 DEF StartFence, machine, devices, fences, history
  <2>15. CASE StartWatch
    BY <2>15 DEF StartWatch, machine, devices, history, facts
  <2>16. CASE StartEnded
    BY <2>16 DEF StartEnded, machine, devices, fences, history
  <2>17. CASE ActReady
    BY <2>17 DEF ActReady, machine, devices, history, facts
  <2>18. CASE ActLeave
    BY <2>18 DEF ActLeave, machine, devices, fences, history, facts
  <2>19. CASE ActAcquire
    BY <2>19 DEF ActAcquire, machine, devices, fences, history, facts
  <2>20. CASE ActCheck
    BY <2>20 DEF ActCheck, machine, devices, fences, history, facts
  <2>21. CASE CapturePrepare
    BY <2>21 DEF CapturePrepare, machine, devices, fences, history, facts
  <2>22. CASE \/ CaptureCheck("firewall", "connecting")
            \/ CaptureCheck("connected", "secure")
            \/ CaptureCheck("commit", "committed")
    BY <2>22 DEF CaptureCheck, machine, devices, fences, history, facts
  <2>23. CASE CaptureFirewall
    BY <2>23 DEF CaptureFirewall, devices, fences
  <2>24. CASE CaptureOwn
    BY <2>24 DEF CaptureOwn, devices, fences, history, facts
  <2>25. CASE ArmCrashRevert
    BY <2>25 DEF ArmCrashRevert, devices, fences, history, facts
  <2>26. CASE AddTunRoute
    BY <2>26 DEF AddTunRoute, devices, fences, history, facts
  <2>27. CASE CaptureDns
    BY <2>27 DEF CaptureDns, machine, devices, fences, history
  <2>28. CASE CaptureSecure
    BY <2>28 DEF CaptureSecure, devices, fences
  <2>29. CASE CaptureHalted
    BY <2>29 DEF CaptureHalted, machine, devices, fences, history, facts
  <2>30. CASE CaptureRewiden
    BY <2>30 DEF CaptureRewiden, devices, fences
  <2>31. CASE CaptureRolledBack
    BY <2>31 DEF CaptureRolledBack, machine, devices, fences, history, facts
  <2>32. CASE CaptureWatch
    BY <2>32 DEF CaptureWatch, machine, devices, history, facts
  <2>33. CASE CaptureFailed
    BY <2>33 DEF CaptureFailed, machine, devices, fences, history
  <2>34. CASE ServiceStop
    BY <2>34 DEF ServiceStop, machine, devices, fences, history, facts
  <2>35. CASE ServiceStopTunnel
    BY <2>35 DEF ServiceStopTunnel, machine, devices, facts
  <2>36. CASE FailsafeFire
    BY <2>36 DEF FailsafeFire, machine, devices, facts
  <2>37. CASE FailsafeBump
    BY <2>37 DEF FailsafeBump, machine, devices, history, facts
  <2>38. CASE FailsafeCancel
    BY <2>38 DEF FailsafeCancel, machine, devices, history, facts
  <2>39. ASSUME NEW t \in {"pipe", "main", "fs"}, StopEnter(t) PROVE FALSE
    BY <2>39 DEF StopEnter, machine, devices, fences, history, facts
  <2>40. ASSUME NEW t \in {"pipe", "main", "fs"}, EscapeRoutes(t) PROVE FALSE
    BY <2>40 DEF EscapeRoutes, devices, facts
  <2>41. ASSUME NEW t \in {"pipe", "main", "fs"}, EscapeFirewall(t) PROVE FALSE
    BY <2>41 DEF EscapeFirewall, devices, fences
  <2>42. CASE StopReturn
    BY <2>42 DEF StopReturn, machine, devices, fences, history, facts
  <2>43. CASE LogoutTimeout
    BY <2>43 DEF LogoutTimeout, machine, devices, fences, history, facts
  <2>44. CASE TeardownWorkerFinishes
    BY <2>44 DEF TeardownWorkerFinishes, control, machine, fences, history, facts
  <2>45. CASE TimerFires
    BY <2>45 DEF TimerFires, control, devices, fences, history, facts
  <2>46. CASE TimerNarrows
    BY <2>46 DEF TimerNarrows, control, devices, fences, history, facts
  <2>47. CASE ProcessEnds
    BY <2>47 DEF ProcessEnds
  <2>48. CASE ReportAndClearPriorState
    BY <2>48 DEF ReportAndClearPriorState, devices, fences, history, facts
  <2> QED
    BY <2>1, <2>2, <2>3, <2>4, <2>5, <2>6, <2>7, <2>8, <2>9, <2>10, <2>11, <2>12,
      <2>13, <2>14, <2>15, <2>16, <2>17, <2>18, <2>19, <2>20, <2>21, <2>22, <2>23,
      <2>24, <2>25, <2>26, <2>27, <2>28, <2>29, <2>30, <2>31, <2>32, <2>33, <2>34,
      <2>35, <2>36, <2>37, <2>38, <2>39, <2>40, <2>41, <2>42, <2>43, <2>44, <2>45,
      <2>46, <2>47, <2>48
        DEF Next, UnwindStep, StartStep, CaptureStep, StopStep
<1> QED
  BY <1>1, Invariance, PTL DEF Spec, NoCaptureAfterStop

\* With the kill switch on, a policy in force is lifted only by the user's stop, by
\* a staged or overtaken start, or by a failsafe that read the switch off
\* (RevertMachineStateLocked, DropFirewallOnEscape).
THEOREM KillSwitchKept == Spec => KillSwitchHolds
<1>1. IInv /\ [Next]_vars =>
        [killSwitch /\ killSwitch' /\ wfp # "Off" /\ wfp' = "Off" =>
           \/ intent = "off"
           \/ at \in {"startAborted", "actHalted"}
           \/ owner = "fs" /\ final]_vars
  <2> SUFFICES ASSUME IInv, Next, killSwitch, killSwitch', wfp # "Off", wfp' = "Off"
               PROVE  intent = "off" \/ at \in {"startAborted", "actHalted"}
                        \/ (owner = "fs" /\ final)
    OBVIOUS
  <2>1. CASE UnwindFirewall
    BY <2>1 DEF UnwindFirewall, FirewallAfter, ApplyWfpLocked, ApplyWfpFails, IInv, TypeOK,
        IntentInv
  <2>2. ASSUME NEW r \in Requests, ReceiveBlocking(r) PROVE FALSE
    BY <2>2 DEF ReceiveBlocking, machine, devices, fences, history, facts
  <2>3. ASSUME NEW r \in Requests, ReceiveStop(r) PROVE FALSE
    BY <2>3 DEF ReceiveStop, machine, devices, facts
  <2>4. CASE SetKillSwitch
    BY <2>4 DEF SetKillSwitch, ApplyWfpLocked, ApplyWfpFails, devices, fences
  <2>5. CASE UnwindCancel
    BY <2>5 DEF UnwindCancel, Live, machine, devices, history
  <2>6. CASE UnwindRoutes
    BY <2>6 DEF UnwindRoutes, devices, fences
  <2>7. CASE UnwindTeardown
    BY <2>7 DEF UnwindTeardown, machine, fences, history
  <2>8. CASE StartEnter
    BY <2>8 DEF StartEnter, machine, devices
  <2>9. CASE StartReadiness
    BY <2>9 DEF StartReadiness, machine, devices, facts
  <2>10. CASE StartAdmit
    BY <2>10 DEF StartAdmit, machine, history
  <2>11. CASE StartWiden
    BY <2>11 DEF StartWiden, ApplyWfpLocked, ApplyWfpFails, devices, fences, facts
  <2>12. CASE StartSteps
    BY <2>12 DEF StartSteps, machine, fences, history
  <2>13. CASE StartFence
    BY <2>13 DEF StartFence, machine, devices, fences, history
  <2>14. CASE StartWatch
    BY <2>14 DEF StartWatch, machine, devices, history, facts
  <2>15. CASE StartEnded
    BY <2>15 DEF StartEnded, machine, devices, fences, history
  <2>16. CASE ActReady
    BY <2>16 DEF ActReady, machine, devices, history, facts
  <2>17. CASE ActLeave
    BY <2>17 DEF ActLeave, machine, devices, fences, history, facts
  <2>18. CASE ActAcquire
    BY <2>18 DEF ActAcquire, machine, devices, fences, history, facts
  <2>19. CASE ActCheck
    BY <2>19 DEF ActCheck, machine, devices, fences, history, facts
  <2>20. CASE CapturePrepare
    BY <2>20 DEF CapturePrepare, machine, devices, fences, history, facts
  <2>21. CASE \/ CaptureCheck("firewall", "connecting")
            \/ CaptureCheck("connected", "secure")
            \/ CaptureCheck("commit", "committed")
    BY <2>21 DEF CaptureCheck, machine, devices, fences, history, facts
  <2>22. CASE CaptureFirewall
    BY <2>22 DEF CaptureFirewall, ApplyWfpLocked, ApplyWfpFails, devices, fences
  <2>23. CASE CaptureOwn
    BY <2>23 DEF CaptureOwn, devices, fences, history, facts
  <2>24. CASE ArmCrashRevert
    BY <2>24 DEF ArmCrashRevert, devices, fences, history, facts
  <2>25. CASE AddTunRoute
    BY <2>25 DEF AddTunRoute, devices, fences, history, facts
  <2>26. CASE CaptureDns
    BY <2>26 DEF CaptureDns, machine, devices, fences, history
  <2>27. CASE CaptureSecure
    BY <2>27 DEF CaptureSecure, ApplyWfpLocked, ApplyWfpFails, devices, fences
  <2>28. CASE CaptureCommitted
    BY <2>28 DEF CaptureCommitted, machine, devices, fences, history
  <2>29. CASE CaptureHalted
    BY <2>29 DEF CaptureHalted, machine, devices, fences, history, facts
  <2>30. CASE CaptureRewiden
    BY <2>30 DEF CaptureRewiden, ApplyWfpLocked, ApplyWfpFails, devices, fences
  <2>31. CASE CaptureRolledBack
    BY <2>31 DEF CaptureRolledBack, machine, devices, fences, history, facts
  <2>32. CASE CaptureWatch
    BY <2>32 DEF CaptureWatch, machine, devices, history, facts
  <2>33. CASE CaptureFailed
    BY <2>33 DEF CaptureFailed, machine, devices, fences, history
  <2>34. CASE ServiceStop
    BY <2>34 DEF ServiceStop, machine, devices, fences, history, facts
  <2>35. CASE ServiceStopTunnel
    BY <2>35 DEF ServiceStopTunnel, machine, devices, facts
  <2>36. CASE FailsafeFire
    BY <2>36 DEF FailsafeFire, machine, devices, facts
  <2>37. CASE FailsafeBump
    BY <2>37 DEF FailsafeBump, machine, devices, history, facts
  <2>38. CASE FailsafeCancel
    BY <2>38 DEF FailsafeCancel, machine, devices, history, facts
  <2>39. ASSUME NEW t \in {"pipe", "main", "fs"}, StopEnter(t) PROVE FALSE
    BY <2>39 DEF StopEnter, machine, devices, fences, history, facts
  <2>40. ASSUME NEW t \in {"pipe", "main", "fs"}, EscapeRoutes(t) PROVE FALSE
    BY <2>40 DEF EscapeRoutes, devices, facts
  <2>41. ASSUME NEW t \in {"pipe", "main", "fs"}, EscapeFirewall(t) PROVE FALSE
    BY <2>41 DEF EscapeFirewall, devices, fences
  <2>42. CASE StopReturn
    BY <2>42 DEF StopReturn, machine, devices, fences, history, facts
  <2>43. CASE LogoutTimeout
    BY <2>43 DEF LogoutTimeout, machine, devices, fences, history, facts
  <2>44. CASE TeardownWorkerFinishes
    BY <2>44 DEF TeardownWorkerFinishes, control, machine, fences, history, facts
  <2>45. CASE TimerFires
    BY <2>45 DEF TimerFires, control, devices, fences, history, facts
  <2>46. CASE TimerNarrows
    BY <2>46 DEF TimerNarrows, control, devices, fences, history, facts
  <2>47. CASE ProcessEnds
    BY <2>47 DEF ProcessEnds
  <2>48. CASE ReportAndClearPriorState
    BY <2>48 DEF ReportAndClearPriorState, devices, fences, history, facts
  <2> QED
    BY <2>1, <2>2, <2>3, <2>4, <2>5, <2>6, <2>7, <2>8, <2>9, <2>10, <2>11, <2>12,
      <2>13, <2>14, <2>15, <2>16, <2>17, <2>18, <2>19, <2>20, <2>21, <2>22, <2>23,
      <2>24, <2>25, <2>26, <2>27, <2>28, <2>29, <2>30, <2>31, <2>32, <2>33, <2>34,
      <2>35, <2>36, <2>37, <2>38, <2>39, <2>40, <2>41, <2>42, <2>43, <2>44, <2>45,
      <2>46, <2>47, <2>48
        DEF Next, UnwindStep, StartStep, CaptureStep, StopStep
<1> QED
  BY <1>1, Invariance, PTL DEF Spec, KillSwitchHolds

\* The status the app reads without the lock is the controller's own whenever the
\* lock is free, unless an escape patched it (PublishStatusLocked).
THEOREM MirrorIsCurrent == Spec => []StatusShowsCapture
<1>1. Init => MirrorInv
  BY DEF Init, MirrorInv
<1>2. IInv /\ MirrorInv /\ [Next]_vars => MirrorInv'
  BY MirrorInductive DEF IInv
<1>3. IInv /\ MirrorInv => StatusShowsCapture
  BY DEF IInv, LockInv, MirrorInv, StatusShowsCapture, UnwindAts
<1> QED
  BY <1>1, <1>2, <1>3, Invariance, PTL DEF Spec

\* A staged bring-up that ended Stopped left no policy, route, marker, owner or
\* device, whatever the kill switch and whatever failed (HaltAfterStepLocked).
THEOREM StagedEndIsClean == Spec => []StagedStopIsClean
<1>1. Init => StagedInv
  BY DEF Init, StagedInv, StagedEnd, FinalAts, Threads
<1>2. IInv /\ StagedInv /\ [Next]_vars => StagedInv'
  BY StagedInductive DEF IInv
<1>3. IInv /\ StagedInv => StagedStopIsClean
  <2> SUFFICES ASSUME IInv, StagedInv, stopAfter # 0, owner = "free", state = "Stopped",
                      pc["main"] # "dead"
               PROVE  wfp = "Off" /\ ~netConfig /\ ~routes /\ ~marker /\ ~session
    BY DEF StagedStopIsClean
  <2>1. at = "none" /\ unwind = "no"
    BY DEF IInv, LockInv, UnwindAts
  <2>2. wfp = "Off" /\ ~session
    BY <2>1 DEF StagedInv, StagedEnd
  <2>3. ~netConfig
    BY <2>1 DEF IInv, OwnerInv, OwningAts
  <2> QED
    BY <2>2, <2>3 DEF IInv, OwnerInv
<1> QED
  BY <1>1, <1>2, <1>3, Invariance, PTL DEF Spec

\* The session keeps CaptureGrant: no capture on a ticket of an earlier readiness
\* or past a cancel, whatever stops, restarts and late evaluators do (ActivateCapture).
THEOREM SessionImplementsGrant == Spec => SessionSpendsGrants
<1>1. Init => GrantInv /\ Grant!Init
  BY DEF Init, GrantInv, Grant!Init, grant, Threads, ActAts, ProbeAts, OwningAts, StartAts,
      CapturingSteps
<1>2. IInv /\ GrantInv /\ [Next]_vars => GrantInv'
  BY GrantInductive DEF IInv
<1>3. IInv /\ GrantInv /\ [Next]_vars => [Grant!Next]_<<cancelled, grant>>
  BY GrantStep DEF IInv
<1> QED
  BY <1>1, <1>2, <1>3, Invariance, PTL DEF Spec, SessionSpendsGrants, Grant!Spec

\* The session core keeps DeviceAdmission, for every request set, failure and crash.
THEOREM SessionImplementsAdmission == Spec => SessionIsAdmitted
<1>1. Init => Admission!Init
  BY DEF Init, Admission!Init
<1>2. IInv /\ [Next]_vars => [Admission!Next]_<<session, held, restartPending>>
  BY AdmissionStep DEF IInv
<1> QED
  BY <1>1, <1>2, Invariance, PTL DEF Spec, SessionIsAdmitted, Admission!Spec
=============================================================================
