---------------------------- MODULE TunnelSession ----------------------------
(***************************************************************************)
(* The session core of urnetworkd: TunnelController's session lock         *)
(* (mutex_), the bring-up, the capture transaction, the teardown and its   *)
(* lock-free escapes, with the firewall policy, the capture routes, the    *)
(* connecting watchdog and the active marker they move.                    *)
(*                                                                         *)
(* Threads: the control pipe (one request at a time), the service's main   *)
(* thread (service stop), the watchdog evaluator in ActivateCapture        *)
(* ("act"), the watchdog evaluator in FailsafeStop ("fs") and the          *)
(* connecting watchdog, which takes no lock.                               *)
(***************************************************************************)
EXTENDS Naturals, FiniteSets

CONSTANTS
  Requests,     \* the control requests the app may send
  StopAfters,   \* the --stop-after arguments a process may be given: 0 is off,
                \* 1..8 ends the bring-up at that step
  WfpMayFail,   \* TRUE if WfpPolicy::Apply may fail (unelevated, BFE down)
  MayCrash      \* TRUE if the process may die at any point

States    == {"Stopped", "Starting", "Preparing", "Up", "RpcOnly", "Stopping", "Error"}
WfpStates == {"Off", "Armed", "Connecting", "Connected"}
Modes     == {"tunnel", "rpcOnly"}
Kinds     == {"start", "disconnect", "logout", "killSwitch"}
Request   == [kind : Kinds, on : BOOLEAN, mode : Modes]
Threads   == {"pipe", "main", "act", "fs"}
NoRequest == [kind |-> "disconnect", on |-> FALSE, mode |-> "tunnel"]

ASSUME RequestsAssumption == Requests \subseteq Request
ASSUME StopAftersAssumption == StopAfters \subseteq 0..8
ASSUME SwitchesAssumption == WfpMayFail \in BOOLEAN /\ MayCrash \in BOOLEAN

VARIABLES
  stopAfter,      \* stopAfterStep_, set from the command line before anything runs
  pc,             \* where each thread is while it does not hold the lock
  owner,          \* the holder of mutex_, or "free"
  at,             \* where the holder is in its own operation
  unwind,         \* where the holder is in StopLocked / RevertMachineStateLocked
  final,          \* that unwind's finalDisarm argument
  hadRoutes,      \* that unwind's hadRoutes
  outcome,        \* why ApplyCapture is rolling back
  op,             \* the request the pipe thread is serving
  state,          \* state_
  mode,           \* startMode_
  session,        \* the session's device, adapter, pump and monitor exist
  killSwitch,     \* killSwitch_
  wfp,            \* WfpPolicy::State()
  timer,          \* the connecting watchdog: idle, armed, fired
  netConfig,      \* netConfig_ is not null
  routes,         \* capture routes are in the route table
  crashArmed,     \* g_armedTunLuid is not zero
  marker,         \* the active marker file exists
  bumped,         \* stopGeneration_ moved since the last start loaded it
  cancelled,      \* the current CaptureReadiness is cancelled
  watch,          \* the evaluator deciding: none, rpc, capture, up
  held,           \* an abandoned teardown worker still holds a session's device
  restartPending, \* SelfRestartPending()
  fsKillSwitch,   \* the kill switch as FailsafeStop read it before the lock
  mirror,         \* statusMirror_: the state and routes_installed it carries
  intent,         \* history: the user's last word, a start ("on") or a stop ("off")
  escaped,        \* history: an escape ran since routes were last reverted in order
  stray           \* history: an escape dropped the policy under a live timer

control  == <<pc, owner, at, unwind, final, hadRoutes, outcome, op>>
machine  == <<wfp, timer, netConfig, routes, crashArmed, marker>>
devices  == <<session, held, restartPending>>
fences   == <<bumped, cancelled, watch, fsKillSwitch>>
history  == <<intent, escaped, stray>>
facts    == <<state, mode, killSwitch, mirror, stopAfter>>
vars     == <<control, machine, devices, fences, history, facts>>

AtSteps ==
  {"none", "stop", "startUnwind", "startAdmit", "startWiden", "startSteps",
   "startFence", "startWatch", "startAborted", "startFailed",
   "actCheck", "prepare", "firewall", "connecting", "network", "arm", "routes",
   "dns", "connected", "secure", "commit", "committed", "upWatch", "rewatch",
   "rollback", "rolledBack", "actHalted", "actFailed"}

Places ==
  {"idle", "running", "joining", "stopped", "dead", "lockWait", "stopWait", "busy",
   "waiting", "stale", "fired", "bumped", "escape"}

UnwindSteps == {"no", "cancel", "routes", "firewall", "teardown"}

\* IsSessionLive (Protocol.h).
Live(s) == s \in {"Up", "RpcOnly", "Preparing"}

Init ==
  /\ stopAfter \in StopAfters
  /\ pc = [t \in Threads |-> IF t = "main" THEN "running" ELSE "idle"]
  /\ owner = "free" /\ at = "none" /\ unwind = "no"
  /\ final = FALSE /\ hadRoutes = FALSE /\ outcome = "none"
  /\ op = NoRequest
  /\ state = "Stopped" /\ mode = "tunnel" /\ session = FALSE
  /\ killSwitch = FALSE /\ wfp = "Off" /\ timer = "idle"
  /\ netConfig = FALSE /\ routes = FALSE /\ crashArmed = FALSE /\ marker = FALSE
  /\ bumped = FALSE /\ cancelled = TRUE /\ watch = "none"
  /\ held = FALSE /\ restartPending = FALSE /\ fsKillSwitch = FALSE
  /\ mirror = [state |-> "Stopped", routes |-> FALSE]
  /\ intent = "off" /\ escaped = FALSE /\ stray = FALSE

-----------------------------------------------------------------------------
(* Shared pieces.                                                          *)

\* A thread's next place while it is off the lock.
Goto(t, place) == pc' = [pc EXCEPT ![t] = place]

\* The operation is over for thread t; the pipe thread has replied.
Done(t) ==
  /\ Goto(t, IF t = "main" THEN "stopped" ELSE "idle")
  /\ op' = IF t = "pipe" THEN NoRequest ELSE op

\* Leaving the critical section.
Release(t) == owner' = "free" /\ at' = "none" /\ Done(t)

\* PublishStatusLocked: the mirror carries what the controller owns.
PublishStatusLocked(s, owned) == mirror' = [state |-> s, routes |-> owned]

\* Mutant: the previous window's watchdog is not cancelled.
ApplyWfpLocked_KeepsTimer(s) ==
  /\ timer # "fired"
  /\ wfp' = s
  /\ timer' = IF s = "Connecting" THEN "armed" ELSE timer
  /\ stray' = FALSE

\* ApplyWfpLocked joins the connecting watchdog first, so it waits out one that
\* has fired; then the policy takes, and Connecting arms a new watchdog ...
ApplyWfpLocked(s) ==
  /\ timer # "fired"
  /\ wfp' = s
  /\ timer' = IF s = "Connecting" THEN "armed" ELSE "idle"
  /\ stray' = FALSE

\* ... or WfpPolicy::Apply fails and the policy in force stays as it was.
ApplyWfpFails ==
  /\ WfpMayFail
  /\ timer # "fired"
  /\ timer' = "idle"
  /\ stray' = FALSE
  /\ UNCHANGED wfp

\* StopLocked entered by the lock holder, from step s of its operation.
StopLocked(s, finalDisarm) ==
  /\ at' = s /\ unwind' = "cancel" /\ final' = finalDisarm

\* The holder is inside something with no bound of its own below the lock
\* budget (an sdk, BFE or dnscache call, a bounded teardown of 6 s), so a timed
\* acquisition behind it can expire.
BlockingSteps ==
  {"startWiden", "startSteps", "startWatch", "prepare", "connecting", "arm",
   "routes", "dns", "secure", "rollback", "upWatch", "rewatch"}

\* Mutant: the stop takes the lock without a bound.
HolderBlocked_Never == FALSE

HolderBlocked ==
  \/ unwind \in {"routes", "firewall", "teardown"}
  \/ unwind = "no" /\ at \in BlockingSteps

-----------------------------------------------------------------------------
(* StopLocked: the unwind every ending shares.                             *)

UnwindCancel ==
  /\ unwind = "cancel"
  /\ cancelled' = TRUE
  /\ hadRoutes' = netConfig
  /\ state' = IF Live(state) \/ state = "Starting" THEN "Stopping" ELSE state
  /\ mirror' = IF state' # state THEN [state |-> state', routes |-> netConfig] ELSE mirror
  /\ watch' = "none"
  /\ pc' = IF pc["act"] = "waiting" THEN [pc EXCEPT !["act"] = "stale"] ELSE pc
  /\ unwind' = "routes"
  /\ UNCHANGED <<owner, at, final, outcome, op, machine, devices, bumped,
                 fsKillSwitch, history, mode, killSwitch, stopAfter>>

\* Mutant: the marker outlives the routes.
UnwindRoutes_KeepsMarker ==
  /\ unwind = "routes"
  /\ netConfig' = FALSE
  /\ routes' = (routes /\ ~netConfig)
  /\ crashArmed' = (crashArmed /\ ~netConfig)
  /\ escaped' = FALSE
  /\ unwind' = "firewall"
  /\ PublishStatusLocked(state, netConfig')
  /\ UNCHANGED <<pc, owner, at, final, hadRoutes, outcome, op, wfp, timer, marker,
                 devices, fences, intent, stray, state, mode, killSwitch, stopAfter>>

\* RevertMachineStateLocked, first half: routes, owner, marker.
UnwindRoutes ==
  /\ unwind = "routes"
  /\ netConfig' = FALSE
  /\ routes' = (routes /\ ~netConfig)
  /\ crashArmed' = (crashArmed /\ ~netConfig)
  /\ marker' = FALSE
  /\ escaped' = FALSE
  /\ unwind' = "firewall"
  /\ PublishStatusLocked(state, netConfig')
  /\ UNCHANGED <<pc, owner, at, final, hadRoutes, outcome, op, wfp, timer, devices,
                 fences, intent, stray, state, mode, killSwitch, stopAfter>>

\* Mutant: the kill switch is not consulted.
FirewallAfter_NoSwitch == IF wfp # "Off" THEN "Off" ELSE "unchanged"

\* What the firewall is left in: lifted by a deliberate stop, held or installed
\* as Armed under the kill switch, lifted without it.
FirewallAfter ==
  CASE final                                               -> "Off"
    [] ~final /\ killSwitch /\ (wfp # "Off" \/ hadRoutes)  -> "Armed"
    [] ~final /\ ~killSwitch /\ wfp # "Off"                -> "Off"
    [] OTHER                                               -> "unchanged"

\* RevertMachineStateLocked, second half: the policy. A rollback ends here, a
\* stop goes on to the session's objects.
UnwindFirewall ==
  /\ unwind = "firewall"
  /\ \/ /\ FirewallAfter = "unchanged"
        /\ UNCHANGED <<wfp, timer, stray, mirror>>
     \/ /\ FirewallAfter # "unchanged"
        /\ ApplyWfpLocked(FirewallAfter)
        /\ PublishStatusLocked(state, netConfig)
     \/ /\ FirewallAfter = "Armed"
        /\ ApplyWfpFails
        /\ PublishStatusLocked(state, netConfig)
  /\ unwind' = IF at = "rollback" THEN "no" ELSE "teardown"
  /\ final' = FALSE /\ hadRoutes' = FALSE
  /\ UNCHANGED <<pc, owner, at, outcome, op, netConfig, routes,
                 crashArmed, marker, devices, fences, intent, escaped,
                 state, mode, killSwitch, stopAfter>>

\* TearDownSessionLocked on its budget: the worker finishes, or is abandoned
\* holding the device. Either way the controller's owners are empty.
UnwindTeardown ==
  /\ unwind = "teardown"
  /\ held' \in (IF session THEN {held, TRUE} ELSE {held})
  /\ session' = FALSE
  /\ state' = "Stopped"
  /\ unwind' = "no"
  /\ PublishStatusLocked(state', netConfig)
  /\ UNCHANGED <<pc, owner, at, final, hadRoutes, outcome, op, machine,
                 restartPending, fences, history, mode, killSwitch, stopAfter>>

\* An abandoned worker reports done: the next sweep retires its gate.
TeardownWorkerFinishes ==
  /\ held /\ held' = FALSE
  /\ UNCHANGED <<control, machine, session, restartPending, fences, history, facts>>

-----------------------------------------------------------------------------
(* Control requests, served one at a time by the pipe thread.              *)

PipeReady == pc["main"] = "running" /\ pc["pipe"] = "idle"

\* Start waits for the lock without a bound; so does SetKillSwitch.
ReceiveBlocking(r) ==
  /\ PipeReady
  /\ r.kind \in {"start", "killSwitch"}
  /\ op' = r
  /\ Goto("pipe", "lockWait")
  /\ UNCHANGED <<owner, at, unwind, final, hadRoutes, outcome, machine, devices,
                 fences, history, facts>>

\* StartLocked, entry: the generation is loaded and the preference stored
\* before the idempotent StopLocked(false).
StartEnter ==
  /\ pc["pipe"] = "lockWait" /\ op.kind = "start"
  /\ owner = "free" /\ owner' = "pipe"
  /\ bumped' = FALSE
  /\ killSwitch' = op.on
  /\ StopLocked("startUnwind", FALSE)
  /\ Goto("pipe", "busy")
  /\ intent' = "on"
  /\ UNCHANGED <<hadRoutes, outcome, op, machine, devices, cancelled, watch,
                 fsKillSwitch, escaped, stray, state, mode, mirror, stopAfter>>

\* The new session's readiness replaces the old one.
StartReadiness ==
  /\ at = "startUnwind" /\ unwind = "no"
  /\ cancelled' = FALSE
  /\ at' = "startAdmit"
  /\ UNCHANGED <<pc, owner, unwind, final, hadRoutes, outcome, op, machine, devices,
                 bumped, watch, fsKillSwitch, intent, escaped, stray, facts>>

\* A stop that moved the generation cancels the new readiness. A pending self
\* restart refuses the start; so does a device still held by an abandoned
\* teardown, which asks for the restart (granted under the SCM, not in a console).
StartAdmit ==
  /\ at = "startAdmit"
  /\ cancelled' = (cancelled \/ bumped)
  /\ \/ /\ restartPending \/ held
        /\ restartPending' \in (IF restartPending THEN {TRUE} ELSE BOOLEAN)
        /\ state' = "Error"
        /\ Release("pipe")
        /\ UNCHANGED mode
     \/ /\ ~restartPending /\ ~held
        /\ state' = "Starting"
        /\ mode' = op.mode
        /\ at' = "startWiden"
        /\ UNCHANGED <<pc, owner, op, restartPending>>
  /\ PublishStatusLocked(state', netConfig)
  /\ UNCHANGED <<unwind, final, hadRoutes, outcome, machine, session, held,
                 bumped, watch, fsKillSwitch, history, killSwitch, stopAfter>>

\* A policy still in force is widened to Connecting so the sdk can resolve; a
\* failure is logged and the attempt goes on.
StartWiden ==
  /\ at = "startWiden"
  /\ \/ mode = "tunnel" /\ wfp # "Off" /\ ApplyWfpLocked("Connecting")
     \/ mode = "tunnel" /\ wfp # "Off" /\ ApplyWfpFails
     \/ (mode = "rpcOnly" \/ wfp = "Off") /\ UNCHANGED <<wfp, timer, stray>>
  /\ at' = "startSteps"
  /\ UNCHANGED <<pc, owner, unwind, final, hadRoutes, outcome, op, netConfig, routes,
                 crashArmed, marker, devices, fences, intent, escaped, facts>>

\* Steps 1-5: adapter, egress, network space, device, rpc listener. They
\* complete, throw with some of the objects built, or stop at --stop-after.
StartSteps ==
  /\ at = "startSteps"
  /\ \/ /\ stopAfter \notin 1..5
        /\ session' = TRUE
        /\ at' = "startFence"
        /\ UNCHANGED <<unwind, final, state>>
     \/ /\ session' \in BOOLEAN
        /\ state' = "Error"
        /\ StopLocked("startFailed", FALSE)
     \/ /\ stopAfter \in 1..5
        /\ session' = ~(mode = "rpcOnly" /\ stopAfter = 1)
        /\ StopLocked("startAborted", TRUE)
        /\ UNCHANGED state
  /\ PublishStatusLocked(state', netConfig)
  /\ UNCHANGED <<pc, owner, hadRoutes, outcome, op, machine, held, restartPending,
                 fences, history, mode, killSwitch, stopAfter>>

\* The fence: a cancelled readiness ends the start in a final stop, an rpc-only
\* session stops short of the machine, a tunnel waits for its capture proof.
StartFence ==
  /\ at = "startFence"
  /\ \/ /\ cancelled
        /\ StopLocked("startAborted", TRUE)
        /\ UNCHANGED <<state, mirror>>
     \/ /\ ~cancelled
        /\ state' = IF mode = "rpcOnly" THEN "RpcOnly" ELSE "Preparing"
        /\ at' = "startWatch"
        /\ PublishStatusLocked(state', netConfig)
        /\ UNCHANGED <<unwind, final>>
  /\ UNCHANGED <<pc, owner, hadRoutes, outcome, op, machine, devices, fences,
                 history, mode, killSwitch, stopAfter>>

\* TunnelWatchdog::Start, with the capture callback only for a tunnel.
StartWatch ==
  /\ at = "startWatch"
  /\ watch' = IF mode = "rpcOnly" THEN "rpc" ELSE "capture"
  /\ Release("pipe")
  /\ UNCHANGED <<unwind, final, hadRoutes, outcome, machine, devices, bumped,
                 cancelled, fsKillSwitch, history, facts>>

\* A start that failed reports Error over the unwind's Stopped; an aborted one
\* keeps Stopped.
StartEnded ==
  /\ at \in {"startFailed", "startAborted"} /\ unwind = "no"
  /\ state' = IF at = "startFailed" THEN "Error" ELSE state
  /\ PublishStatusLocked(state', netConfig)
  /\ Release("pipe")
  /\ UNCHANGED <<unwind, final, hadRoutes, outcome, machine, devices, fences,
                 history, mode, killSwitch, stopAfter>>

\* SetKillSwitch, whole: off over an idle policy lifts it now, on over a live
\* tunnel with no policy retries the install now.
SetKillSwitch ==
  /\ pc["pipe"] = "lockWait" /\ op.kind = "killSwitch"
  /\ owner = "free"
  /\ killSwitch' = op.on
  /\ LET lifts == killSwitch /\ ~op.on /\ state # "Up" /\ wfp \in {"Armed", "Connecting"}
         installs == ~killSwitch /\ op.on /\ state = "Up" /\ wfp = "Off"
     IN  \/ lifts /\ ApplyWfpLocked("Off") /\ PublishStatusLocked(state, netConfig)
         \/ installs /\ ApplyWfpLocked("Connected") /\ PublishStatusLocked(state, netConfig)
         \/ installs /\ ApplyWfpFails /\ PublishStatusLocked(state, netConfig)
         \/ ~lifts /\ ~installs /\ UNCHANGED <<wfp, timer, stray, mirror>>
  /\ Done("pipe")
  /\ UNCHANGED <<owner, at, unwind, final, hadRoutes, outcome, netConfig, routes,
                 crashArmed, marker, devices, fences, intent, escaped,
                 state, mode, stopAfter>>

-----------------------------------------------------------------------------
(* The capture transaction: ActivateCapture and ApplyCapture, on the        *)
(* evaluator thread of a preparing session. CaptureReadiness decides whether *)
(* a ticket is still current; here a ticket may stop being current at any   *)
(* check, and is never current once cancelled.                              *)

\* The evaluator holds a ticket and calls ActivateCapture; it decides nothing
\* else afterwards.
ActReady ==
  /\ watch = "capture" /\ ~cancelled /\ pc["act"] = "idle"
  /\ watch' = "none"
  /\ Goto("act", "waiting")
  /\ UNCHANGED <<owner, at, unwind, final, hadRoutes, outcome, op, machine, devices,
                 bumped, cancelled, fsKillSwitch, history, facts>>

\* The acquisition loop gives up once its readiness is cancelled ...
ActLeave ==
  /\ owner # "act"
  /\ pc["act"] = "stale" \/ (pc["act"] = "waiting" /\ cancelled)
  /\ Goto("act", "idle")
  /\ UNCHANGED <<owner, at, unwind, final, hadRoutes, outcome, op, machine, devices,
                 fences, history, facts>>

\* ... but a cancellation can land just after the last look at it.
ActAcquire ==
  /\ pc["act"] \in {"waiting", "stale"}
  /\ owner = "free" /\ owner' = "act"
  /\ at' = "actCheck"
  /\ UNCHANGED <<pc, unwind, final, hadRoutes, outcome, op, machine, devices, fences,
                 history, facts>>

\* Mutant: the present readiness is asked whether it is cancelled, not the ticket's.
ActCheck_AnyReadiness ==
  /\ at = "actCheck"
  /\ \/ /\ cancelled \/ state # "Preparing"
        /\ Release("act")
     \/ /\ ~cancelled /\ state = "Preparing"
        /\ at' \in {"prepare", "rewatch"}
        /\ Goto("act", "busy")
        /\ UNCHANGED <<owner, op>>
  /\ UNCHANGED <<unwind, final, hadRoutes, outcome, machine, devices, fences,
                 history, facts>>

\* Cancelled, replaced or no longer preparing: nothing happens. A ticket that is
\* not current when the transaction opens only waits for the next one.
ActCheck ==
  /\ at = "actCheck"
  /\ \/ /\ pc["act"] = "stale" \/ cancelled \/ state # "Preparing"
        /\ Release("act")
     \/ /\ pc["act"] # "stale" /\ ~cancelled /\ state = "Preparing"
        /\ at' \in {"prepare", "rewatch"}
        /\ Goto("act", "busy")
        /\ UNCHANGED <<owner, op>>
  /\ UNCHANGED <<unwind, final, hadRoutes, outcome, machine, devices, fences,
                 history, facts>>

\* ApplyCapture's rollback: RevertMachineStateLocked(false, netConfig_ != null).
Rollback(why, owned) ==
  /\ outcome' = why
  /\ at' = "rollback" /\ unwind' = "routes" /\ final' = FALSE
  /\ hadRoutes' = owned

Proceed(step) == at' = step /\ UNCHANGED <<unwind, final, hadRoutes, outcome>>

\* Prepare: settings from the sdk, split tunnel, packet pump.
CapturePrepare ==
  /\ at = "prepare"
  /\ Proceed("firewall") \/ Rollback("failed", netConfig)
  /\ UNCHANGED <<pc, owner, op, machine, devices, fences, history, facts>>

\* The currency check before each of the later stages.
CaptureCheck(from, to) ==
  /\ at = from /\ unwind = "no"
  /\ \/ ~cancelled /\ Proceed(to)
     \/ Rollback("waiting", netConfig)
  /\ UNCHANGED <<pc, owner, op, machine, devices, fences, history, facts>>

\* Firewall: Connecting, required only under the kill switch; with no physical
\* default route the stage throws before it.
CaptureFirewall ==
  /\ at = "connecting"
  /\ \/ ApplyWfpLocked("Connecting") /\ Proceed("network") /\ PublishStatusLocked(state, netConfig)
     \/ ApplyWfpFails /\ ~killSwitch /\ Proceed("network") /\ PublishStatusLocked(state, netConfig)
     \/ ApplyWfpFails /\ killSwitch /\ Rollback("failed", netConfig)
          /\ PublishStatusLocked(state, netConfig)
     \/ Rollback("failed", netConfig) /\ UNCHANGED <<wfp, timer, stray, mirror>>
  /\ UNCHANGED <<pc, owner, op, netConfig, routes, crashArmed, marker, devices, fences,
                 intent, escaped, state, mode, killSwitch, stopAfter>>

\* Mutant: the marker is not written before the routes.
CaptureOwn_NoMarker ==
  /\ at = "network"
  /\ \/ ~cancelled /\ netConfig' = TRUE /\ Proceed("arm")
     \/ Rollback("waiting", netConfig) /\ UNCHANGED netConfig
  /\ UNCHANGED <<pc, owner, op, wfp, timer, routes, crashArmed, marker, devices, fences,
                 history, facts>>

\* Network, first: the owner exists and the marker is written before any route.
CaptureOwn ==
  /\ at = "network"
  /\ \/ /\ ~cancelled
        /\ netConfig' = TRUE /\ marker' = TRUE
        /\ Proceed("arm")
     \/ Rollback("waiting", netConfig) /\ UNCHANGED <<netConfig, marker>>
  /\ UNCHANGED <<pc, owner, op, wfp, timer, routes, crashArmed, devices, fences,
                 history, facts>>

\* NetworkConfig::Apply arms the crash revert and then adds routes one by one;
\* it fails before the first route, or on one and reverts what it added.
ArmCrashRevert ==
  /\ at = "arm"
  /\ \/ crashArmed' = TRUE /\ Proceed("routes")
     \/ crashArmed' \in BOOLEAN /\ Rollback("failed", netConfig)
  /\ UNCHANGED <<pc, owner, op, wfp, timer, netConfig, routes, marker, devices, fences,
                 history, facts>>

AddTunRoute ==
  /\ at = "routes"
  /\ \/ routes' = TRUE /\ (Proceed("routes") \/ Proceed("dns")) /\ UNCHANGED crashArmed
     \/ routes' = FALSE /\ crashArmed' = FALSE /\ Rollback("failed", netConfig)
  /\ UNCHANGED <<pc, owner, op, wfp, timer, netConfig, marker, devices, fences,
                 history, facts>>

\* Mutant: the applied configuration is not published.
CaptureDns_NoPublish ==
  /\ at = "dns"
  /\ Proceed("connected") \/ Rollback("failed", netConfig)
  /\ UNCHANGED <<pc, owner, op, machine, devices, fences, history, facts>>

\* The tail of Apply sets DNS; the stage throws when DNS could not be set.
CaptureDns ==
  /\ at = "dns"
  /\ Proceed("connected") \/ Rollback("failed", netConfig)
  /\ PublishStatusLocked(state, netConfig)
  /\ UNCHANGED <<pc, owner, op, machine, devices, fences, history, state, mode, killSwitch, stopAfter>>

\* Mutant: a staged stop unwinds as a failed start does.
SecureDone_NotFinal ==
  \/ stopAfter = 0 /\ Proceed("commit")
  \/ stopAfter # 0 /\ StopLocked("actHalted", FALSE) /\ UNCHANGED <<hadRoutes, outcome>>

\* Past the Connected policy: --stop-after 6..8 unwinds the whole session.
SecureDone ==
  \/ stopAfter = 0 /\ Proceed("commit")
  \/ stopAfter # 0 /\ StopLocked("actHalted", TRUE) /\ UNCHANGED <<hadRoutes, outcome>>

\* Connected: a policy in force must become Connected; none in force is left so.
CaptureSecure ==
  /\ at = "secure"
  /\ \/ /\ wfp = "Off"
        /\ UNCHANGED <<wfp, timer, stray, mirror>>
        /\ SecureDone
     \/ /\ wfp # "Off"
        /\ ApplyWfpLocked("Connected")
        /\ PublishStatusLocked(state, netConfig)
        /\ SecureDone
     \/ /\ wfp # "Off"
        /\ ApplyWfpFails
        /\ PublishStatusLocked(state, netConfig)
        /\ Rollback("failed", netConfig)
  /\ UNCHANGED <<pc, owner, op, netConfig, routes, crashArmed, marker, devices, fences,
                 intent, escaped, state, mode, killSwitch, stopAfter>>

\* A --stop-after that already unwound the session still rolls back.
CaptureHalted ==
  /\ at = "actHalted" /\ unwind = "no"
  /\ Rollback("halted", netConfig)
  /\ UNCHANGED <<pc, owner, op, machine, devices, fences, history, facts>>

\* The rollback's tail: a retry that is still wanted, under a kill switch with a
\* policy in force, needs its DNS window back.
CaptureRewiden ==
  /\ at = "rollback" /\ unwind = "no"
  /\ LET widens == ~cancelled /\ killSwitch /\ wfp # "Off"
     IN  \/ widens /\ ApplyWfpLocked("Connecting") /\ PublishStatusLocked(state, netConfig)
         \/ widens /\ ApplyWfpFails /\ PublishStatusLocked(state, netConfig)
         \/ ~widens /\ UNCHANGED <<wfp, timer, stray, mirror>>
  /\ at' = "rolledBack"
  /\ UNCHANGED <<pc, owner, unwind, final, hadRoutes, outcome, op, netConfig, routes,
                 crashArmed, marker, devices, fences, intent, escaped,
                 state, mode, killSwitch, stopAfter>>

\* ActivateCapture after ApplyCapture: a failure stops the session, a cancelled
\* or halted one is left to whoever cancelled it, a superseded one waits again.
CaptureRolledBack ==
  /\ at = "rolledBack"
  /\ \/ /\ outcome = "failed"
        /\ StopLocked("actFailed", FALSE)
        /\ UNCHANGED <<pc, owner, op>>
     \/ /\ outcome = "halted" \/ (outcome = "waiting" /\ cancelled)
        /\ Release("act")
        /\ UNCHANGED <<unwind, final>>
     \/ /\ outcome = "waiting" /\ ~cancelled
        /\ at' = "rewatch"
        /\ UNCHANGED <<pc, owner, op, unwind, final>>
  /\ outcome' = "none"
  /\ UNCHANGED <<hadRoutes, machine, devices, fences, history, facts>>

\* Committed: Up, unless a stop cancelled it since; that stop has the lock next.
CaptureCommitted ==
  /\ at = "committed"
  /\ \/ /\ cancelled
        /\ Release("act")
        /\ UNCHANGED <<state, mirror>>
     \/ /\ ~cancelled
        /\ state' = "Up"
        /\ PublishStatusLocked(state', netConfig)
        /\ at' = "upWatch"
        /\ UNCHANGED <<pc, owner, op>>
  /\ UNCHANGED <<unwind, final, hadRoutes, outcome, machine, devices, fences,
                 history, mode, killSwitch, stopAfter>>

\* A new watch: over the live tunnel, or again for a capture ticket.
CaptureWatch ==
  /\ at \in {"upWatch", "rewatch"}
  /\ watch' = IF at = "upWatch" THEN "up" ELSE "capture"
  /\ Release("act")
  /\ UNCHANGED <<unwind, final, hadRoutes, outcome, machine, devices, bumped,
                 cancelled, fsKillSwitch, history, facts>>

CaptureFailed ==
  /\ at = "actFailed" /\ unwind = "no"
  /\ state' = "Error"
  /\ PublishStatusLocked(state', netConfig)
  /\ Release("act")
  /\ UNCHANGED <<unwind, final, hadRoutes, outcome, machine, devices, fences,
                 history, mode, killSwitch, stopAfter>>

-----------------------------------------------------------------------------
(* Stops: Disconnect and Logout on the pipe, Stop on the main thread, and    *)
(* the dead-tunnel failsafe on its evaluator.                                *)

\* Mutant: the stop asks for the lock without cancelling the capture first.
ReceiveStop_NoCancel(r) ==
  /\ PipeReady
  /\ r.kind \in {"disconnect", "logout"}
  /\ op' = r
  /\ bumped' = TRUE
  /\ intent' = "off"
  /\ Goto("pipe", "stopWait")
  /\ UNCHANGED <<owner, at, unwind, final, hadRoutes, outcome, machine, devices, watch,
                 cancelled, fsKillSwitch, escaped, stray, facts>>

\* Every stop moves the generation and cancels the capture before it asks for
\* the lock.
ReceiveStop(r) ==
  /\ PipeReady
  /\ r.kind \in {"disconnect", "logout"}
  /\ op' = r
  /\ bumped' = TRUE /\ cancelled' = TRUE
  /\ intent' = "off"
  /\ Goto("pipe", "stopWait")
  /\ UNCHANGED <<owner, at, unwind, final, hadRoutes, outcome, machine, devices, watch,
                 fsKillSwitch, escaped, stray, facts>>

\* ControlServer::Stop takes no more requests and joins the pipe thread ...
ServiceStop ==
  /\ pc["main"] = "running"
  /\ Goto("main", "joining")
  /\ UNCHANGED <<owner, at, unwind, final, hadRoutes, outcome, op, machine, devices,
                 fences, history, facts>>

\* ... and only then stops the tunnel.
ServiceStopTunnel ==
  /\ pc["main"] = "joining" /\ pc["pipe"] = "idle"
  /\ bumped' = TRUE /\ cancelled' = TRUE
  /\ intent' = "off"
  /\ Goto("main", "stopWait")
  /\ UNCHANGED <<owner, at, unwind, final, hadRoutes, outcome, op, machine, devices,
                 watch, fsKillSwitch, escaped, stray, facts>>

\* The evaluator of a live tunnel reaches a verdict and copies the handler.
FailsafeFire ==
  /\ watch = "up" /\ state = "Up" /\ pc["fs"] = "idle"
  /\ watch' = "none"
  /\ Goto("fs", "fired")
  /\ UNCHANGED <<owner, at, unwind, final, hadRoutes, outcome, op, machine, devices,
                 bumped, cancelled, fsKillSwitch, intent, escaped, stray, facts>>

FailsafeBump ==
  /\ pc["fs"] = "fired"
  /\ bumped' = TRUE
  /\ Goto("fs", "bumped")
  /\ UNCHANGED <<owner, at, unwind, final, hadRoutes, outcome, op, machine, devices,
                 cancelled, watch, fsKillSwitch, history, facts>>

FailsafeCancel ==
  /\ pc["fs"] = "bumped"
  /\ cancelled' = TRUE
  /\ fsKillSwitch' = killSwitch
  /\ Goto("fs", "stopWait")
  /\ UNCHANGED <<owner, at, unwind, final, hadRoutes, outcome, op, machine, devices,
                 bumped, watch, history, facts>>

\* The lock within the budget: StopLocked, final for the user and, for the
\* failsafe, by the kill switch it read (FailsafeFinalDisarm).
StopEnter(t) ==
  /\ pc[t] = "stopWait"
  /\ owner = "free" /\ owner' = t
  /\ StopLocked("stop", IF t = "fs" THEN ~fsKillSwitch ELSE TRUE)
  /\ Goto(t, "busy")
  /\ UNCHANGED <<hadRoutes, outcome, op, machine, devices, fences, history, facts>>

StopReturn ==
  /\ at = "stop" /\ unwind = "no"
  /\ Release(owner)
  /\ UNCHANGED <<unwind, final, hadRoutes, outcome, machine, devices, fences,
                 history, facts>>

\* The lock not within the budget: a logout gives up, the others escape.
LogoutTimeout ==
  /\ pc["pipe"] = "stopWait" /\ op.kind = "logout"
  /\ HolderBlocked
  /\ Done("pipe")
  /\ UNCHANGED <<owner, at, unwind, final, hadRoutes, outcome, machine, devices,
                 fences, history, facts>>

\* Mutant: the escape leaves the routes to process death.
EscapeRoutes_NoCrashRevert(t) ==
  /\ pc[t] = "stopWait" /\ (t = "pipe" => op.kind = "disconnect")
  /\ HolderBlocked
  /\ marker' = FALSE
  /\ escaped' = TRUE
  /\ watch' = IF t = "fs" THEN "none" ELSE watch
  /\ Goto(t, "escape")
  /\ UNCHANGED <<owner, at, unwind, final, hadRoutes, outcome, op, wfp, timer, netConfig,
                 routes, crashArmed, devices, bumped, cancelled, fsKillSwitch, intent,
                 stray, facts>>

\* The escape, first half: CrashRevert (one shot: it disarms itself) and the
\* marker. The failsafe silences the watchdog too.
EscapeRoutes(t) ==
  /\ pc[t] = "stopWait" /\ (t = "pipe" => op.kind = "disconnect")
  /\ HolderBlocked
  /\ routes' = (routes /\ ~crashArmed)
  /\ crashArmed' = FALSE
  /\ marker' = FALSE
  /\ escaped' = TRUE
  /\ watch' = IF t = "fs" THEN "none" ELSE watch
  /\ Goto(t, "escape")
  /\ UNCHANGED <<owner, at, unwind, final, hadRoutes, outcome, op, wfp, timer, netConfig,
                 devices, bumped, cancelled, fsKillSwitch, intent, stray, facts>>

\* Second half: DropFirewallOnEscape, then the mirror is patched.
EscapeFirewall(t) ==
  /\ pc[t] = "escape"
  /\ wfp' = IF killSwitch THEN wfp ELSE "Off"
  /\ stray' = (stray \/ (wfp' # wfp /\ timer # "idle"))
  /\ escaped' = TRUE
  /\ mirror' = [state |-> mirror.state, routes |-> FALSE]
  /\ Done(t)
  /\ UNCHANGED <<owner, at, unwind, final, hadRoutes, outcome, timer, netConfig,
                 routes, crashArmed, marker, devices, fences, intent,
                 state, mode, killSwitch, stopAfter>>

-----------------------------------------------------------------------------
(* The connecting watchdog, which takes no lock of the controller.           *)

\* Mutant: the wait has no time limit.
TimerFires_OnlyCancelled == FALSE /\ UNCHANGED vars

TimerFires ==
  /\ timer = "armed"
  /\ timer' = "fired"
  /\ UNCHANGED <<control, wfp, netConfig, routes, crashArmed, marker, devices, fences,
                 history, facts>>

\* It narrows to Armed whatever is in force, or fails and leaves it.
TimerNarrows ==
  /\ timer = "fired"
  /\ timer' = "idle"
  /\ wfp' = "Armed" \/ (WfpMayFail /\ wfp' = wfp)
  /\ UNCHANGED <<control, netConfig, routes, crashArmed, marker, devices, fences,
                 history, facts>>

-----------------------------------------------------------------------------
(* The process. It ends after a service stop, after a self restart's grace,  *)
(* or by crashing; the adapter and its routes, the policy's dynamic session  *)
(* and every thread die with it, the marker does not. The next start reads   *)
(* and clears the marker.                                                    *)

ProcessEnds ==
  /\ pc["main"] # "dead"
  /\ pc["main"] = "stopped" \/ restartPending \/ MayCrash
  /\ pc' = [t \in Threads |-> IF t = "main" THEN "dead" ELSE "idle"]
  /\ owner' = "free" /\ at' = "none" /\ unwind' = "no"
  /\ final' = FALSE /\ hadRoutes' = FALSE /\ outcome' = "none"
  /\ op' = NoRequest
  /\ state' = "Stopped" /\ mode' = "tunnel" /\ session' = FALSE
  /\ killSwitch' = FALSE /\ wfp' = "Off" /\ timer' = "idle"
  /\ netConfig' = FALSE /\ routes' = FALSE /\ crashArmed' = FALSE
  /\ bumped' = FALSE /\ cancelled' = TRUE /\ watch' = "none"
  /\ held' = FALSE /\ restartPending' = FALSE /\ fsKillSwitch' = FALSE
  /\ mirror' = [state |-> "Stopped", routes |-> FALSE]
  /\ intent' = "off" /\ escaped' = FALSE /\ stray' = FALSE
  /\ UNCHANGED <<marker, stopAfter>>

ReportAndClearPriorState ==
  /\ pc["main"] = "dead"
  /\ Goto("main", "running")
  /\ marker' = FALSE
  /\ UNCHANGED <<owner, at, unwind, final, hadRoutes, outcome, op, wfp, timer, netConfig,
                 routes, crashArmed, devices, fences, history, facts>>

-----------------------------------------------------------------------------
UnwindStep == UnwindCancel \/ UnwindRoutes \/ UnwindFirewall \/ UnwindTeardown

StartStep ==
  \/ StartEnter \/ StartReadiness \/ StartAdmit \/ StartWiden \/ StartSteps
  \/ StartFence \/ StartWatch \/ StartEnded

CaptureStep ==
  \/ ActReady \/ ActLeave \/ ActAcquire \/ ActCheck
  \/ CapturePrepare
  \/ CaptureCheck("firewall", "connecting") \/ CaptureFirewall
  \/ CaptureOwn \/ ArmCrashRevert \/ AddTunRoute \/ CaptureDns
  \/ CaptureCheck("connected", "secure") \/ CaptureSecure
  \/ CaptureCheck("commit", "committed") \/ CaptureCommitted
  \/ CaptureHalted \/ CaptureRewiden \/ CaptureRolledBack \/ CaptureWatch \/ CaptureFailed

StopStep ==
  \/ ServiceStop \/ ServiceStopTunnel
  \/ FailsafeFire \/ FailsafeBump \/ FailsafeCancel
  \/ \E t \in {"pipe", "main", "fs"} :
       StopEnter(t) \/ EscapeRoutes(t) \/ EscapeFirewall(t)
  \/ StopReturn \/ LogoutTimeout

Next ==
  \/ \E r \in Requests : ReceiveBlocking(r) \/ ReceiveStop(r)
  \/ SetKillSwitch
  \/ UnwindStep \/ StartStep \/ CaptureStep \/ StopStep
  \/ TeardownWorkerFinishes \/ TimerFires \/ TimerNarrows
  \/ ProcessEnds \/ ReportAndClearPriorState

Spec == Init /\ [][Next]_vars

\* What the code's threads are relied on to do. Control and lock steps that call
\* nothing outside the process run on; the unwind is bounded by design
\* (StopBudget.h); a timed acquisition returns within its budget, with the lock
\* or without it (strong fairness: the two outcomes alternate as the lock moves),
\* and a blocking one is not passed over for ever while the lock comes free;
\* the connecting watchdog's timer expires. Nothing is assumed of a lock holder
\* inside the sdk or the OS: BlockingSteps may last for ever.
Fairness ==
  /\ WF_vars(UnwindStep) /\ WF_vars(StopReturn)
  /\ \A t \in {"pipe", "main", "fs"} :
       /\ SF_vars(StopEnter(t) \/ EscapeRoutes(t) \/ (t = "pipe" /\ LogoutTimeout))
       /\ WF_vars(EscapeFirewall(t))
  /\ WF_vars(FailsafeBump) /\ WF_vars(FailsafeCancel)
  /\ WF_vars(StartReadiness \/ StartAdmit \/ StartFence \/ StartEnded)
  /\ WF_vars(ActCheck \/ CaptureOwn \/ CaptureHalted \/ CaptureRolledBack
               \/ CaptureCommitted \/ CaptureFailed)
  /\ WF_vars(\/ CaptureCheck("firewall", "connecting")
             \/ CaptureCheck("connected", "secure")
             \/ CaptureCheck("commit", "committed"))
  /\ SF_vars(StartEnter) /\ SF_vars(SetKillSwitch)
  /\ WF_vars(ServiceStopTunnel)
  /\ WF_vars(TimerFires) /\ WF_vars(TimerNarrows)

FairSpec == Spec /\ Fairness

-----------------------------------------------------------------------------
(* Properties.                                                             *)

\* Every variable keeps the values its code counterpart can hold.
TypeOK ==
  /\ pc \in [Threads -> Places]
  /\ owner \in Threads \cup {"free"}
  /\ at \in AtSteps /\ unwind \in UnwindSteps
  /\ final \in BOOLEAN /\ hadRoutes \in BOOLEAN
  /\ outcome \in {"none", "waiting", "failed", "halted"}
  /\ op \in Request /\ stopAfter \in 0..8
  /\ state \in States /\ mode \in Modes /\ session \in BOOLEAN
  /\ killSwitch \in BOOLEAN /\ wfp \in WfpStates /\ timer \in {"idle", "armed", "fired"}
  /\ netConfig \in BOOLEAN /\ routes \in BOOLEAN /\ crashArmed \in BOOLEAN
  /\ marker \in BOOLEAN /\ bumped \in BOOLEAN /\ cancelled \in BOOLEAN
  /\ watch \in {"none", "rpc", "capture", "up"}
  /\ held \in BOOLEAN /\ restartPending \in BOOLEAN /\ fsKillSwitch \in BOOLEAN
  /\ mirror \in [state : States, routes : BOOLEAN]
  /\ intent \in {"on", "off"} /\ escaped \in BOOLEAN /\ stray \in BOOLEAN

Ended == owner = "free" /\ state \in {"Stopped", "Error"} /\ pc["main"] # "dead"

\* A session that ended, whichever of the five endings it took and whatever
\* raced it, has given the machine back: no route, no route owner, no marker,
\* nothing for the crash path to do, and with the kill switch off no policy
\* (StopLocked's phase 1) unless an escape left a watchdog behind or the
\* narrowing of a Connected policy failed.
EndedMachineIsReleased ==
  Ended => /\ ~routes /\ ~netConfig /\ ~marker /\ ~crashArmed
           /\ ~killSwitch /\ ~stray => wfp = "Off" \/ (WfpMayFail /\ wfp = "Connected")

\* A capture is never committed after the user's stop: only a later start can
\* bring a tunnel Up again (stopGeneration_ and CaptureReadiness::Cancel).
NoCaptureAfterStop ==
  [][state # "Up" /\ state' = "Up" => intent = "on"]_vars

\* With the kill switch on, a policy in force is never lifted by a reconnect, a
\* failed start, a rollback or a failed activation; only by a user stop, a
\* --stop-after, a start a stop overtook, or a failsafe that read the switch off.
KillSwitchHolds ==
  [][killSwitch /\ killSwitch' /\ wfp # "Off" /\ wfp' = "Off" =>
       \/ intent = "off"
       \/ at \in {"startAborted", "actHalted"}
       \/ owner = "fs" /\ final]_vars

\* Capture routes never stand without the owner that reverts them, the marker
\* that reports them after a crash and the armed crash path, except behind an
\* escape that overtook their own transaction.
RoutesAreCovered ==
  routes => escaped \/ (netConfig /\ marker /\ crashArmed)

\* A live tunnel has its routes and is never left in a policy that blocks the
\* tunnel itself: nothing narrows Connected behind Up (the window closes at the
\* Connected stage, and ApplyWfpLocked joins its watchdog), unless a stalled
\* escape of an earlier session dropped the policy under this one.
UpCarriesTraffic ==
  state = "Up" => /\ session /\ netConfig
                  /\ routes \/ escaped
                  /\ stray \/ (wfp \in {"Connected", "Off"} /\ timer = "idle")

\* A Connecting policy always has a live watchdog that will narrow it, unless
\* that watchdog's own attempt failed: the DNS window is never left unattended.
WindowIsAttended ==
  wfp = "Connecting" /\ ~WfpMayFail => timer # "idle"

\* The device of an abandoned teardown and a new session's device never exist
\* together, and a process committed to restarting itself builds no session.
OneSessionDevice ==
  /\ ~(session /\ held)
  /\ restartPending => ~session /\ ~routes

Admission == INSTANCE DeviceAdmission WITH restart <- restartPending

\* The admission DeviceAdmission describes, as the session core has it: over stops,
\* failed starts, crashes and restarts a session gets its device only with none
\* held and no restart under way (StartLocked's refusals).
SessionIsAdmitted == Admission!Spec

\* A staged bring-up (--stop-after) ends in the state HaltAfterStepLocked calls
\* clean: whatever the kill switch, no policy, route, marker or owner remains.
StagedStopIsClean ==
  stopAfter # 0 /\ owner = "free" /\ state = "Stopped" /\ pc["main"] # "dead"
    => wfp = "Off" /\ ~netConfig /\ ~routes /\ ~marker /\ ~session

\* The status the app reads without the lock shows a capture whenever one is in
\* place and nobody is changing it, unless an escape patched it away.
StatusShowsCapture ==
  owner = "free" /\ ~escaped => mirror = [state |-> state, routes |-> netConfig]

\* The ticket as ActivateCapture has it: from the call to the end of its
\* transaction, lapsed once a stop has replaced the readiness it was given by.
CapturingSteps ==
  {"prepare", "firewall", "connecting", "network", "arm", "routes", "dns", "connected",
   "secure", "commit"}

grant ==
  IF state = "Up" \/ at = "committed" THEN "captured"
  ELSE IF pc["act"] = "waiting" \/ at \in CapturingSteps THEN "ticket"
  ELSE IF pc["act"] = "stale" THEN "lapsed" ELSE "none"

Grant == INSTANCE CaptureGrant

\* The session side of CaptureGrant: whatever stops, failsafes, restarts and late
\* evaluators do to it, no capture is committed on a ticket of an earlier readiness
\* or after a cancel, and one that was committed ends only with a cancel
\* (ActivateCapture asks its own readiness and whether it is still the session's).
SessionSpendsGrants == Grant!Spec

\* A user stop or a failsafe that finds capture routes takes them away even if
\* the lock's holder never returns (the timed lock and CrashRevert).
StopTakesRoutes ==
  \A t \in {"pipe", "main", "fs"} : (pc[t] = "stopWait" /\ routes /\ ~escaped) ~> ~routes

\* A stop always answers the app, wedged holder or not.
StopAnswers == (pc["pipe"] = "stopWait") ~> (pc["pipe"] = "idle")

\* The machine-wide DNS permit of a connection attempt closes even if the
\* attempt is wedged (the connecting watchdog).
DnsWindowCloses == (wfp = "Connecting") ~> (wfp # "Connecting")

-----------------------------------------------------------------------------
(* A statement of the repository's own comments that the code does not keep. *)

\* TunnelController.h on FailsafeStop: with the kill switch on the policy narrows
\* to Armed and the machine stays blocked; only the user lifts it.
FailsafeKeepsBlock ==
  [][killSwitch /\ killSwitch' /\ wfp # "Off" /\ wfp' = "Off" => intent = "off"]_vars
=============================================================================
