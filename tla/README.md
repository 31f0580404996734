# TLA+ models of URnetwork for Windows

This directory specifies and verifies the control logic of URnetwork for Windows: the
service `urnetworkd.exe` that takes over a machine's traffic (how a session is brought
up, captures the default route and ends, and which device it runs on), the control pipe,
and the side of the tray app `URnetwork.exe` that decides what is asked of the service
(its single instance, its account session, its updates). The modules are written from
`app/src/Service`, `app/src/App`, `app/src/Updater` and the headers of `app/src/Common`;
names follow the source. `PROJECT.json` maps every definition to the lines it models.

    tlc -workers 2 -config SessionSafety.cfg MCTunnelSession     # one run
    tlapm TunnelSession_proofs.tla                               # the proofs

## 1. The system

URnetwork on Windows is three programs. `URnetwork.exe` is the tray app; it holds a
remote handle on a device and sends requests over a named pipe. `urnetworkd.exe` runs
elevated, owns the device, the wintun adapter, the routes and the firewall policy, and
must give the machine back whatever happens to the app, to the sdk, or to itself.
`URnetworkUpdate.exe` runs elevated for the length of one update and installs it.

| Component (source) | State it keeps | Operations | What makes it correct |
|---|---|---|---|
| Session core: `TunnelController` | `state_`, `killSwitch_`, `netConfig_`, `device_`, stop generation, status mirror, all under the timed `mutex_` | start, activate capture, stop, failsafe stop, escapes, kill switch, logout, status | an ended session holds nothing; a stop is final; the kill switch's block survives everything but the user |
| Device slots: `TunnelController`, `StopBudget`, `LogUpload` | session, provider-only, handed-off and log-upload devices, teardown workers, the egress binding | start/stop provider, take over, hand back, resume, upload, retire | one identity, so one open device; a device in use is not released; a late worker harms nobody |
| Capture proof: `CaptureReadiness` | revision, generation, proof barrier, proven, active, cancelled; pending network revision | invalidate, network changed, begin/complete sample, ready, commit, cancel | traffic is captured only on proof of the current window and network |
| Watchdog: `TunnelWatchdog` | one channel per watch, a sampler thread (calls the sdk, may wedge), an evaluator thread (never blocks) | start, cancel, stop, note network event, verdict | no network change is lost; a wedged sdk never blocks a stop |
| `NetworkChangeNotify` | coalescing windows | observe, take due, plan sleep | a burst is one call, a stream of bursts is never starved |
| `DeadTunnelVerdict` | windows over sampled counters, balance hold | evaluate | no verdict on a sleeping machine or an account out of balance |
| `WfpPolicy` | the policy in force (Off, Armed, Connecting, Connected) and its filters | apply (one transaction), revert | an apply takes whole or not at all |
| `NetworkConfig` | route rows, DNS, the armed crash path | apply, revert, crash revert | routes never outlive their owner |
| `StopBudget` | abandoned workers, held devices, self restart | run bounded, sweep | a stop is bounded; a held device refuses a second one |
| `PipeServer`, `ControlServer` | one connection thread, one request at a time, `writeMutex_` | accept, serve, push, stop | every request is answered; a push ends |
| `PipeClient` | the handle, `connected_`, the reader thread, one reply slot | connect, close, call | a reply is the call's; a break is noticed |
| Single instance: `InstanceHandover`, `SingleInstance` | the key, the activation gate and its entries, the exiting signal | register, redirect, take, serve, close | a launch is acted on once, by one instance, or reported |
| Account session: `SdkHost`, `SignOut`, `ConnectAction`, `SignOutRun` | one request slot and its worker, credentials, the owed sign-out and its marker file, the watchdog | sign in, sign out, connect, disconnect, reconcile, settle, recover | nobody runs on another's identity; a sign-out is delivered and not undone |
| In-app update: `UpdateChecker`, `ApplyUpdate`, `UpdateMarker`, `UpdateResult` | the banner, the offer, Later, the clicks; the helper, its report, the marker | check, click, Later, dismiss, download, hand over, install, report, relaunch | a click starts what it was on; nothing starts under the installer; the app comes back and says how it went |
| Service host: `main.cpp` | run/stop events, the marker sweep | run, stop, restart | what a dead process left is reported and cleared |
| `EgressMonitor` | the bound interface and its change filter | start, stop, change callback | a change of egress is reported once |
| `CoalescedWorker`, `ExitDrain`, `BalanceGate`, `ReleaseSelection`, packet pump, wintun, split-tunnel driver, diagnostics, the WinUI pages | — | — | see sections 7 and 8 |

**Interactions.** The pipe thread calls the controller; the controller holds `mutex_`
through bring-up, capture and teardown and calls the sdk and Windows under it. The
watchdog's evaluator calls back into the controller (`ActivateCapture`,
`FailsafeStop`), which replaces or stops the watchdog it was called from. The
connecting watchdog narrows the firewall with no lock at all. System worker threads
deliver network events to the readiness object, which outlives the watches. The status
mirror is read without the lock. Teardowns run on workers that are given a budget and
then left behind, with the device they close. In the app, `SdkHost`'s one session worker,
a sign-out's tail and a registration meet at a mutex held across requests to the
service; the update worker meets the window at its snapshot; and a launch meets a running
instance, an exiting one, or an installer, through a key, a gate, a signal and a file.

**What is hard.** Any step under `mutex_` may wedge inside the sdk for ever, so every
stop has a lock-free way out that races the holder it gave up on. Four threads can end
a session another one is building. The process can die between any two of marker, armed
crash path, routes and policy. Firewall calls can fail. Watches replace one another
while events arrive and while their sampler is still inside the sdk. A worker past its
budget still holds a device under the one identity there is. Replies carry no number.
A request may be done with its answer lost, and either process may end between any two
steps of a sign-out or an update.

## 2. Modules

| Module | Models | Used by |
|---|---|---|
| `TunnelSession` | the session core with the policy, routes, crash path, marker, connecting watchdog, device ownership and the mirror | `MCTunnelSession`, `TunnelSession_proofs` |
| `CaptureReadiness` | generations, barriers, samples, tickets, commit; the sampler's four reads; the watches | `MCCaptureReadiness`, `CaptureReadiness_proofs` |
| `NetworkNotify` | pending network event, coalescer, sampler's notification, watch replacement | `MCNetworkNotify`, `NetworkNotify_proofs` |
| `CaptureGrant` | the abstract promise: a ticket is given and spent only before its readiness is cancelled, a lapsed one only dropped | `TunnelSession`, `CaptureReadiness` (refinements) |
| `DeviceAdmission` | the abstract promise: a session gets its device only with no teardown pending and no restart under way | `TunnelSession`, `SessionDevices` (refinements) |
| `DeviceCustody` | the abstract promise: at most one open device, none back from a teardown, none released unclosed | `SessionDevices` (refinement) |
| `SessionDevices` | the device slots, `RunBounded` and its workers, the log upload's flight and waiter, the egress binding | `MCSessionDevices`, `SessionDevices_proofs` |
| `ControlPipe` | `PipeClient` and `PipeServer` over one pipe that breaks and is opened again | `MCControlPipe`, `ControlPipe_proofs` |
| `InstanceHandover` | launches, the activation gate, and the start and exit of an instance | `MCInstanceHandover`, `InstanceHandover_proofs` |
| `AccountSession` | `SdkHost`'s slot, passes, sign-in, sign-out, the owed sign-out and the watchdog, over what the service runs | `MCAccountSession`, `AccountSession_proofs` |
| `Releases` | the release codes | `UpdateBanner`, `UpdateInstall` |
| `UpdateBanner` | `UpdateChecker` in one run of the app, up to the hand-off | `MCUpdateBanner`, `Updater_proofs` |
| `UpdateInstall` | the helper, its report, the marker and the relaunch, over many runs of the app and restarts of Windows | `MCUpdateInstall`, `Updater_proofs` |

**TunnelSession.** Threads are `pipe`, `main`, `act` (an evaluator in
`ActivateCapture`), `fs` (an evaluator in `FailsafeStop`) and the connecting watchdog
(`timer`). `owner` is the holder of `mutex_`; `at` says where it is in its operation
and `unwind` where it is in `StopLocked` or `RevertMachineStateLocked`; `pc` places the
threads that do not hold the lock. A step is the code between two points another thread
can observe or where the code calls something that can block: `StartAdmit`,
`StartWiden`, `StartSteps`, `StartFence`, `StartWatch` are `StartLocked`;
`CapturePrepare` .. `CaptureCommitted` are `ApplyCapture` over the four stages of
`BringUpTunnelLocked`, with `NetworkConfig::Apply` split into arming, each route and DNS
because the lock-free `CrashRevert` can land in between; `UnwindCancel`, `UnwindRoutes`,
`UnwindFirewall`, `UnwindTeardown` are the teardown; `EscapeRoutes` and
`EscapeFirewall` what a stop does when `try_lock_for` gives up; `TimerFires` and
`TimerNarrows` the connecting watchdog; `ProcessEnds` and `ReportAndClearPriorState` a
process's death and the next one's sweep. Whether a ticket is still current is left open
here (either outcome of a check), and settled in CaptureReadiness. `session` is the
device, adapter, pump and monitor of a session as one; a device that a disconnect keeps
to go on providing leaves this module there and is followed in SessionDevices.
`intent`, `escaped` and `stray` are history: they record what the user last asked and
what an escape did, and no action's guard reads them.

**CaptureReadiness.** `revision_` is compared only for equality with a copy taken
earlier, so instead of a counter the model keeps `holders`: who (the sample in
progress, the ticket in hand) still has the current value; every `++revision_` empties
it. This is exact for a counter that does not wrap. The clock is discrete; an sdk probe
happened at a tick, and its age is the truncating division the sdk does. `window` and
`probedAt` are the sdk's: a rebuild makes a new window with no proven exit. Window status
callbacks deliver any generation up to the current one, in any order, any number of
times. One exit per window stands for all of them: only whether some usable exit exists
is read.

**NetworkNotify.** `networkRevision_` is modelled the same way (`pending`, `current`).
A coalescing window is a level that opens at `Observe` and comes due later. Each watch
is a channel with its own sampler, so that one abandoned inside `networkChanged()` can
return after its replacement was started. CaptureReadiness and NetworkNotify are two
views of the same object, split because no operation of one half reads the other's
variables; the events they share (`NetworkChanged`, `Cancel`, watch start and stop) are
actions of both.

**SessionDevices.** A device object is in one place: a slot, a teardown, or nowhere.
The operation that holds `mutex_` walks through retire, take, sweep, build and resume;
a teardown worker clears, unbinds, closes, releases and finishes at any time, also after
`RunBounded` gave it up, and its `gate` says who counts it. `shell` is the worker of a
session's teardown while its device has been handed back. The log upload's call, its
flight and its waiter are threads of their own. The instance `Custody` maps each device
to none, open or closing and states `DeviceCustody!Spec` as the property
`OneIdentityCustody`. Which devices an operation may keep (`ProvideLifecycle.h`, the
provide mode, the firewall fact) is either outcome; refusals and changes applied to a
running device in place are stutters. TunnelSession's `session` flag is this module's
session slot. Of the egress, `bound` is what `setEgressInterfaceIndex` was last given and
`current` whether the running monitor's `current_` names an interface. `Update` is
`EgressMonitor::Update`: each reading finds a default route, none, or not even the
interface that was bound. A session goes on though its first reading found nothing, and
a monitor whose teardown has not stopped it yet reads on (`LateMonitorObserves`). The
ipv4 index stands for both. `exposed` is history: the last reading found nothing to bind.

**How the service's modules meet.** Two of the modules above leave a question open that
another one settles, and an abstract module states what the two agree on; each side is
shown to keep it. `CaptureGrant` stands between TunnelSession, where a ticket may stop
being current at any check, and CaptureReadiness, which says when it is current: a
ticket is taken and spent before its readiness is cancelled, one that outlives its
readiness has lapsed and can only be dropped, and what was captured ends only with a
cancel. `DeviceAdmission` stands between TunnelSession, whose `held` is the teardown of its
own session's device, and SessionDevices, where `TeardownPending` is any teardown's worker
but a log upload waiter's: a session opens with neither a teardown pending nor a restart
under way, none becomes pending beside it, and a restart asked for is taken back by
nothing but the end of the process. The restart is asked for where a start is refused;
since the waiter's worker can be what refuses it, the abstract `AskRestart` does not
require a teardown to be pending.

**ControlPipe.** A line is a number of requests sent, taken, answered or read; the
numbers say which request a reply answers, and no guard of the client reads them. The
reader, the caller, the dialer, the connection thread, a pushing thread and the service's
stop each have their place. A write blocks once `Buffer` lines wait, until the app reads
or its end closes. Either process may end. `Connect` is called as the app calls it, under
the host's mutex.

**InstanceHandover.** Every process is a launch and may come to hold the key. A launch's
rounds, its redirect and its wait for an exiting holder are its main thread's; the
handler of a redirected launch runs on a threadpool thread of the holder; `Open`,
`ServePosted` and the exit are its UI thread's. Every budget may expire at any moment,
whether an update installs is arbitrary here (it is UpdateInstall's), and the four
results that are reported the same way are one.

**AccountSession.** Three threads take `mutex_`: the session worker (a pass, from the
slot), a sign-out's tail, a registration. The click of a sign-out and the watchdog do
not. A request to the service is done and answered, done with the answer lost, or not
done; the service, the app and the channel may each end, `MaxFaults` times in all.
The marker may fail to be written, removed or read, and a logout may leave the identity's
files and answer success; each such failure but an unreadable marker, which only an app
that ended meets, is one of the faults. `history` names what the code leaves open: "lost"
(the app ended with a sign-out not delivered that nothing loaded at the next launch
records), "identityKept" (the service answered, and kept the identity), "kept" (forgetting
the credentials failed) and "missed" (the retry was asked of a watchdog already leaving);
a later delivery takes the first two back. The tunnel mode only, with the provide mode
always on; what the provider's mirror says is arbitrary; the three lock-free steps of
`Logout` are one.

**UpdateBanner.** The worker's jobs (check, apply, reveal) are sequences of steps; the
window clicks on `shown`, some earlier snapshot, and what the click asks for is a flag
the worker takes later. Whether an offer is stale is the clock's to say, so either;
an exception in a job is a step that fails. `feedGeneration_` is kept as `current`.
`clicked`, `overtaken` and `unwatched` are history.

**UpdateInstall.** The part that outlives the app: what is on disk, what Windows Installer
has registered, the report, whether it was read, the marker. The app's worker waits on a
helper and either takes its end or records it; the helper refuses, installs or fails,
reports, and relaunches after a failure; the installer relaunches after a success. The app
may exit, crash or be ended, Windows may restart, and a launch may come at any point. A
second helper is Busy at once. `history` names what the marker cannot cover.

## 3. Runs

| Run | Instance | Shows | Distinct states |
|---|---|---|---|
| `session_safety` | all seven requests, staged stops, firewall failures and crashes | the safety of TunnelSession | 1,181,509 |
| `session_live` | connect, disconnect, kill switch off | a stop takes the routes and answers, and the DNS window closes, although any holder may be wedged for ever | 87,645 |
| `failsafe_race` | as `session_safety`, one property | a violation, below | — |
| `capture_proof` | one callback thread, two windows, four clock ticks | captures commit only on current proof | 3.9 million |
| `network_told` | two callback threads, three watches | no network change is lost, stranded or starved | 420,911 |
| `devices` | two devices | custody of the one identity, with every worker late or never back | 793,004 |
| `handover` | three launches, one of them with a second round | a launch is acted on once, by one instance | 108,818 |
| `control_pipe` | three requests, a buffer of two lines | what the two ends still know of each other | 170,388 |
| `account` | two accounts, two faults, symmetric | nobody runs on another's identity; a sign-out is not undone | 8,063,670 |
| `account_live` | one account, one fault | an owed sign-out is delivered; a sign-out ends | 595,945 |
| `update_banner` | releases 1..3, build 1, installed | which release a click starts, and who holds the banner | 205,003 |
| `update_install` | releases 1..3, from 1 | nothing starts under the installer; the app comes back; its report is current | 584,210 |

Properties of `TunnelSession`:

* `EndedMachineIsReleased`: whichever ending a session took, no route, owner, marker or
  armed crash path remains, and with the kill switch off no policy. The two exceptions
  are named in the property: a watchdog an escape left running (`stray`) and a narrowing
  that failed.
* `NoCaptureAfterStop`: a capture is committed only if a start was the user's last word.
* `KillSwitchHolds`: with the switch on, only a user stop, a staged stop, a start that a
  stop overtook, or a failsafe that read the switch off lifts a policy.
* `RoutesAreCovered`: routes stand only with owner, marker and armed crash path.
* `UpCarriesTraffic`: a tunnel that is Up has its routes and nothing narrows its policy.
* `StatusShowsCapture`: the lock-free mirror agrees with the controller at rest.
* `SessionSpendsGrants`: the session's side of `CaptureGrant`, with every stop, failsafe,
  restart and late evaluator that can come between a ticket and its capture.
* `StopTakesRoutes`, `StopAnswers`, `DnsWindowCloses` (liveness; the run keeps the kill
  switch off, so the window that closes is the one the capture firewall alone opens).
* `StagedStopIsClean`: what `HaltAfterStepLocked` calls clean, under the kill switch too.

Of `CaptureReadiness`: `CommitsOnCurrentProof`. Of `NetworkNotify`: `NoEventStranded`
(an event the device has not heard of, or that is not marked handled, has a carrier to the
live watch, across every replacement), `EveryMoveIsTold` (liveness, under a stream of
changes).

Of `SessionDevices`: `OneIdentityCustody` (the refinement), `CallDeviceIsAlive` (a device
is not released under an upload's call), `DevicesAreAdmitted` (the refinement of
`DeviceAdmission`: a session has its device only while every other teardown is over, but
for the upload waiter's own, and never in a process that restarts),
`SessionStaysBound` (a session is bound to a physical interface unless its own monitor had
none to bind at its last reading: no late worker or monitor takes the binding, and a lost
default route does not while the interface exists), `LogDeviceIsRetired`
(liveness, with no sdk call assumed to return).

Of `InstanceHandover`: `OneInstanceActs`, `HandedOverWasNotRefused`,
`ActedOnOnceIfServed`; `LaunchEnds` (liveness).

Of `ControlPipe`: `LagIsGivenUp` (a reply is at most as old as calls were given up),
`LiveChannelIsRead`; `PushEnds`, `StopEndsOnceAppLeft` (liveness).

Of `AccountSession`: `RunsOnOwnIdentity` (but for "lost" and "identityKept"),
`SignedOutLeavesNothing` (but for "lost"; "identityKept" excuses the identity alone),
`SignedOutForgets` (no registration that began before a sign-out brings its credentials
back), `SlotHasWorker`; `OwedIsDelivered` (but for "missed") and `SignOutEnds` (liveness).

Of `UpdateBanner`: `LaterStaysHidden`, `BannerHoldsClick`, `ClaimIsOnClicked` (an action
property, but for a banner that moved after the click), `ClickIsAnswered` (liveness). Of
`UpdateInstall`: `NoStartUnderHelper` (but for the cases `history` names),
`ReportIsCurrent` (a report replaced on disk while the banner still shows it is not
judged); `AppComesBack` (liveness; a relaunch that gave its wait up is excused, and the
order of report and relaunch is not in it).

The violation run states what the repository says and the code does not keep:
`failsafe_race`, "a failsafe under the kill switch keeps the block"
(`TunnelController.h:125`). A failsafe moves the stop generation after a start loaded it;
the start aborts with a final disarm and lifts the policy.

**Bounds.** TunnelSession needs none beyond the request set: its state is finite, runs
are unbounded sequences of requests, and the request sets differ only to keep a liveness
run small. `stopAfter` takes every value the code knows, 0 (no halt) to 8. CaptureReadiness is bounded by
`MaxGeneration = 2` (a window and its replacement), `MaxClock = 3`,
`Second = Resolution = 2` (an age truncates from 1 to 0, the case that matters) and
`Freshness = 2` (tickets expire inside the run). NetworkNotify needs `Watches = 3`: a
live watch, its replacement, and a sampler abandoned two replacements ago. Two devices
are the one being torn down and the next. Three launches are a holder, the one that
replaces it and one that meets both; only one has a second round, and two launches at one
gate at once are covered by the proofs, not by TLC. `MaxSent = 3` is a call given up, the
one that takes its reply and one behind; `Buffer = 2` lets a push and a reply wait while a
third write blocks. Two accounts and two faults let one account meet what a service that
could not be told, and an app that ended, left of the other. Three releases are the build,
the one clicked and the one that overtakes it. The proofs remove these bounds for
every safety property. Where a cap makes a model stop, or
every process has ended, the cfg says `CHECK_DEADLOCK FALSE`.

**Fairness.** `FairSpec` of TunnelSession assumes that code which calls nothing outside
the process goes on (weak fairness of control steps), that the unwind is bounded (the
design of `StopBudget.h`), that a timed acquisition returns with or without the lock and
a blocking one is not passed over for ever (strong fairness), and that the connecting
watchdog's timer expires. It assumes nothing of a holder in `BlockingSteps`: a call into
the sdk or Windows may never return. NetworkNotify assumes that callbacks run on, that sdk
calls return (one that does not is the dead-tunnel verdict's business), and strong
fairness of `SamplerTakes`: each round of the sampler looks at the window first, but may
be in a sample when the window closes. SessionDevices assumes the lock holder and the
waiter run and their bounded waits end, and nothing of any sdk call. ControlPipe assumes
each end's thread runs and that a thread waiting for `writeMutex_` is not passed over for
ever; nothing of callers or failures. Both its liveness properties assume that the handlers
return, and `PushEnds` that the app's reader, while the app runs, reads on: a client that
stays connected and never reads is not caught. InstanceHandover assumes a launch's thread, whose
waits are all bounded, the handlers, and a UI thread that opens, serves its queue and ends
what it began to close; nobody need launch or quit. AccountSession assumes its threads run,
that `mutex_` is not withheld from one for ever, and that the SCM starts a service that
ended (its recovery actions); faults are finite. UpdateBanner assumes a job's requests,
downloads and waits end (each has a timeout), that the worker takes what was asked, and
that the UI thread runs what is queued. UpdateInstall assumes the worker's thread, an
exiting app, the helper with its msiexec and the relaunch all run; nobody need launch.

The type invariants, the invariants `OneSessionDevice`, `WindowIsAttended`,
`UntoldIsPending`, `AwaitFindsEntry`, `AbandonedEntryIsDropped` and
`SessionBesideNoTeardown`, and the refinements `ReadinessGives` and `SessionIsAdmitted`
are proved (section 5) and not listed in a cfg. Every property of a passing run has a mutant: a plausible bug in one mapped definition
(`..._KeepsTimer`, `..._NoCancel`, `..._ForgetsLater`) that TLC shows to violate it.

## 4. Hazards

`PROJECT.json` lists what is hard to test, at its line, with the properties that would
catch it. A note says where a property has a named exception; section 6 says what the
exception is.

## 5. Proofs

All theorems hold for every value of the constants, under the assumptions named in the
modules: `Requests` is any set of well-formed requests, `StopAfters` any subset of 0..8,
the two failure switches any Booleans; bounds are any naturals; devices, launches and
accounts any sets without the null value; the age resolution is at least one unit of the
age (`probeAgeResolutionMillis` "is the age's resolution").

*`TunnelSession_proofs`*: `TypeCorrect`, `EndedIsReleased`, `RoutesCovered`,
`SingleDevice`, `UpIsUsable`, `WindowAttended`, `StopIsFinal`, `KillSwitchKept`,
`MirrorIsCurrent`, `StagedEndIsClean`, and the refinements `SessionImplementsGrant` and
`SessionImplementsAdmission`. None of these is inductive. `IInv` adds, part by part, each
proved from the ones before it:
`LockInv` (the holder is where its operation is; an unwind belongs to an operation that
unwinds), `IntentInv` (what the user last asked, by where the threads are: a readiness
that is not cancelled means a start was last), `SessionInv` (which steps have a device),
`OwnerInv` (the route owner exists exactly from the Network stage to the unwind that
reverts it, and a cancelled commit leaves it to the stop that cancelled it) and
`PolicyInv` (what policy and watchdog can hold once the unwind has passed the firewall).
The two action properties follow from `IInv` by a case analysis of the actions that set
`state` to Up or the policy to Off. Two more invariants are inductive relative to `IInv`:
`MirrorInv` (the mirror is behind only between owning routes and the next publish) and
`StagedInv` (a staged bring-up is never Up, so no failsafe ends it, and what leaves it
Stopped was a final unwind). So is `GrantInv`, which the refinement of `CaptureGrant` needs:
a transaction's evaluator is the only holder of a ticket, no watch for a ticket and no
holder of one stands over a tunnel that is Up, and a start past its cancel has met neither,
so that renewing the readiness finds no ticket that still counts. The refinement of
`DeviceAdmission` follows from `SessionInv` alone.

*`CaptureReadiness_proofs`*: `TypeCorrect`, `CaptureIsProven`
(`Spec => CommitsOnCurrentProof`) and `ReadinessImplementsGrant` (from `TicketInv`: a
ticket in hand has not been spent). `ProvenInv` says `proven_` stands for an exit of the
current generation probed after the barrier. It is kept because of `SampleInv` (a sample
still holding the revision was judged by the barrier that still stands, and the exit it
counted is after it) and `WindowInv` (the windows a sample saw are in the order they were
built, so equal brackets name the window the exit was read from). The arithmetic is
`TruncatedAge`: an age truncated to seconds that fits into the elapsed time less the
resolution is the age of something after the change.

*`NetworkNotify_proofs`*: `TypeCorrect`, `MovesStayPending`, `EventsReachTheWatch`.
`WatchInv` places the listening channel by where its starter is, `CallInv` says a call in
progress on the current event began after the last move, `StrandInv` names the carrier
of an unhandled event and is stronger than `NoEventStranded` in that the sampler must
carry the current revision.

*`SessionDevices_proofs`*: `ImplementsCustody` (`Spec => OneIdentityCustody`, the
refinement of DeviceCustody: the initial state maps to an initial state, every step to a
step or a stutter), `CallDeviceStaysAlive`, `NoTeardownBesideSession`,
`SessionKeepsBinding`, `DevicesTypeCorrect`, and `DevicesImplementAdmission`, whose own
invariant is `RestartInv` (a start past its admission is in a process that does not
restart). `PlaceInv` says which slots may be filled by
where the lock holder is, `GateInv` ties a worker's gate to the device it has, `LockInv`
places the shell, `OneOpen` says that at most one device is open, `QuietInv` that a
session's device was admitted with no teardown outstanding, so that nobody's worker or
monitor but its own still writes the binding, `BoundInv` that from its first reading a
session is bound or `exposed`, `CallInv` where the device of an upload's call can be.

*`InstanceHandover_proofs`*: `OneLiveInstanceActs`, `RefusedIsNeverHandedOver`,
`ServedExactlyOnce`, `HandlerKeepsItsEntry`, `NoEntryIsStranded`, `HandoverTypeCorrect`.
`KeyInv` says who can hold the key, `EntryInv` ties each entry of a gate to its handler and
to the post that will serve it, `EndInv` what a process that ended leaves, `SignalInv` that
a gate refuses only after the exiting signal is raised, `DecideInv` and `ActInv` what a
launch's redirect result says about the entry.

*`ControlPipe_proofs`*: `ReplyLagsByTimeouts`, `OpenChannelHasReader`, `PipeTypeCorrect`.
`LagInv` bounds what is still to be read, by where the call is; `ServingInv` says a request
being served on a live channel is unanswered; `LiveInv` that a live channel is marked up
and not being closed.

*`AccountSession_proofs`*: `NobodyRunsOnAnothersIdentity`, `SignOutLeavesNothing`,
`SignOutIsNotUndone`, `RequestIsNotStranded`, `AccountTypeCorrect`. `RegInv` and `CredentialsInv` say what a registration may still
hold beside a sign-out, `TailInv` what has been done by where the tail is, `EmptyInv`
that an app without credentials, or signed out, has left nothing but an identity the
service failed to remove, unless the sign-out is owed, about to be owed, or lost,
`IdentityInv` and `StartInv` that a pass let past the checks starts on the identity of the
account signed in, or of one a named failure left (`OwnIdentity`). Nothing is said of the
marker's file: it may be missing or left behind, and what that costs is in `history`.

*`Updater_proofs`*, of UpdateInstall: `LaunchWaitsForHelper`, `BannerReportIsCurrent`,
`InstallTypeCorrect`. `CoverInv` says a running helper is waited on by an app that will
record it, is on record, or its record was lost one of the named ways; `WrittenInv` that
from the moment a watched helper wrote its report until the worker takes its end, the
report on disk is that one, unread, and the banner shows no other. Of UpdateBanner, whose
names are its own (`BannerSpec`, `step`) so that one module can speak of both halves of the
updater: `PutOffStaysHidden`, `UpdateKeepsItsBanner`, `ClaimFollowsClick`,
`BannerTypeCorrect`, for any build and any releases, installed or not. `LaterInv` is stronger than `LaterStaysHidden`: the release
put off is on no banner at all, a report's included, since a report's button may be the
installer and takes its release back to the work on an update. It needs `StartInv`: before the worker has looked at the last report
nothing is offered, put off or clicked, so that the report it shows cannot be of a release
put off in this run. `ClickInv` says a click that is still to be taken, and that no banner
overtook, is of the release on the banner; `BannerHoldsClick` is inductive as it stands.

Only model-checked: all liveness, which needs fairness and ENABLED and is out of the
prover's reach.

## 6. Observations

What the code does that a comment, or a reader, would not expect. The first was met as a
violated property; the others were met while modelling, and where a property meets one it
names it as an exception.

Service:

* The escape drops the policy and leaves the connecting watchdog running; a minute later
  it applies Armed, so a user who stopped with the kill switch off is blocked again
  (`TunnelController.cpp:1376`, `:468`; "to give the internet back", `:1366`).
* A `FailsafeStop` detached by a reconnect carries no session identity and stops the
  session that replaced the one it judged (`:1411`; "idempotent", `TunnelWatchdog.cpp:197`).
* `ControlServer::Stop` joins the pipe thread, which may wait for `mutex_` without a bound
  (`ControlServer.cpp:26`; "bounded", `main.cpp:764`).
* `RepublishMachineFactsLockFree` patches `routes_installed` alone, so the mirror can read
  up without routes (`TunnelController.cpp:3291`; `TunnelController.h:382`).
* An escape disarms the crash path while `Apply` goes on adding routes
  (`NetworkConfig.cpp:711`; "must still be cleanable", `:450`).
* `FailsafeStop` reads `killSwitch_` before it waits for the lock (`:1407`).
* `SetKillSwitch` blocks on the wedged lock (`:2014`), while `:1378-1382` tells a user in
  that situation to turn the switch off. `SetKillSwitch(false)` does not lift a Connected
  policy left by a narrowing that failed (`:2033`).
* A `networkChanged()` that throws leaves its event pending, but its coalescing window is
  consumed: it is retried only at the next event or watch.
* The log upload's waiter closes its device inside its own `RunBounded` while a start may
  build the session's (`TunnelController.cpp:3206`; "the two devices never run together",
  `:1523-1525`). `TeardownPending` leaves it out by name.
* `StartProvider` sweeps the abandoned teardowns before it retires the old provider and
  does not look again. A late worker's `setEgressInterfaceIndex(0, 0)` (`:2582`) is
  harmless only because the session it would hit is refused first.
* A session runs unbound when its first reading finds no physical interface ("NOT in force
  yet", `TunnelController.cpp:925-936`) and when the interface it kept is gone
  (`EgressMonitor.cpp:210-216`). At a takeover from providing the new monitor has no
  `current_` to keep, so a default route missing at that moment unbinds what the
  provider's monitor had bound, though the interface still exists (`:203`, `:233`).
* A push to an app that stays connected and does not read holds `writeMutex_` for ever.

Control pipe:

* `Call` returns the next reply whatever it answers: after one call given up at its timeout
  each later call on the channel returns the reply of an earlier request
  (`PipeClient.cpp:121-127`, `:149`; "its matching reply (by "type")", `PipeClient.h:55`).
  `LagIsGivenUp` bounds how far.
* `Stop`'s `CancelIoEx` can come between the connection thread's look at the flag and its
  `ReadFile`, and needs `writeMutex_`, which a push blocked on a full pipe holds: it ends
  only once the app reads or leaves. A failed `CreateNamedPipe` ends the accept loop.
* `Close` and `Connect` do not take `callMutex_`.

Account:

* After a Disconnect, `Decide` declines an EnsureSession pass (`ConnectAction.h:361-368`)
  before the bootstrap that dials, and `ReconcileProviderLocked` returns when the channel
  is down (`SdkHost.cpp:7704`): nothing dials a service that comes back, and the provider
  is not started again (`SdkHost.cpp:3149-3151` says the recovery pass "starts it again").
* An app that ends between the local logout and the marker loses the sign-out. So does one
  that ends before the delivery when the marker could not be written, which is only logged
  (`SdkHost.cpp:8820-8822`), or cannot be read at the next launch, which counts as none
  (`:8807-8810`); one that could not be removed is delivered again there (`:8814`).
* `Logout` ignores the errors of removing the identity's files and answers success
  (`TunnelController.cpp:2118-2121`): the app settles the sign-out, and the next account
  runs on the identity that was left. The sdk's own state, in contrast, is reported (`:2135`).
* A retry asked of a watchdog between its `break` and `watchdogRunning_ = false` is missed.
* A failed start or a decline clears `serviceRecoveryNeeded_` after a drop armed it
  (`:7602-7607`); a sign-in with the channel down does not dial.

Updates:

* `RunReveal` hashes the installer without the lock, and its mismatch sets Failed whatever
  the banner is by then (`UpdateChecker.cpp:1588`; the other failure in the same function
  looks at the phase first): after a Later, a Failed banner with code 0 is left that neither
  button clears.
* `BeginApply` records no release (`:527`): a click made while the loop's own check runs
  starts whatever that check put on the banner ("no other is installed on its strength",
  `UpdateSchedule.h:88-89`). Only the stale path forgets a second click, so a double click
  on a fresh offer starts the update again after a declined prompt.
* A helper whose process the shell did not return leaves the banner Applying (`:1458`) and
  no marker. The last `Mutate` of an update does not set the code (`:1528`).
* "the click the user made last wins" (`:790`): an apply always wins over the installer.
* Snapshots are handed to the window outside the lock, so two threads' can arrive out of
  order; the model delivers them in order.
* A crash, or the Restart Manager ending the app, writes no marker. `Shutdown`'s join of
  the update worker waits for an elevation prompt the worker has up.
* `ChannelChanged` has no caller yet; it is an action because it is an operation.

## 7. Plan

Done: `TunnelSession`, `CaptureReadiness`, `NetworkNotify`, `SessionDevices` with
`DeviceCustody`, `InstanceHandover`, `ControlPipe`, `AccountSession`, `UpdateBanner`,
`UpdateInstall`; the interfaces `CaptureGrant` and `DeviceAdmission`; proofs of every
safety property a run checks. Left, in this order:

1. `DeadTunnelVerdict`: the windows and rebases of the evaluator, the balance hold;
   no verdict within a grace period of a resume, none on a held account but for sdk
   silence, a verdict when the tunnel is really dead.
2. Quit, with `CoalescedWorker` and `ExitDrain`: the settle, the watchdog and a sign-out's
   tail are ended in an order of their own (`SdkHost.cpp:8944`), and a stopped
   `CoalescedWorker` drops a run not begun.
3. `WfpPolicy` as filter sets with arbitration; `EgressMonitor`'s change filter with the
   provider-only `NetworkChangeNotifier`.
4. The rest of the updater (the package checks, the download folders, the VPN note),
   `ReleaseSelection` as a pure algorithm against a reference, `BalanceGate`.

## 8. Not modelled

Packet I/O (`PacketPump`, `Wintun`, `FlowOwner`): no control state beyond start and
stop. The JSON protocol, pipe framing and ACLs; SCM registration; logging, traces, crash
dumps and diagnostics: pure I/O or formatting. Route-table contents and egress
discovery in `NetworkConfig`: routes stand for one set, since every property concerns
whether any remain. The sdk: external, modelled by what its callers rely on. The WinUI
pages (wallet, stats, settings, connect), which render what the sdk and `SdkHost` hand
them and are most of the app's lines; the self tests and tools. `trace_.Stop()`, which can
join a thread inside the sdk ahead of the route revert, is a debug option that is off by
default.

In the modules: AccountSession leaves out the network-space switch, the guest upgrade,
the settle delay and refusals by the kill switch; its requests are served one at a time
with matched replies (ControlPipe says how far they can lag). InstanceHandover leaves out
an `Open` that throws, process-id reuse, and the order of its budgets. UpdateInstall merges
a second helper (Busy at once) and a second relaunch, treats a restart of Windows in the
middle of an install as leaving what is registered, and leaves out a marker whose process
cannot be probed; portable copies run no helper.
