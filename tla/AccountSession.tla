--------------------------- MODULE AccountSession ---------------------------
(* The account side of the app (SdkHost): the slot of session requests and  *)
(* the worker that runs them, signing in and out, the sign-out owed to the  *)
(* service, and the watchdog that waits for a service to come back.         *)
(*                                                                          *)
(* Threads meet at mutex_ (mutex), which a pass, a sign-out's tail and a    *)
(* registration hold across their requests; the click of a sign-out and the *)
(* watchdog do not take it. The service is what the app asks of it: a       *)
(* tunnel, a provider-only device and the identity both run on. A request   *)
(* on a live channel is done and answered, done with its answer lost, or    *)
(* neither.                                                                 *)
EXTENDS Naturals

CONSTANTS
  Accounts,   \* who may sign in
  Nobody,
  MaxFaults   \* bound on lost requests, ended processes and broken channels

ASSUME AccountsAssumption == Nobody \notin Accounts
ASSUME FaultsAssumption   == MaxFaults \in Nat

VARIABLES
  up, tunnel, provider, identity,  \* the service, and the account of each thing it keeps
  jwt,        \* the account whose client jwt is stored
  files,      \* what else outlives the app: the owed marker, the saved rpc session
  flags,      \* loggedIn_, owed_, device_, userDisconnected_, serviceRecoveryNeeded_
  link,       \* the control channel as the app's PipeClient has it
  slot,       \* pending_
  mutex,      \* the holder of mutex_
  worker, req,                     \* the session worker and the request it took
  tail,       \* the sign-out that runs
  reg, regFor, regCurrent,         \* a registration: its step, account and whether its epoch stands
  dog,        \* the service-reconnect watchdog
  faults,
  history     \* "lost": a sign-out nothing records; "kept": credentials it failed to
              \* remove; "identityKept": an identity the service failed to remove,
              \* and did not say so; "missed": a retry the watchdog did not see

service == <<up, tunnel, provider, identity>>
disk    == <<jwt, files>>
pass    == <<worker, req>>
signIn  == <<reg, regFor, regCurrent>>
vars    == <<service, disk, flags, link, slot, mutex, pass, tail, signIn, dog, faults, history>>

Has(f)  == f \in flags
Fault   == faults < MaxFaults /\ faults' = faults + 1
NoFault == UNCHANGED faults

Init ==
  /\ up = "up" /\ tunnel = Nobody /\ provider = Nobody /\ identity = Nobody
  /\ jwt = Nobody /\ files = {} /\ flags = {} /\ link = "live"
  /\ slot = "none" /\ mutex = "nobody" /\ worker = "none" /\ req = "none"
  /\ tail = "off" /\ reg = "none" /\ regFor = Nobody /\ regCurrent = "no"
  /\ dog = "off" /\ faults = 0 /\ history = {}

-----------------------------------------------------------------------------
(* RequestSession. Pressing Connect or Disconnect, and the failsafe's       *)
(* "unexpected drop", may come at any time.                                 *)

Kinds == {"connect", "disconnect", "ensure", "provider"}

\* An ensure or a reconcile is covered by a request that implies it.
Covered(kind) ==
  \/ kind = "ensure" /\ slot \in {"connect", "disconnect"}
  \/ kind = "provider" /\ slot \in {"connect", "disconnect", "ensure"}

Ask(kind) ==
  /\ slot' = IF Covered(kind) THEN slot ELSE kind
  /\ worker' = IF worker = "none" THEN "top" ELSE worker

\* SignOutConnectFence: a connect of an account that left is not recorded.
RequestSession(kind) ==
  /\ kind \in {"connect", "disconnect", "ensure"}
  /\ kind = "connect" => Has("loggedIn")
  /\ Ask(kind)
  /\ UNCHANGED <<service, disk, flags, link, mutex, req, tail, signIn, dog, faults, history>>

\* A slip: the worker leaves on what it saw of the slot before.
WorkerTakes_Blind ==
  /\ worker = "top" /\ worker' \in {"none", "lock"}
  /\ req' = slot /\ slot' = IF worker' = "none" THEN slot ELSE "none"
  /\ UNCHANGED <<service, disk, flags, link, mutex, tail, signIn, dog, faults, history>>

\* Under pendingMutex_: take what waits, or leave.
WorkerTakes ==
  /\ worker = "top"
  /\ worker' = IF slot = "none" THEN "none" ELSE "lock"
  /\ req' = slot /\ slot' = "none"
  /\ UNCHANGED <<service, disk, flags, link, mutex, tail, signIn, dog, faults, history>>

-----------------------------------------------------------------------------
(* The service, and what every request to it may come to.                   *)

Dialled(l) == l = "live" \/ (l = "none" /\ up = "up")

\* A start keeps the identity the service has and makes one if it has none.
RunsOn(account) == IF identity = Nobody THEN account ELSE identity

StartTunnel(account) ==
  /\ tunnel' = account /\ provider' = Nobody /\ identity' = RunsOn(account)
  /\ UNCHANGED up

StartProvider(account) ==
  /\ provider' = account /\ identity' = RunsOn(account)
  /\ UNCHANGED <<up, tunnel>>

StopTunnel == tunnel' = Nobody /\ provider' = Nobody /\ UNCHANGED <<up, identity>>

ServiceEnds ==
  /\ up = "up" /\ Fault
  /\ up' = "down" /\ tunnel' = Nobody /\ provider' = Nobody
  /\ link' = IF link = "live" THEN "dead" ELSE link
  /\ UNCHANGED <<identity, disk, flags, slot, mutex, pass, tail, signIn, dog, history>>

ServiceStarts ==
  /\ up = "down"
  /\ up' = "up"
  /\ UNCHANGED <<tunnel, provider, identity, disk, flags, link, slot, mutex, pass, tail,
                 signIn, dog, faults, history>>

PipeDrops ==
  /\ link = "live" /\ Fault
  /\ link' = "dead"
  /\ UNCHANGED <<service, disk, flags, slot, mutex, pass, tail, signIn, dog, history>>

-----------------------------------------------------------------------------
(* The service-reconnect watchdog.                                          *)

\* ScheduleServiceRetry, with the flags its caller leaves: a watchdog that is
\* on its way out counts as running until it has left.
ScheduleServiceRetry(f) ==
  /\ flags' = f \cup {"recoveryNeeded"}
  /\ dog' = IF dog = "off" THEN "wait" ELSE dog
  /\ history' = IF dog \in {"leaving", "left"} THEN history \cup {"missed"}
                ELSE IF dog = "off" THEN history \ {"missed"} ELSE history

\* OnServiceDisconnected, on the pipe's reader thread.
OnServiceDisconnected ==
  /\ link = "dead"
  /\ link' = "none"
  /\ ScheduleServiceRetry(flags)
  /\ UNCHANGED <<service, disk, slot, mutex, pass, tail, signIn, faults>>

Idle == ~Has("recoveryNeeded") /\ ~Has("owed")

WatchEnds ==
  /\ dog = "wait" /\ Idle
  /\ dog' = "off"
  /\ UNCHANGED <<service, disk, flags, link, slot, mutex, pass, tail, signIn, faults, history>>

WatchWakes ==
  /\ dog = "wait" /\ ~Idle
  /\ dog' = IF Has("loggedIn") THEN "signedIn" ELSE IF Has("owed") THEN "owing" ELSE "leaving"
  /\ UNCHANGED <<service, disk, flags, link, slot, mutex, pass, tail, signIn, faults, history>>

\* A slip: only a signed-in app has anything to recover.
WatchAsks_SignedInOnly ==
  /\ dog \in {"signedIn", "owing"}
  /\ dog' = "wait"
  /\ IF dog = "signedIn" /\ (link # "none" \/ up = "up")
     THEN Ask("ensure")
     ELSE UNCHANGED <<slot, worker>>
  /\ UNCHANGED <<service, disk, flags, link, mutex, req, tail, signIn, faults, history>>

\* WaitNamedPipe does not dial: the pass does.
WatchAsks ==
  /\ dog \in {"signedIn", "owing"}
  /\ dog' = "wait"
  /\ IF link # "none" \/ up = "up"
     THEN Ask(IF dog = "signedIn" THEN "ensure" ELSE "provider")
     ELSE UNCHANGED <<slot, worker>>
  /\ UNCHANGED <<service, disk, flags, link, mutex, req, tail, signIn, faults, history>>

WatchGivesUp ==
  /\ dog = "leaving"
  /\ flags' = flags \ {"recoveryNeeded"} /\ dog' = "left"
  /\ UNCHANGED <<service, disk, link, slot, mutex, pass, tail, signIn, faults, history>>

WatchLeaves ==
  /\ dog = "left"
  /\ dog' = "off"
  /\ UNCHANGED <<service, disk, flags, link, slot, mutex, pass, tail, signIn, faults, history>>

-----------------------------------------------------------------------------
(* Delivering a sign-out (Obligation::Begin and Settle): dial, then all     *)
(* three requests whatever each of them does.                               *)

Requests == {"stop_tunnel", "stop_provider", "logout"}

\* The requests in done took effect. logout stops what runs as well, and does not
\* look at whether the files of the identity could be removed.
Do(done) ==
  /\ tunnel' = IF done \cap {"stop_tunnel", "logout"} # {} THEN Nobody ELSE tunnel
  /\ provider' = IF done # {} THEN Nobody ELSE provider
  /\ identity' \in IF "logout" \in done THEN {Nobody, identity} ELSE {identity}
  /\ UNCHANGED up

\* A slip: one request that was answered answers for all three.
DeliverSucceeds_OneAnswer ==
  /\ Dialled(link) /\ Fault
  /\ link' = "live" /\ \E done \in SUBSET Requests : done # {} /\ Do(done)
  /\ history' = history \ {"lost", "identityKept"}
  /\ UNCHANGED <<flags, dog>>

\* All three were answered.
DeliverSucceeds ==
  /\ Dialled(link)
  /\ link' = "live" /\ Do(Requests)
  /\ IF identity' = Nobody
     THEN NoFault /\ history' = history \ {"lost", "identityKept"}
     ELSE Fault /\ history' = (history \ {"lost"}) \cup {"identityKept"}
  /\ UNCHANGED <<flags, dog>>

\* The service is not there, the channel is dead, or a request failed or went
\* unanswered: it stays owed and the watchdog is asked to retry.
DeliverFails ==
  /\ ScheduleServiceRetry(flags)
  /\ \/ ~Dialled(link) /\ UNCHANGED <<service, link, faults>>
     \/ Dialled(link) /\ Fault /\ link' = "live" /\ \E done \in SUBSET Requests : Do(done)

\* owed_, and the marker that outlives the app. One that cannot be written, or
\* removed, is logged and left as it is.
Mark(changed) == (NoFault /\ files' = changed) \/ (Fault /\ UNCHANGED files)

Owe == flags' = flags \cup {"owed"} /\ Mark(files \cup {"marker"})

Settled(f) == flags' = f \ {"owed"} /\ Mark(files \ {"marker"})

\* Owed, and not yet done by the service.
Undelivered == Has("owed") /\ worker # "settled" /\ tail # "settled"

-----------------------------------------------------------------------------
(* A pass of the session worker, under mutex_ from WorkerLocks until it is  *)
(* done.                                                                    *)

WorkerLocks ==
  /\ worker = "lock" /\ mutex = "nobody"
  /\ mutex' = "worker"
  /\ worker' = IF Has("owed") THEN "settle" ELSE "plan"
  /\ UNCHANGED <<service, disk, flags, link, slot, req, tail, signIn, dog, faults, history>>

\* SettleSignOutLocked
WorkerDelivers ==
  /\ worker = "settle"
  /\ \/ DeliverSucceeds /\ worker' = "settled"
     \/ DeliverFails /\ worker' = "plan"
  /\ UNCHANGED <<disk, slot, mutex, req, tail, signIn>>

WorkerSettles ==
  /\ worker = "settled"
  /\ Settled(IF Has("loggedIn") THEN flags ELSE flags \ {"recoveryNeeded"})
  /\ worker' = "plan"
  /\ UNCHANGED <<service, jwt, link, slot, mutex, req, tail, signIn, dog, history>>

\* TeardownSessionLocked without a stop: the device and the saved session go.
Drop(f) == flags' = f \ {"device"} /\ files' = files \ {"saved"}

\* A device whose channel is down is dropped ahead of the decision.
Kept == IF link = "none" THEN flags \ {"device"} ELSE flags

Reconcile == worker' = "reconcile" /\ req' = "none"

\* A provider pass goes straight to the reconcile.
PassReconciles ==
  /\ worker = "plan" /\ req = "provider"
  /\ Reconcile
  /\ UNCHANGED <<service, disk, flags, link, slot, mutex, tail, signIn, dog, faults, history>>

\* A Disconnect stops whatever the service runs, or all of it when it could
\* not be asked, then drops the device.
PassDisconnects ==
  /\ worker = "plan" /\ req = "disconnect"
  /\ \/ link = "live" /\ NoFault
        /\ IF tunnel # Nobody THEN StopTunnel ELSE UNCHANGED service
     \/ link = "live" /\ Fault /\ (StopTunnel \/ UNCHANGED service)
     \/ link # "live" /\ NoFault /\ UNCHANGED service
  /\ Drop(Kept \cup {"userDisconnected"})
  /\ Reconcile
  /\ UNCHANGED <<jwt, link, slot, mutex, tail, signIn, dog, history>>

\* What Decide is told of the service: nothing unless it answered.
Reads(known) == known => link = "live"

\* Decide for a Connect and for an EnsureSession.
PassDecides ==
  /\ worker = "plan" /\ req \in {"connect", "ensure"}
  /\ \E known \in BOOLEAN :
       LET live   == known /\ tunnel # Nobody
           wanted == IF req = "connect" THEN Kept \ {"userDisconnected"} ELSE Kept
           device == "device" \in Kept
           \* the user's last word was Disconnect
           leave  == req = "ensure" /\ "userDisconnected" \in wanted /\ ~live
           keep   == device /\ (~known \/ live)
       IN /\ Reads(known)
          /\ IF link = "live" /\ ~known THEN Fault ELSE NoFault
          /\ IF leave \/ keep
             THEN /\ Reconcile
                  /\ flags' = IF device THEN wanted \ {"recoveryNeeded"} ELSE wanted
                  /\ files' = IF Kept = flags THEN files ELSE files \ {"saved"}
             ELSE /\ worker' = "boot" /\ UNCHANGED req
                  /\ IF Has("device") THEN Drop(wanted) ELSE flags' = wanted /\ UNCHANGED files
  /\ UNCHANGED <<service, jwt, link, slot, mutex, tail, signIn, dog, history>>

\* BootstrapSession's checks: signed in, credentials, the dial, nothing owed.
BootChecks ==
  /\ worker = "boot" /\ Has("loggedIn") /\ jwt # Nobody /\ Dialled(link) /\ ~Has("owed")
  /\ link' = "live" /\ worker' = "session"
  /\ UNCHANGED <<service, disk, flags, slot, mutex, req, tail, signIn, dog, faults, history>>

\* Signed out, or without credentials: declined, and nothing to recover.
BootDeclines ==
  /\ worker = "boot" /\ (~Has("loggedIn") \/ jwt = Nobody)
  /\ Reconcile /\ flags' = flags \ {"recoveryNeeded"}
  /\ UNCHANGED <<service, disk, link, slot, mutex, tail, signIn, dog, faults, history>>

BootRetries ==
  /\ worker = "boot" /\ Has("loggedIn") /\ jwt # Nobody
  /\ ~Dialled(link) \/ Has("owed")
  /\ link' = IF Dialled(link) THEN "live" ELSE link
  /\ Reconcile
  /\ ScheduleServiceRetry(flags)
  /\ UNCHANGED <<service, disk, slot, mutex, tail, signIn, faults>>

\* hello names the session the saved record is of.
Adoptable == tunnel # Nobody /\ "saved" \in files

\* What follows is decided on hello's answer. An ensure may only attach.
HelloAnswers ==
  /\ worker = "session" /\ link = "live"
  /\ worker' = IF Adoptable THEN "adopt" ELSE IF req = "ensure" THEN "decline" ELSE "start"
  /\ UNCHANGED <<service, disk, flags, link, slot, mutex, req, tail, signIn, dog, faults, history>>

\* No version in the answer reads as a service too old, which is retried.
HelloFails ==
  /\ worker = "session"
  /\ IF link = "live" THEN Fault ELSE NoFault
  /\ Reconcile
  /\ ScheduleServiceRetry(flags)
  /\ UNCHANGED <<service, disk, link, slot, mutex, tail, signIn>>

SessionAdopts ==
  /\ worker = "adopt"
  /\ flags' = (flags \cup {"device"}) \ {"recoveryNeeded"}
  /\ Reconcile
  /\ UNCHANGED <<service, disk, link, slot, mutex, tail, signIn, dog, faults, history>>

SessionDeclines ==
  /\ worker = "decline"
  /\ flags' = flags \ {"recoveryNeeded"}
  /\ Reconcile
  /\ UNCHANGED <<service, disk, link, slot, mutex, tail, signIn, dog, faults, history>>

\* start_tunnel: done and answered, done with its answer lost, or not done.
\* The record is saved first and matches nothing if no session came of it. A
\* start that failed is not retried.
SessionStarts ==
  /\ worker = "start"
  /\ \/ /\ link = "live" /\ NoFault /\ StartTunnel(jwt)
        /\ files' = files \cup {"saved"}
        /\ flags' = (flags \cup {"device"}) \ {"recoveryNeeded"}
     \/ /\ link = "live" /\ Fault /\ StartTunnel(jwt)
        /\ files' = files \cup {"saved"}
        /\ flags' = flags \ {"recoveryNeeded"}
     \/ /\ IF link = "live" THEN Fault ELSE NoFault
        /\ UNCHANGED service
        /\ files' = files \ {"saved"}
        /\ flags' = flags \ {"recoveryNeeded"}
  /\ Reconcile
  /\ UNCHANGED <<jwt, link, slot, mutex, tail, signIn, dog, history>>

\* ReconcileProviderLocked: with a session, without a channel, or beside the
\* service's own session there is nothing to do.
Unlock == mutex' = "nobody" /\ worker' = "top" /\ UNCHANGED req

Provides == Has("loggedIn") /\ jwt # Nobody

ReconcileEnds ==
  /\ worker = "reconcile"
  /\ \/ Has("device") \/ link # "live" \/ tunnel # Nobody
     \/ Provides /\ Has("owed")
     \/ ~Provides      \* the mirror says that nothing provides
  /\ Unlock
  /\ UNCHANGED <<service, disk, flags, link, slot, tail, signIn, dog, faults, history>>

ReconcileStops ==
  /\ worker = "reconcile"
  /\ ~Has("device") /\ link = "live" /\ tunnel = Nobody /\ ~Provides
  /\ provider' = Nobody
  /\ Unlock
  /\ UNCHANGED <<up, tunnel, identity, disk, flags, link, slot, tail, signIn, dog, faults, history>>

\* A slip: the provider is started beside an obligation.
ReconcileBegins_IgnoresOwed ==
  /\ worker = "reconcile"
  /\ ~Has("device") /\ link = "live" /\ tunnel = Nobody /\ Provides
  /\ worker' = "provide"
  /\ UNCHANGED <<service, disk, flags, link, slot, mutex, req, tail, signIn, dog, faults, history>>

ReconcileBegins ==
  /\ worker = "reconcile"
  /\ ~Has("device") /\ link = "live" /\ tunnel = Nobody /\ Provides /\ ~Has("owed")
  /\ worker' = "provide"
  /\ UNCHANGED <<service, disk, flags, link, slot, mutex, req, tail, signIn, dog, faults, history>>

\* start_provider, which changes nothing for the device it already runs.
ReconcileProvides ==
  /\ worker = "provide"
  /\ \/ link = "live" /\ NoFault /\ StartProvider(jwt)
     \/ (IF link = "live" THEN Fault ELSE NoFault) /\ UNCHANGED service
  /\ Unlock
  /\ UNCHANGED <<disk, flags, link, slot, tail, signIn, dog, history>>
-----------------------------------------------------------------------------
(* Signing out: the click, and the tail on its own thread (SignOutRun).     *)

\* It moves the epoch, empties the slot and reads as signed out at once. A
\* second one joins the first.
Logout ==
  /\ tail = "off"
  /\ tail' = "lock" /\ regCurrent' = "no" /\ slot' = "none"
  /\ flags' = flags \ {"loggedIn"}
  /\ UNCHANGED <<service, disk, link, mutex, pass, reg, regFor, dog, faults, history>>

TailLocks ==
  /\ tail = "lock" /\ mutex = "nobody"
  /\ mutex' = "tail" /\ tail' = "local"
  /\ UNCHANGED <<service, disk, flags, link, slot, pass, signIn, dog, faults, history>>

\* localState_->logout()
TailForgets ==
  /\ tail = "local"
  /\ jwt' = Nobody /\ tail' = "owe" /\ history' = history \ {"kept"}
  /\ UNCHANGED <<service, files, flags, link, slot, mutex, pass, signIn, dog, faults>>

\* A slip: mutex_ is locked and unlocked by hand, and the throw skips the unlock.
TailThrows_KeepsMutex ==
  /\ tail \in {"local", "owe"} /\ Fault
  /\ tail' = "finish"
  /\ history' = history \cup (IF tail = "local" THEN {"lost", "kept"} ELSE {"lost"})
  /\ UNCHANGED <<service, disk, flags, link, slot, mutex, pass, signIn, dog>>

\* It throws, or the api's setByJwt after it: the rest of the tail is skipped.
TailThrows ==
  /\ tail \in {"local", "owe"} /\ Fault
  /\ tail' = "finish" /\ mutex' = "nobody"
  /\ history' = history \cup (IF tail = "local" THEN {"lost", "kept"} ELSE {"lost"})
  /\ UNCHANGED <<service, disk, flags, link, slot, pass, signIn, dog>>

\* Obligation::Begin
TailOwes ==
  /\ tail = "owe"
  /\ Owe /\ tail' = "deliver"
  /\ UNCHANGED <<service, jwt, link, slot, mutex, pass, signIn, dog, history>>

TailDelivers ==
  /\ tail = "deliver"
  /\ \/ DeliverSucceeds /\ tail' = "settled"
     \/ DeliverFails /\ tail' = "teardown"
  /\ UNCHANGED <<disk, slot, mutex, pass, signIn>>

TailSettles ==
  /\ tail = "settled"
  /\ Settled(flags \ {"recoveryNeeded"}) /\ tail' = "teardown"
  /\ UNCHANGED <<service, jwt, link, slot, mutex, pass, signIn, dog, history>>

TailTearsDown ==
  /\ tail = "teardown"
  /\ Drop(flags) /\ mutex' = "nobody" /\ tail' = "finish"
  /\ UNCHANGED <<service, jwt, link, slot, pass, signIn, dog, faults, history>>

\* SignOutRun::Finish: the sign-in that waited, if any, runs now.
TailFinishes ==
  /\ tail = "finish"
  /\ tail' = "off"
  /\ reg' = IF reg = "deferred" THEN "begun" ELSE reg
  /\ UNCHANGED <<service, disk, flags, link, slot, mutex, pass, regFor, regCurrent, dog,
                 faults, history>>

-----------------------------------------------------------------------------
(* Signing in: RegisterNetworkClient, for an attempt that carries the epoch *)
(* from before its first request.                                           *)

RegEnds == reg' = "none" /\ regFor' = Nobody /\ regCurrent' = "no"

SignIn(account) ==
  /\ reg = "none" /\ ~Has("loggedIn")
  /\ reg' = "begun" /\ regFor' = account /\ regCurrent' = "yes"
  /\ UNCHANGED <<service, disk, flags, link, slot, mutex, pass, tail, dog, faults, history>>

RegDefers ==
  /\ reg = "begun" /\ regCurrent = "yes" /\ tail # "off"
  /\ reg' = "deferred"
  /\ UNCHANGED <<service, disk, flags, link, slot, mutex, pass, tail, regFor, regCurrent, dog,
                 faults, history>>

\* Under mutex_, unless a sign-out has begun since: a running session is torn
\* down, and the api is asked for a client.
RegTearsDown ==
  /\ reg = "begun" /\ (regCurrent = "no" \/ tail = "off") /\ mutex = "nobody"
  /\ IF regCurrent = "yes" THEN reg' = "asked" /\ UNCHANGED <<regFor, regCurrent>> ELSE RegEnds
  /\ IF regCurrent = "yes" /\ Has("device")
     THEN /\ Drop(flags)
          /\ \/ link = "live" /\ NoFault /\ StopTunnel
             \/ (IF link = "live" THEN Fault ELSE NoFault) /\ UNCHANGED service
     ELSE NoFault /\ UNCHANGED <<service, flags, files>>
  /\ UNCHANGED <<jwt, link, slot, mutex, pass, tail, dog, history>>

\* The api refuses, or the credentials cannot be stored.
RegFails ==
  /\ reg = "asked"
  /\ RegEnds
  /\ UNCHANGED <<service, disk, flags, link, slot, mutex, pass, tail, dog,
                 faults, history>>

\* A slip: the epoch is only looked at before the api is asked.
RegStores_NoEpoch ==
  /\ reg = "asked" /\ mutex = "nobody"
  /\ jwt' = regFor /\ reg' = "apply" /\ history' = history \ {"kept"}
  /\ UNCHANGED <<service, files, flags, link, slot, mutex, pass, tail, regFor, regCurrent, dog,
                 faults>>

\* Under mutex_: a sign-out that began since stores nothing.
RegStores ==
  /\ reg = "asked" /\ mutex = "nobody"
  /\ IF regCurrent = "yes"
     THEN /\ jwt' = regFor /\ reg' = "apply" /\ history' = history \ {"kept"}
          /\ UNCHANGED <<regFor, regCurrent>>
     ELSE RegEnds /\ UNCHANGED <<jwt, history>>
  /\ UNCHANGED <<service, files, flags, link, slot, mutex, pass, tail, dog, faults>>

\* SetRegistrationAuthState: against the sign-out's own epoch lock.
RegApplies ==
  /\ reg = "apply"
  /\ RegEnds
  /\ IF regCurrent = "yes"
     THEN flags' = flags \cup {"loggedIn"} /\ Ask("provider")
     ELSE UNCHANGED <<flags, slot, worker>>
  /\ UNCHANGED <<service, disk, link, mutex, req, tail, dog, faults, history>>

-----------------------------------------------------------------------------
\* Obligation::Load: a marker whose file cannot be looked up reads as none.
Load == IF "marker" \in files THEN {{"owed"}, {}} ELSE {{}}

\* The app ends anywhere and is launched again (Initialize): the obligation
\* and the credentials are what the disk says, and the first pass follows. A
\* tail cut off between its two writes leaves neither, and a sign-out that is
\* owed with no marker to read is forgotten.
AppRestarts ==
  /\ Fault
  /\ \E owed \in Load :
       /\ flags' = (IF jwt # Nobody THEN {"loggedIn"} ELSE {}) \cup owed
       /\ history' = (history \ {"missed", "kept"})
                      \cup (IF tail = "owe" \/ (Undelivered /\ owed = {}) THEN {"lost"} ELSE {})
  /\ link' = IF up = "up" THEN "live" ELSE "none"
  /\ slot' = IF jwt # Nobody THEN "ensure" ELSE "provider"
  /\ worker' = "top" /\ req' = "none" /\ mutex' = "nobody" /\ tail' = "off"
  /\ reg' = "none" /\ regFor' = Nobody /\ regCurrent' = "no" /\ dog' = "off"
  /\ UNCHANGED <<service, disk>>

Worker ==
  \/ WorkerTakes \/ WorkerDelivers \/ WorkerSettles
  \/ PassReconciles \/ PassDisconnects \/ PassDecides
  \/ BootChecks \/ BootDeclines \/ BootRetries
  \/ HelloAnswers \/ HelloFails \/ SessionAdopts \/ SessionDeclines \/ SessionStarts
  \/ ReconcileEnds \/ ReconcileStops \/ ReconcileBegins \/ ReconcileProvides

Tail ==
  \/ TailForgets \/ TailThrows \/ TailOwes \/ TailDelivers \/ TailSettles
  \/ TailTearsDown \/ TailFinishes

Watch == WatchEnds \/ WatchWakes \/ WatchAsks \/ WatchGivesUp \/ WatchLeaves

Registration ==
  \/ RegDefers \/ RegTearsDown \/ RegFails \/ RegStores \/ RegApplies

Next ==
  \/ \E kind \in Kinds : RequestSession(kind)
  \/ WorkerLocks \/ Worker
  \/ Logout \/ TailLocks \/ Tail
  \/ \E account \in Accounts : SignIn(account)
  \/ Registration \/ Watch \/ OnServiceDisconnected
  \/ ServiceEnds \/ ServiceStarts \/ PipeDrops \/ AppRestarts

Spec == Init /\ [][Next]_vars

\* Each thread goes on, a thread waiting for mutex_ is not passed over for
\* ever, and a service that ended is started again. Nothing is assumed of the
\* user or of faults, of which there are MaxFaults at most.
FairSpec ==
  /\ Spec
  /\ WF_vars(Worker) /\ SF_vars(WorkerLocks) /\ WF_vars(Tail) /\ SF_vars(TailLocks)
  /\ WF_vars(Watch) /\ WF_vars(OnServiceDisconnected) /\ WF_vars(ServiceStarts)

-----------------------------------------------------------------------------
Someone == Accounts \cup {Nobody}

\* Every variable stays in its range, and who holds mutex_ is inside it.
TypeOK ==
  /\ up \in {"up", "down"} /\ {tunnel, provider, identity, jwt, regFor} \subseteq Someone
  /\ files \subseteq {"marker", "saved"}
  /\ flags \subseteq {"loggedIn", "owed", "device", "userDisconnected", "recoveryNeeded"}
  /\ link \in {"none", "live", "dead"} /\ slot \in Kinds \cup {"none"}
  /\ worker \in {"none", "top", "lock", "settle", "settled", "plan", "boot", "session", "adopt",
                 "decline", "start", "reconcile", "provide"}
  /\ req \in Kinds \cup {"none"}
  /\ tail \in {"off", "lock", "local", "owe", "deliver", "settled", "teardown", "finish"}
  /\ reg \in {"none", "begun", "deferred", "asked", "apply"}
  /\ regCurrent \in {"yes", "no"}
  /\ dog \in {"off", "wait", "signedIn", "owing", "leaving", "left"}
  /\ faults \in 0 .. MaxFaults /\ history \subseteq {"lost", "kept", "identityKept", "missed"}
  /\ mutex = "worker" <=> worker \notin {"none", "top", "lock"}
  /\ mutex = "tail" <=> tail \notin {"off", "lock", "finish"}
  /\ mutex \in {"nobody", "worker", "tail"}

\* SignOut.h: "the next account never runs on the old identity". Whatever the
\* service runs, tunnel or provider, runs on the identity of its own account,
\* unless a sign-out was lost (cut off before it was recorded, or its marker not
\* written or not read) or the service's logout left the identity behind.
RunsOnOwnIdentity ==
  \/ "lost" \in history \/ "identityKept" \in history
  \/ {tunnel, provider} \subseteq {identity, Nobody}

\* An app that reads as signed out, with no sign-out running, owed or lost, has
\* left nothing with the service: no tunnel, no provider, and no identity but
\* one whose files the logout failed to remove.
SignedOutLeavesNothing ==
  ~Has("loggedIn") /\ tail = "off" /\ ~Has("owed") /\ "lost" \notin history
    => /\ tunnel = Nobody /\ provider = Nobody
       /\ identity = Nobody \/ "identityKept" \in history

\* A sign-out is not undone: once it is over and no registration is about to
\* sign in, no credentials are left for the next launch to sign in with,
\* whatever a registration that began before it got back from the api, unless
\* the local state failed to remove them.
SignedOutForgets ==
  ~Has("loggedIn") /\ tail = "off" /\ reg # "apply" /\ "kept" \notin history
    => jwt = Nobody

\* A request that waits in the slot has a worker that will look at it: a press
\* that meets a worker on its way out is not stranded.
SlotHasWorker == slot # "none" => worker # "none"

\* SignOut.h: while it is owed "the service watchdog keeps retrying, signed in
\* or not": it is delivered once faults end, unless the retry was asked of a
\* watchdog that was on its way out.
OwedIsDelivered ==
  Has("owed") /\ "missed" \notin history ~> ~Has("owed") \/ "missed" \in history

\* A sign-out's tail ends, behind whatever pass or registration holds mutex_,
\* and the window stops showing it.
SignOutEnds == tail # "off" ~> tail = "off"
=============================================================================
