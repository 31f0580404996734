-------------------------- MODULE InstanceHandover --------------------------
(***************************************************************************)
(* How a launch of the tray app reaches the one instance that runs: the    *)
(* launch's rounds of registering and redirecting (Launch, Launcher), the  *)
(* activation gate of the instance that holds the key (ActivationGate),    *)
(* and that instance's start and exit.                                     *)
(*                                                                         *)
(* Every process is a launch and may come to hold the key, so one set      *)
(* names both. Threads: a launch's main thread; in the holder, its UI      *)
(* thread and one App SDK threadpool thread per launch redirected to it.   *)
(* Budgets are not timed: a bounded wait may expire at any moment, and     *)
(* whether an update installs is asked of an arbitrary environment.        *)
(***************************************************************************)
EXTENDS Naturals

CONSTANTS
  Launches,   \* the processes
  Nobody,     \* no process
  Rounds      \* kLaunchRounds, per launch so that few processes meet both ends of it

ASSUME LaunchesAssumption == Nobody \notin Launches
ASSUME RoundsAssumption == Rounds \in [Launches -> Nat]

VARIABLES
  key,        \* the process the App SDK has registered for the key
  pc,         \* where the process's main thread is
  round,      \* Launch's round
  holder,     \* Launcher::holder_: the key's holder as the launch knows it
  att,        \* RedirectAttempt::result
  seesSignal, \* the launches whose HolderWatch has the holder's exiting signal open
  seesProcess,\* those whose HolderWatch has the holder's process open
  state,      \* ActivationGate::state_ of the process
  signal,     \* the processes whose exiting signal is raised
  exiting,    \* the UI thread's Close: no, raised, closed
  ui,         \* the processes whose UI thread takes posted work
  take,       \* the Activated handler of the launch, in its holder
  outcome,    \* Launch::outcome of its entry in launches_
  posted,     \* the launches with Launch::posted set
  abandoned,  \* those with Launch::abandoned set
  inMap,      \* those with an entry in their holder's launches_
  queued,     \* those whose ServePosted is in the UI thread's queue
  fate,       \* what Take returned
  acts,       \* how often the holder acted on the launch
  actedBy     \* history: the processes that ever did

launcher == <<key, pc, round, holder, att, seesSignal, seesProcess>>
instance == <<state, signal, exiting, ui>>
entry    == <<outcome, posted, abandoned, inMap, queued, acts, actedBy>>
handler  == <<take, fate>>
vars     == <<launcher, instance, entry, handler>>

Pcs     == {"new", "handoff", "top", "redirect", "check", "await", "register", "app",
            "leaving", "over"}
\* NotTaken: Failed, TimedOut, WaitFailed or NotStarted, which ReportFor tells apart.
Redirects == {"none", "Taken", "NotTaken", "HolderGone"}
Outcomes  == {"Undecided", "Served", "Refused"}
Takes     == {"idle", "sent", "posting", "closing", "refusing", "waiting", "returned", "lost"}

Init ==
  /\ key = Nobody
  /\ pc = [l \in Launches |-> "new"]
  /\ round = [l \in Launches |-> 0] /\ holder = [l \in Launches |-> Nobody]
  /\ att = [l \in Launches |-> "none"]
  /\ seesSignal = {} /\ seesProcess = {}
  /\ state = [l \in Launches |-> "Starting"] /\ signal = {}
  /\ exiting = [l \in Launches |-> "no"] /\ ui = Launches
  /\ take = [l \in Launches |-> "idle"] /\ fate = [l \in Launches |-> "none"]
  /\ outcome = [l \in Launches |-> "Undecided"]
  /\ posted = {} /\ abandoned = {}
  /\ inMap = {} /\ queued = {}
  /\ acts = [l \in Launches |-> 0] /\ actedBy = [l \in Launches |-> {}]

\* The process has ended; the handles that watch it are signalled.
Over(p) == pc[p] = "over"

\* A process that runs the code of a launch or of the app.
Runs(p) == pc[p] \notin {"new", "over"}

\* The launches redirected to instance h: theirs are the entries of its gate.
RedirectedTo(h) == {l \in Launches : holder[l] = h}

-----------------------------------------------------------------------------
(* The launch.                                                             *)

Goto(l, step) == pc' = [pc EXCEPT ![l] = step]

\* The watch and the attempt go with the Launcher or with its next Register.
DropWatch(l) ==
  /\ att' = [att EXCEPT ![l] = "none"]
  /\ seesSignal' = seesSignal \ {l}
  /\ seesProcess' = seesProcess \ {l}

\* Launch returns a LaunchResult other than Holder: the process says which, unless
\* it was handed over, and exits. Only the end of one that has the key is another's
\* to wait for.
Return(l) ==
  /\ Goto(l, IF key = l THEN "leaving" ELSE "over")
  /\ round' = [round EXCEPT ![l] = 0]
  /\ DropWatch(l)
  /\ UNCHANGED <<key, holder>>

\* AppInstance::FindOrRegisterForKey: the key's holder, or this process if the
\* key is free.
FindOrRegisterForKey(l) ==
  /\ key' = IF key = Nobody THEN l ELSE key
  /\ holder' = [holder EXCEPT ![l] = IF key = Nobody THEN l ELSE key]

\* wWinMain up to Launch: the exiting signal and the Activated handler come before
\* the key. A --relaunched process that finds the key held retries first.
Register1st(l) ==
  /\ pc[l] = "new"
  /\ \/ /\ FindOrRegisterForKey(l)
        /\ \/ Goto(l, "top")
           \/ key # Nobody /\ Goto(l, "handoff")
        /\ UNCHANGED <<round, att, seesSignal, seesProcess>>
     \/ Return(l)  \* RegistrationFailed
  /\ UNCHANGED <<instance, entry, handler>>

\* The relaunch handoff's bounded retry: the key freed, or it gave up (or threw).
RelaunchHandoff(l) ==
  /\ pc[l] = "handoff"
  /\ FindOrRegisterForKey(l) \/ UNCHANGED <<key, holder>>
  /\ Goto(l, "top")
  /\ UNCHANGED <<round, att, seesSignal, seesProcess, instance, entry, handler>>

\* The head of Launch's loop: an update installs, and the launch ends.
Updating(l) ==
  /\ pc[l] = "top"
  /\ Return(l) /\ UNCHANGED <<instance, entry, handler>>

\* OwnsKey: this process starts the app.
OwnsKey(l) ==
  /\ pc[l] = "top" /\ holder[l] = l
  /\ Goto(l, "app")
  /\ UNCHANGED <<key, round, holder, att, seesSignal, seesProcess, instance, entry, handler>>

\* The rounds have run out: StillClosing.
RoundsRunOut(l) ==
  /\ pc[l] = "top" /\ holder[l] # l /\ round[l] = Rounds[l]
  /\ Return(l) /\ UNCHANGED <<instance, entry, handler>>

\* Redirect finds no process of the holder's id: HolderGone at once.
FindsHolderGone(l) ==
  /\ pc[l] = "top" /\ holder[l] # l /\ round[l] # Rounds[l]
  /\ Over(holder[l]) /\ Goto(l, "register")
  /\ UNCHANGED <<key, round, holder, att, seesSignal, seesProcess, instance, entry, handler>>

\* Redirect watches the holder before it hands it anything. Either handle may fail
\* to open, an ended process opens only while its object is kept; the redirect
\* itself may fail to start.
Redirect(l) ==
  /\ pc[l] = "top" /\ holder[l] # l /\ round[l] # Rounds[l]
  /\ seesSignal' \in {seesSignal, seesSignal \cup {l}}
  /\ seesProcess' \in {seesProcess, seesProcess \cup {l}}
  /\ Over(holder[l]) => l \in seesProcess'
  /\ \/ /\ Goto(l, "redirect") /\ att' = [att EXCEPT ![l] = "none"]
        /\ take' = [take EXCEPT ![l] = "sent"]
     \/ /\ Goto(l, "check") /\ att' = [att EXCEPT ![l] = "NotTaken"]
        /\ UNCHANGED take
  /\ UNCHANGED <<key, round, holder, fate, instance, entry>>

\* AwaitRedirect: done (the handler returned, or the App SDK failed), the holder's
\* process, the budget, or a failed wait.
RedirectEnds(l) ==
  /\ pc[l] = "redirect"
  /\ \E r \in {"Taken", "NotTaken", "HolderGone"} :
       /\ r = "Taken" => take[l] = "returned"
       /\ r = "HolderGone" => l \in seesProcess /\ Over(holder[l])
       /\ att' = [att EXCEPT ![l] = r]
  /\ Goto(l, "check")
  /\ UNCHANGED <<key, round, holder, seesSignal, seesProcess, instance, entry, handler>>

\* HolderWatch::Exiting.
Exiting(l) ==
  \/ l \in seesSignal /\ holder[l] \in signal
  \/ l \in seesProcess /\ Over(holder[l])

\* Redirect's last read of the watch and AfterRedirect on it: Step::Exit, the
\* launch ends as handed over.
HandOver(l) ==
  /\ pc[l] = "check" /\ att[l] = "Taken" /\ ~Exiting(l)
  /\ Return(l) /\ UNCHANGED <<instance, entry, handler>>

\* Step::Report: ReportFor's message.
Report(l) ==
  /\ pc[l] = "check" /\ att[l] = "NotTaken" /\ ~Exiting(l)
  /\ Return(l) /\ UNCHANGED <<instance, entry, handler>>

\* Step::RegisterAgain, or AwaitHolderExitThenRegister unless an update installs.
FollowHolder(l) ==
  /\ pc[l] = "check"
  /\ \/ /\ Goto(l, IF att[l] = "HolderGone" THEN "register" ELSE "await")
        /\ att[l] = "HolderGone" \/ Exiting(l)
        /\ UNCHANGED <<key, round, holder, att, seesSignal, seesProcess>>
     \/ att[l] # "HolderGone" /\ Exiting(l) /\ Return(l)
  /\ UNCHANGED <<instance, entry, handler>>

\* Mutants: a wait that ran out registers all the same; a wait without a budget.
AwaitHolderExit_IgnoresResult(l) ==
  /\ pc[l] = "await" /\ Goto(l, "register")
  /\ UNCHANGED <<key, round, holder, att, seesSignal, seesProcess, instance, entry, handler>>

AwaitHolderExit_Forever(l) ==
  /\ pc[l] = "await" /\ l \in seesProcess /\ Over(holder[l]) /\ Goto(l, "register")
  /\ UNCHANGED <<key, round, holder, att, seesSignal, seesProcess, instance, entry, handler>>

\* AwaitHolderExit: the process ended, or the budget ran out (at once without a
\* handle to wait on).
AwaitHolderExit(l) ==
  /\ pc[l] = "await"
  /\ \/ /\ l \in seesProcess /\ Over(holder[l]) /\ Goto(l, "register")
        /\ UNCHANGED <<key, round, holder, att, seesSignal, seesProcess>>
     \/ Return(l)  \* StillClosing
  /\ UNCHANGED <<instance, entry, handler>>

\* Launcher::Register and the next round.
RegisterAgain(l) ==
  /\ pc[l] = "register"
  /\ \/ /\ FindOrRegisterForKey(l)
        /\ Goto(l, "top")
        /\ round' = [round EXCEPT ![l] = @ + 1]
        /\ DropWatch(l)
        /\ take' = [take EXCEPT ![l] = "idle"] /\ fate' = [fate EXCEPT ![l] = "none"]
     \/ Return(l) /\ UNCHANGED handler  \* RegistrationFailed
  /\ UNCHANGED <<instance, entry>>

-----------------------------------------------------------------------------
(* The holder: the Activated handler of a launch, on a threadpool thread.  *)

Handling(l, step) == take[l] = step /\ Runs(holder[l])
Continue(l, step) == take' = [take EXCEPT ![l] = step]

\* Take up to its post: refused by a closed gate, held while the instance starts,
\* otherwise about to be posted. Reading the activation may throw.
TakeBegins(l) ==
  /\ Handling(l, "sent")
  /\ \/ /\ state[holder[l]] = "Closed"
        /\ Continue(l, "returned") /\ fate' = [fate EXCEPT ![l] = "Refused"]
        /\ UNCHANGED entry
     \/ /\ state[holder[l]] # "Closed"
        /\ inMap' = inMap \cup {l}
        /\ posted' = IF state[holder[l]] = "Open" THEN posted \cup {l} ELSE posted
        /\ Continue(l, IF state[holder[l]] = "Open" THEN "posting" ELSE "waiting")
        /\ UNCHANGED <<fate, outcome, abandoned, queued, acts, actedBy>>
     \/ /\ Continue(l, "returned") /\ fate' = [fate EXCEPT ![l] = "Threw"]
        /\ UNCHANGED entry
  /\ UNCHANGED <<launcher, instance>>

\* post() outside the lock: DispatcherQueue::TryEnqueue, false once the UI thread
\* takes no more work.
TakePosts(l) ==
  /\ Handling(l, "posting")
  /\ \/ /\ holder[l] \in ui
        /\ queued' = queued \cup {l} /\ Continue(l, "waiting")
     \/ holder[l] \notin ui /\ Continue(l, "closing") /\ UNCHANGED queued
  /\ UNCHANGED <<launcher, instance, fate, outcome, posted, abandoned, inMap, acts, actedBy>>

\* Close's first statement: raiseExitingSignal_().
Raise(h) == signal' = signal \cup {h}

\* Close under stateLock_: every launch not yet served is refused, and an abandoned
\* one whose posted work will not run is dropped.
Close(h) ==
  IF state[h] = "Closed" THEN UNCHANGED <<state, outcome, inMap>>
  ELSE /\ state' = [state EXCEPT ![h] = "Closed"]
       /\ outcome' = [l \in Launches |->
            IF l \in RedirectedTo(h) \cap inMap /\ outcome[l] = "Undecided"
            THEN "Refused" ELSE outcome[l]]
       /\ inMap' = inMap \ ((RedirectedTo(h) \cap abandoned) \ posted)

\* Take's own Close, its UI thread having gone.
TakeRaises(l) ==
  /\ Handling(l, "closing") /\ Raise(holder[l]) /\ Continue(l, "refusing")
  /\ UNCHANGED <<launcher, entry, state, exiting, ui, fate>>

TakeCloses(l) ==
  /\ Handling(l, "refusing") /\ Close(holder[l]) /\ Continue(l, "waiting")
  /\ UNCHANGED <<launcher, signal, exiting, ui, posted, abandoned, queued, acts, actedBy, fate>>

\* Await finds the outcome decided and drops the entry.
AwaitDecided(l) ==
  /\ Handling(l, "waiting") /\ outcome[l] # "Undecided"
  /\ inMap' = inMap \ {l}
  /\ fate' = [fate EXCEPT ![l] = outcome[l]] /\ Continue(l, "returned")
  /\ UNCHANGED <<launcher, instance, outcome, posted, abandoned, queued, acts, actedBy>>

\* Await's deadline: the launch stays queued and nobody reads its outcome.
AwaitDeadline(l) ==
  /\ Handling(l, "waiting") /\ outcome[l] = "Undecided"
  /\ abandoned' = abandoned \cup {l}
  /\ fate' = [fate EXCEPT ![l] = "Undecided"] /\ Continue(l, "returned")
  /\ UNCHANGED <<launcher, instance, outcome, posted, inMap, queued, acts, actedBy>>

-----------------------------------------------------------------------------
(* The holder's UI thread and its process.                                 *)

\* The instance acts on the launches ls: AppController::ServeLaunch.
ServeLaunch(h, ls) ==
  /\ acts' = [l \in Launches |-> IF l \in ls THEN acts[l] + 1 ELSE acts[l]]
  /\ actedBy' = [l \in Launches |-> IF l \in ls THEN actedBy[l] \cup {h} ELSE actedBy[l]]

\* The UI thread is free for an item of its queue.
UiIdle(h) == pc[h] = "app" /\ h \in ui /\ exiting[h] # "raised"

\* Open, at the end of OnLaunched: serves what the gate held so far.
Open(h) ==
  /\ UiIdle(h) /\ exiting[h] = "no" /\ state[h] = "Starting"
  /\ LET held == RedirectedTo(h) \cap inMap
     IN  /\ outcome' = [l \in Launches |-> IF l \in held THEN "Served" ELSE outcome[l]]
         /\ inMap' = inMap \ (held \cap abandoned)
         /\ ServeLaunch(h, held)
  /\ state' = [state EXCEPT ![h] = "Open"]
  /\ UNCHANGED <<launcher, handler, signal, exiting, ui, posted, abandoned, queued>>

\* Mutant: serves a launch that was refused meanwhile.
ServePosted_IgnoresRefusal(h, l) ==
  /\ UiIdle(h) /\ l \in RedirectedTo(h) /\ l \in queued
  /\ queued' = queued \ {l}
  /\ ServeLaunch(h, IF l \in inMap THEN {l} ELSE {})
  /\ outcome' = [outcome EXCEPT ![l] = IF l \in inMap /\ @ = "Undecided" THEN "Served" ELSE @]
  /\ inMap' = inMap \ ({l} \cap abandoned)
  /\ UNCHANGED <<launcher, instance, handler, posted, abandoned>>

\* ServePosted: nothing for an entry that is gone or was refused meanwhile.
ServePosted(h, l) ==
  /\ UiIdle(h) /\ l \in RedirectedTo(h) /\ l \in queued
  /\ queued' = queued \ {l}
  /\ LET serves == l \in inMap /\ outcome[l] = "Undecided"
     IN  /\ outcome' = [outcome EXCEPT ![l] = IF serves THEN "Served" ELSE @]
         /\ ServeLaunch(h, IF serves THEN {l} ELSE {})
  /\ inMap' = inMap \ ({l} \cap abandoned)
  /\ UNCHANGED <<launcher, instance, handler, posted, abandoned>>

\* Mutant: refuses before the signal is raised.
BeginExiting_RefusesFirst(h) ==
  /\ UiIdle(h) /\ exiting[h] = "no"
  /\ Close(h) /\ exiting' = [exiting EXCEPT ![h] = "raised"]
  /\ UNCHANGED <<launcher, handler, posted, abandoned, queued, acts, actedBy, signal, ui>>

\* BeginExiting, the first thing every ending of the app does (Shutdown, a launch
\* that fails, an unhandled exception, Application::Start returning).
BeginExiting(h) ==
  /\ UiIdle(h) /\ exiting[h] = "no"
  /\ Raise(h) /\ exiting' = [exiting EXCEPT ![h] = "raised"]
  /\ UNCHANGED <<launcher, handler, entry, state, ui>>

ExitCloses(h) ==
  /\ pc[h] = "app" /\ exiting[h] = "raised"
  /\ Close(h) /\ exiting' = [exiting EXCEPT ![h] = "closed"]
  /\ UNCHANGED <<launcher, handler, signal, ui, posted, abandoned, queued, acts, actedBy>>

\* The UI thread's queue shuts down: posted work that has not run never will. An
\* abnormal end does it before any Close.
UiEnds(h) ==
  /\ UiIdle(h)
  /\ ui' = ui \ {h}
  /\ queued' = queued \ RedirectedTo(h)
  /\ UNCHANGED <<launcher, handler, state, signal, exiting, outcome, posted, abandoned, inMap,
                 acts, actedBy>>

\* The process ends: its gate, its queue and its handlers with it, and the App SDK
\* drops its key. A handler that had returned may have set the launch's event.
ProcessEnds(h) ==
  /\ pc[h] \in {"app", "leaving"}
  /\ Goto(h, "over") /\ key' = IF key = h THEN Nobody ELSE key
  /\ outcome' = [l \in Launches |-> IF l \in RedirectedTo(h) THEN "Undecided" ELSE outcome[l]]
  /\ acts' = [l \in Launches |-> IF l \in RedirectedTo(h) THEN 0 ELSE acts[l]]
  /\ inMap' = inMap \ RedirectedTo(h) /\ queued' = queued \ RedirectedTo(h)
  /\ posted' = posted \ RedirectedTo(h) /\ abandoned' = abandoned \ RedirectedTo(h)
  /\ take' = [l \in Launches |->
       IF l \in RedirectedTo(h) /\ take[l] \notin {"idle", "returned"} THEN "lost" ELSE take[l]]
  /\ UNCHANGED <<round, holder, att, seesSignal, seesProcess, instance, actedBy, fate>>

-----------------------------------------------------------------------------
\* One step of a launch's main thread.
Launch(l) ==
  \/ Register1st(l) \/ RelaunchHandoff(l) \/ Updating(l) \/ OwnsKey(l) \/ RoundsRunOut(l)
  \/ FindsHolderGone(l) \/ Redirect(l) \/ RedirectEnds(l) \/ HandOver(l)
  \/ Report(l) \/ FollowHolder(l) \/ AwaitHolderExit(l) \/ RegisterAgain(l)

\* One step of the handler that takes it in the holder.
Take(l) ==
  \/ TakeBegins(l) \/ TakePosts(l) \/ TakeRaises(l) \/ TakeCloses(l)
  \/ AwaitDecided(l) \/ AwaitDeadline(l)

\* One step of the app in a process that holds the key.
App(h) ==
  \/ Open(h) \/ BeginExiting(h) \/ ExitCloses(h) \/ UiEnds(h) \/ ProcessEnds(h)
  \/ \E l \in Launches : ServePosted(h, l)

Next == \E l \in Launches : Launch(l) \/ Take(l) \/ App(l)

Spec == Init /\ [][Next]_vars

\* Every thread of the code runs: a launch's, whose waits are all bounded, a
\* handler's, and the UI thread through Open, its queue and a Close it has begun. A
\* process that gives up exits. Nothing makes a user launch or quit.
FairSpec ==
  /\ Spec
  /\ \A l \in Launches :
       /\ WF_vars(pc[l] # "new" /\ Launch(l))
       /\ WF_vars(Take(l))
       /\ WF_vars(Open(l)) /\ WF_vars(ExitCloses(l))
       /\ WF_vars(pc[l] = "leaving" /\ ProcessEnds(l))
       /\ \A h \in Launches : WF_vars(ServePosted(h, l))

-----------------------------------------------------------------------------
(* Properties.                                                             *)

TypeOK ==
  /\ key \in Launches \cup {Nobody}
  /\ pc \in [Launches -> Pcs]
  /\ round \in [Launches -> Nat] /\ \A l \in Launches : round[l] <= Rounds[l]
  /\ holder \in [Launches -> Launches \cup {Nobody}]
  /\ att \in [Launches -> Redirects]
  /\ seesSignal \subseteq Launches /\ seesProcess \subseteq Launches
  /\ state \in [Launches -> {"Starting", "Open", "Closed"}]
  /\ signal \subseteq Launches
  /\ exiting \in [Launches -> {"no", "raised", "closed"}]
  /\ ui \subseteq Launches
  /\ take \in [Launches -> Takes] /\ fate \in [Launches -> Outcomes \cup {"none", "Threw"}]
  /\ outcome \in [Launches -> Outcomes]
  /\ posted \subseteq Launches /\ abandoned \subseteq Launches
  /\ inMap \subseteq Launches /\ queued \subseteq Launches
  /\ acts \in [Launches -> Nat] /\ actedBy \in [Launches -> SUBSET Launches]

\* A launch that ends as handed over was not refused by the instance it was handed
\* to: "a refused launch always finds the signal raised" (InstanceHandover.h),
\* whatever the order of its redirect, the exit and the handler. For a watch that
\* opened the signal.
HandedOverWasNotRefused ==
  [][\A l \in Launches :
       HandOver(l) /\ l \in seesSignal => fate[l] # "Refused"]_vars

\* Await's launches_.at(id) and find(id) find the entry: whoever erases an entry,
\* no handler is still between its emplace and its return.
AwaitFindsEntry ==
  \A l \in Launches : take[l] \in {"posting", "closing", "refusing", "waiting"} => l \in inMap

\* A launch's redirect is acted on exactly when its outcome is Served, and once: a
\* refused one starts the app itself, and must not open a second window here.
ActedOnOnceIfServed ==
  \A l \in Launches : acts[l] = IF outcome[l] = "Served" THEN 1 ELSE 0

\* An entry nobody waits for is still someone's to drop: the queue's if it was
\* posted (unless the UI thread has gone), the gate's opening or closing otherwise.
AbandonedEntryIsDropped ==
  \A l \in Launches :
    l \in inMap /\ take[l] = "returned" =>
      /\ l \in abandoned
      /\ IF l \in posted THEN l \in queued \/ holder[l] \notin ui ELSE state[holder[l]] = "Starting"

\* One live instance acts on a launch: a launch an instance acted on neither starts
\* the app nor takes another round while that instance runs.
OneInstanceActs ==
  \A l, h \in Launches :
    h \in actedBy[l] /\ Runs(h) => holder[l] = h /\ pc[l] \notin {"register", "app"}

\* Every launch comes to an end or holds the key: no wait and no cycle of rounds
\* keeps it.
LaunchEnds ==
  \A l \in Launches : pc[l] = "top" ~> pc[l] \in {"app", "leaving", "over"}
=============================================================================
