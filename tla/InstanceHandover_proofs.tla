---------------------- MODULE InstanceHandover_proofs ----------------------
(***************************************************************************)
(* Proofs about InstanceHandover, for any set of processes and any bounds  *)
(* on the rounds. The inductive invariant IInv has one part per idea:      *)
(* types, who has the key, what a request leaves in its holder's gate,     *)
(* that an ended holder has nothing left, that a refusal finds the signal  *)
(* raised, which entries are undecided, and who acted on what.             *)
(***************************************************************************)
EXTENDS InstanceHandover, TLAPS

Middle == {"posting", "closing", "refusing", "waiting"}

\* Nothing of the launch is in any gate.
Blank(l) ==
  /\ l \notin inMap /\ l \notin queued /\ l \notin posted /\ l \notin abandoned
  /\ outcome[l] = "Undecided" /\ acts[l] = 0

\* The key's holder runs, and any other process a launch takes for it has ended.
KeyInv ==
  /\ key # Nobody => pc[key] \in {"top", "app", "leaving"} /\ holder[key] = key
  /\ \A l \in Launches :
       /\ holder[l] # Nobody => key = holder[l] \/ Over(holder[l])
       /\ holder[l] = Nobody => pc[l] \in {"new", "over"} /\ take[l] = "idle"
       /\ pc[l] = "new" => holder[l] = Nobody
       /\ pc[l] \in {"app", "leaving"} => key = l
       /\ pc[l] \in {"redirect", "check", "await", "register", "handoff"} => holder[l] # l

\* A launch past a round's head has that round to spend.
RoundInv ==
  \A l \in Launches :
    pc[l] \in {"redirect", "check", "await", "register"} => round[l] < Rounds[l]

\* How far a launch's request is, and what that leaves in the gate.
EntryInv ==
  \A l \in Launches :
    /\ pc[l] \in {"new", "handoff", "top", "app", "leaving"} => take[l] = "idle"
    /\ holder[l] = l => take[l] = "idle"
    /\ take[l] \in {"idle", "sent", "lost"} => Blank(l) /\ fate[l] = "none"
    /\ take[l] \in Middle => l \in inMap /\ l \notin abandoned /\ fate[l] = "none"
    /\ take[l] \in {"posting", "closing", "refusing"} => l \in posted /\ l \notin queued
    /\ l \in inMap /\ take[l] = "returned" => l \in abandoned
    /\ l \in queued => l \in posted

\* What ends with its process.
EndInv ==
  \A l \in Launches :
    /\ holder[l] # Nobody /\ Over(holder[l]) => Blank(l) /\ take[l] \notin Middle
    /\ pc[l] = "register" \/ (pc[l] = "check" /\ att[l] = "HolderGone") => Over(holder[l])

\* The signal comes before every refusal.
SignalInv ==
  \A l \in Launches :
    /\ state[l] = "Closed" \/ exiting[l] # "no" => l \in signal
    /\ take[l] = "refusing" \/ outcome[l] = "Refused" \/ fate[l] = "Refused" => holder[l] \in signal

\* Whose turn it is to decide an undecided entry, and to drop an abandoned one.
DecideInv ==
  \A l \in Launches : l \in inMap =>
    /\ state[holder[l]] = "Closed" => outcome[l] # "Undecided"
    /\ state[holder[l]] = "Starting" => l \notin posted /\ outcome[l] = "Undecided"
    /\ l \notin posted /\ (outcome[l] = "Undecided" \/ l \in abandoned) =>
         state[holder[l]] = "Starting"
    /\ /\ l \in posted /\ take[l] \in {"waiting", "returned"}
       /\ outcome[l] = "Undecided" \/ l \in abandoned
       => l \in queued \/ holder[l] \notin ui

\* Who acted on a launch, and how often its present holder did.
ActInv ==
  \A l \in Launches :
    /\ acts[l] = IF outcome[l] = "Served" THEN 1 ELSE 0
    /\ l \notin actedBy[l]
    /\ pc[l] \in {"new", "handoff"} => actedBy[l] = {}
    /\ \A h \in actedBy[l] : pc[h] # "new" /\ (Runs(h) => holder[l] = h)

IInv ==
  /\ TypeOK /\ RoundInv /\ KeyInv /\ EntryInv /\ EndInv /\ SignalInv /\ DecideInv /\ ActInv

\* Every variable keeps its type, and no launch passes its last round.
LEMMA TypeStep == TypeOK /\ RoundInv /\ KeyInv /\ [Next]_vars => TypeOK'
<1> SUFFICES ASSUME TypeOK, RoundInv, KeyInv, [Next]_vars PROVE TypeOK'
  OBVIOUS
<1> USE LaunchesAssumption, RoundsAssumption
<1>1. ASSUME NEW x \in Launches, Register1st(x) PROVE TypeOK'
  BY <1>1
  DEF Register1st, Goto, Return, DropWatch, FindOrRegisterForKey, launcher, instance, entry,
      handler, TypeOK, Pcs, Redirects, Outcomes, Takes, RoundInv, KeyInv
<1>2. ASSUME NEW x \in Launches, RelaunchHandoff(x) PROVE TypeOK'
  BY <1>2
  DEF RelaunchHandoff, Goto, FindOrRegisterForKey, launcher, instance, entry, handler,
      TypeOK, Pcs, Redirects, Outcomes, Takes, RoundInv, KeyInv
<1>3. ASSUME NEW x \in Launches, Updating(x) PROVE TypeOK'
  BY <1>3
  DEF Updating, Goto, Return, DropWatch, launcher, instance, entry, handler, TypeOK, Pcs,
      Redirects, Outcomes, Takes, RoundInv, KeyInv
<1>4. ASSUME NEW x \in Launches, OwnsKey(x) PROVE TypeOK'
  BY <1>4
  DEF OwnsKey, Goto, launcher, instance, entry, handler, TypeOK, Pcs, Redirects, Outcomes,
      Takes, RoundInv, KeyInv
<1>5. ASSUME NEW x \in Launches, RoundsRunOut(x) PROVE TypeOK'
  BY <1>5
  DEF RoundsRunOut, Goto, Return, DropWatch, launcher, instance, entry, handler, TypeOK,
      Pcs, Redirects, Outcomes, Takes, RoundInv, KeyInv
<1>6. ASSUME NEW x \in Launches, FindsHolderGone(x) PROVE TypeOK'
  BY <1>6
  DEF FindsHolderGone, Goto, launcher, instance, entry, handler, TypeOK, Pcs, Redirects,
      Outcomes, Takes, RoundInv, KeyInv
<1>7. ASSUME NEW x \in Launches, Redirect(x) PROVE TypeOK'
  BY <1>7
  DEF Redirect, Goto, launcher, instance, entry, handler, TypeOK, Pcs, Redirects, Outcomes,
      Takes, RoundInv, KeyInv
<1>8. ASSUME NEW x \in Launches, RedirectEnds(x) PROVE TypeOK'
  BY <1>8
  DEF RedirectEnds, Goto, launcher, instance, entry, handler, TypeOK, Pcs, Redirects,
      Outcomes, Takes, RoundInv, KeyInv
<1>9. ASSUME NEW x \in Launches, HandOver(x) PROVE TypeOK'
  BY <1>9
  DEF HandOver, Goto, Return, DropWatch, launcher, instance, entry, handler, TypeOK, Pcs,
      Redirects, Outcomes, Takes, RoundInv, KeyInv
<1>10. ASSUME NEW x \in Launches, Report(x) PROVE TypeOK'
  BY <1>10
  DEF Report, Goto, Return, DropWatch, launcher, instance, entry, handler, TypeOK, Pcs,
      Redirects, Outcomes, Takes, RoundInv, KeyInv
<1>11. ASSUME NEW x \in Launches, FollowHolder(x) PROVE TypeOK'
  BY <1>11
  DEF FollowHolder, Goto, Return, DropWatch, launcher, instance, entry, handler, TypeOK,
      Pcs, Redirects, Outcomes, Takes, RoundInv, KeyInv
<1>12. ASSUME NEW x \in Launches, AwaitHolderExit(x) PROVE TypeOK'
  BY <1>12
  DEF AwaitHolderExit, Goto, Return, DropWatch, launcher, instance, entry, handler, TypeOK,
      Pcs, Redirects, Outcomes, Takes, RoundInv, KeyInv
<1>13. ASSUME NEW x \in Launches, RegisterAgain(x) PROVE TypeOK'
  BY <1>13
  DEF RegisterAgain, Goto, Return, DropWatch, FindOrRegisterForKey, launcher, instance,
      entry, handler, TypeOK, Pcs, Redirects, Outcomes, Takes, RoundInv, KeyInv
<1>14. ASSUME NEW x \in Launches, TakeBegins(x) PROVE TypeOK'
  BY <1>14
  DEF TakeBegins, Handling, Continue, launcher, instance, entry, handler, TypeOK, Pcs,
      Redirects, Outcomes, Takes, RoundInv, KeyInv
<1>15. ASSUME NEW x \in Launches, TakePosts(x) PROVE TypeOK'
  BY <1>15
  DEF TakePosts, Handling, Continue, launcher, instance, entry, handler, TypeOK, Pcs,
      Redirects, Outcomes, Takes, RoundInv, KeyInv
<1>16. ASSUME NEW x \in Launches, TakeRaises(x) PROVE TypeOK'
  BY <1>16
  DEF TakeRaises, Handling, Continue, Raise, launcher, instance, entry, handler, TypeOK,
      Pcs, Redirects, Outcomes, Takes, RoundInv, KeyInv
<1>17. ASSUME NEW x \in Launches, TakeCloses(x) PROVE TypeOK'
  BY <1>17
  DEF TakeCloses, Handling, Continue, Close, RedirectedTo, launcher, instance, entry,
      handler, TypeOK, Pcs, Redirects, Outcomes, Takes, RoundInv, KeyInv
<1>18. ASSUME NEW x \in Launches, AwaitDecided(x) PROVE TypeOK'
  BY <1>18
  DEF AwaitDecided, Handling, Continue, launcher, instance, entry, handler, TypeOK, Pcs,
      Redirects, Outcomes, Takes, RoundInv, KeyInv
<1>19. ASSUME NEW x \in Launches, AwaitDeadline(x) PROVE TypeOK'
  BY <1>19
  DEF AwaitDeadline, Handling, Continue, launcher, instance, entry, handler, TypeOK, Pcs,
      Redirects, Outcomes, Takes, RoundInv, KeyInv
<1>20. ASSUME NEW x \in Launches, Open(x) PROVE TypeOK'
  BY <1>20
  DEF Open, UiIdle, ServeLaunch, RedirectedTo, launcher, instance, entry, handler, TypeOK,
      Pcs, Redirects, Outcomes, Takes, RoundInv, KeyInv
<1>21. ASSUME NEW x \in Launches, BeginExiting(x) PROVE TypeOK'
  BY <1>21
  DEF BeginExiting, UiIdle, Raise, launcher, instance, entry, handler, TypeOK, Pcs,
      Redirects, Outcomes, Takes, RoundInv, KeyInv
<1>22. ASSUME NEW x \in Launches, ExitCloses(x) PROVE TypeOK'
  BY <1>22
  DEF ExitCloses, UiIdle, Close, RedirectedTo, launcher, instance, entry, handler, TypeOK,
      Pcs, Redirects, Outcomes, Takes, RoundInv, KeyInv
<1>23. ASSUME NEW x \in Launches, UiEnds(x) PROVE TypeOK'
  BY <1>23
  DEF UiEnds, UiIdle, RedirectedTo, launcher, instance, entry, handler, TypeOK, Pcs,
      Redirects, Outcomes, Takes, RoundInv, KeyInv
<1>24. ASSUME NEW x \in Launches, ProcessEnds(x) PROVE TypeOK'
  BY <1>24
  DEF ProcessEnds, Goto, RedirectedTo, launcher, instance, entry, handler, TypeOK, Pcs,
      Redirects, Outcomes, Takes, RoundInv, KeyInv
<1>25. ASSUME NEW x \in Launches, NEW y \in Launches, ServePosted(x, y) PROVE TypeOK'
  BY <1>25
  DEF ServePosted, UiIdle, ServeLaunch, RedirectedTo, launcher, instance, entry, handler,
      TypeOK, Pcs, Redirects, Outcomes, Takes, RoundInv, KeyInv
<1>26. CASE UNCHANGED vars
  BY <1>26
  DEF vars, launcher, instance, entry, handler, TypeOK, Pcs, Redirects, Outcomes, Takes,
      RoundInv, KeyInv
<1> QED
  BY <1>1, <1>2, <1>3, <1>4, <1>5, <1>6, <1>7, <1>8, <1>9, <1>10, <1>11, <1>12, <1>13,
     <1>14, <1>15, <1>16, <1>17, <1>18, <1>19, <1>20, <1>21, <1>22, <1>23, <1>24, <1>25,
     <1>26
  DEF Next, Launch, Take, App

\* A launch past a round's head has that round to spend.
LEMMA RoundStep == RoundInv /\ TypeOK /\ [Next]_vars => RoundInv'
<1> SUFFICES ASSUME RoundInv, TypeOK, [Next]_vars PROVE RoundInv'
  OBVIOUS
<1> USE LaunchesAssumption, RoundsAssumption
<1>1. ASSUME NEW x \in Launches, Register1st(x) PROVE RoundInv'
  BY <1>1
  DEF Register1st, Goto, Return, DropWatch, FindOrRegisterForKey, launcher, instance, entry,
      handler, RoundInv, TypeOK
<1>2. ASSUME NEW x \in Launches, RelaunchHandoff(x) PROVE RoundInv'
  BY <1>2
  DEF RelaunchHandoff, Goto, FindOrRegisterForKey, launcher, instance, entry, handler,
      RoundInv, TypeOK
<1>3. ASSUME NEW x \in Launches, Updating(x) PROVE RoundInv'
  BY <1>3
  DEF Updating, Goto, Return, DropWatch, launcher, instance, entry, handler, RoundInv,
      TypeOK
<1>4. ASSUME NEW x \in Launches, OwnsKey(x) PROVE RoundInv'
  BY <1>4 DEF OwnsKey, Goto, launcher, instance, entry, handler, RoundInv, TypeOK
<1>5. ASSUME NEW x \in Launches, RoundsRunOut(x) PROVE RoundInv'
  BY <1>5
  DEF RoundsRunOut, Goto, Return, DropWatch, launcher, instance, entry, handler, RoundInv,
      TypeOK
<1>6. ASSUME NEW x \in Launches, FindsHolderGone(x) PROVE RoundInv'
  BY <1>6 DEF FindsHolderGone, Goto, launcher, instance, entry, handler, RoundInv, TypeOK
<1>7. ASSUME NEW x \in Launches, Redirect(x) PROVE RoundInv'
  BY <1>7 DEF Redirect, Goto, launcher, instance, entry, handler, RoundInv, TypeOK
<1>8. ASSUME NEW x \in Launches, RedirectEnds(x) PROVE RoundInv'
  BY <1>8 DEF RedirectEnds, Goto, launcher, instance, entry, handler, RoundInv, TypeOK
<1>9. ASSUME NEW x \in Launches, HandOver(x) PROVE RoundInv'
  BY <1>9
  DEF HandOver, Goto, Return, DropWatch, launcher, instance, entry, handler, RoundInv,
      TypeOK
<1>10. ASSUME NEW x \in Launches, Report(x) PROVE RoundInv'
  BY <1>10
  DEF Report, Goto, Return, DropWatch, launcher, instance, entry, handler, RoundInv, TypeOK
<1>11. ASSUME NEW x \in Launches, FollowHolder(x) PROVE RoundInv'
  BY <1>11
  DEF FollowHolder, Goto, Return, DropWatch, launcher, instance, entry, handler, RoundInv,
      TypeOK
<1>12. ASSUME NEW x \in Launches, AwaitHolderExit(x) PROVE RoundInv'
  BY <1>12
  DEF AwaitHolderExit, Goto, Return, DropWatch, launcher, instance, entry, handler,
      RoundInv, TypeOK
<1>13. ASSUME NEW x \in Launches, RegisterAgain(x) PROVE RoundInv'
  BY <1>13
  DEF RegisterAgain, Goto, Return, DropWatch, FindOrRegisterForKey, launcher, instance,
      entry, handler, RoundInv, TypeOK
<1>14. ASSUME NEW x \in Launches, TakeBegins(x) PROVE RoundInv'
  BY <1>14
  DEF TakeBegins, Handling, Continue, launcher, instance, entry, handler, RoundInv, TypeOK
<1>15. ASSUME NEW x \in Launches, TakePosts(x) PROVE RoundInv'
  BY <1>15
  DEF TakePosts, Handling, Continue, launcher, instance, entry, handler, RoundInv, TypeOK
<1>16. ASSUME NEW x \in Launches, TakeRaises(x) PROVE RoundInv'
  BY <1>16
  DEF TakeRaises, Handling, Continue, Raise, launcher, instance, entry, handler, RoundInv,
      TypeOK
<1>17. ASSUME NEW x \in Launches, TakeCloses(x) PROVE RoundInv'
  BY <1>17
  DEF TakeCloses, Handling, Continue, Close, RedirectedTo, launcher, instance, entry,
      handler, RoundInv, TypeOK
<1>18. ASSUME NEW x \in Launches, AwaitDecided(x) PROVE RoundInv'
  BY <1>18
  DEF AwaitDecided, Handling, Continue, launcher, instance, entry, handler, RoundInv, TypeOK
<1>19. ASSUME NEW x \in Launches, AwaitDeadline(x) PROVE RoundInv'
  BY <1>19
  DEF AwaitDeadline, Handling, Continue, launcher, instance, entry, handler, RoundInv,
      TypeOK
<1>20. ASSUME NEW x \in Launches, Open(x) PROVE RoundInv'
  BY <1>20
  DEF Open, UiIdle, ServeLaunch, RedirectedTo, launcher, instance, entry, handler, RoundInv,
      TypeOK
<1>21. ASSUME NEW x \in Launches, BeginExiting(x) PROVE RoundInv'
  BY <1>21 DEF BeginExiting, UiIdle, Raise, launcher, instance, entry, handler, RoundInv, TypeOK
<1>22. ASSUME NEW x \in Launches, ExitCloses(x) PROVE RoundInv'
  BY <1>22
  DEF ExitCloses, UiIdle, Close, RedirectedTo, launcher, instance, entry, handler, RoundInv,
      TypeOK
<1>23. ASSUME NEW x \in Launches, UiEnds(x) PROVE RoundInv'
  BY <1>23
  DEF UiEnds, UiIdle, RedirectedTo, launcher, instance, entry, handler, RoundInv, TypeOK
<1>24. ASSUME NEW x \in Launches, ProcessEnds(x) PROVE RoundInv'
  BY <1>24
  DEF ProcessEnds, Goto, RedirectedTo, launcher, instance, entry, handler, RoundInv, TypeOK
<1>25. ASSUME NEW x \in Launches, NEW y \in Launches, ServePosted(x, y) PROVE RoundInv'
  BY <1>25
  DEF ServePosted, UiIdle, ServeLaunch, RedirectedTo, launcher, instance, entry, handler,
      RoundInv, TypeOK
<1>26. CASE UNCHANGED vars
  BY <1>26 DEF vars, launcher, instance, entry, handler, RoundInv, TypeOK
<1> QED
  BY <1>1, <1>2, <1>3, <1>4, <1>5, <1>6, <1>7, <1>8, <1>9, <1>10, <1>11, <1>12, <1>13,
     <1>14, <1>15, <1>16, <1>17, <1>18, <1>19, <1>20, <1>21, <1>22, <1>23, <1>24, <1>25,
     <1>26
  DEF Next, Launch, Take, App

\* The key's holder runs; any other process taken for it has ended.
LEMMA KeyStep == KeyInv /\ TypeOK /\ EntryInv /\ [Next]_vars => KeyInv'
<1> SUFFICES ASSUME KeyInv, TypeOK, EntryInv, [Next]_vars PROVE KeyInv'
  OBVIOUS
<1> USE LaunchesAssumption, RoundsAssumption
<1>1. ASSUME NEW x \in Launches, Register1st(x) PROVE KeyInv'
  BY <1>1
  DEF Register1st, Goto, Return, DropWatch, FindOrRegisterForKey, launcher, instance, entry,
      handler, KeyInv, TypeOK, EntryInv, Over
<1>2. ASSUME NEW x \in Launches, RelaunchHandoff(x) PROVE KeyInv'
  BY <1>2
  DEF RelaunchHandoff, Goto, FindOrRegisterForKey, launcher, instance, entry, handler,
      KeyInv, TypeOK, EntryInv, Over
<1>3. ASSUME NEW x \in Launches, Updating(x) PROVE KeyInv'
  BY <1>3
  DEF Updating, Goto, Return, DropWatch, launcher, instance, entry, handler, KeyInv, TypeOK,
      EntryInv, Over
<1>4. ASSUME NEW x \in Launches, OwnsKey(x) PROVE KeyInv'
  BY <1>4 DEF OwnsKey, Goto, launcher, instance, entry, handler, KeyInv, TypeOK, EntryInv, Over
<1>5. ASSUME NEW x \in Launches, RoundsRunOut(x) PROVE KeyInv'
  BY <1>5
  DEF RoundsRunOut, Goto, Return, DropWatch, launcher, instance, entry, handler, KeyInv,
      TypeOK, EntryInv, Over
<1>6. ASSUME NEW x \in Launches, FindsHolderGone(x) PROVE KeyInv'
  BY <1>6
  DEF FindsHolderGone, Goto, launcher, instance, entry, handler, KeyInv, TypeOK, EntryInv,
      Over
<1>7. ASSUME NEW x \in Launches, Redirect(x) PROVE KeyInv'
  BY <1>7 DEF Redirect, Goto, launcher, instance, entry, handler, KeyInv, TypeOK, EntryInv, Over
<1>8. ASSUME NEW x \in Launches, RedirectEnds(x) PROVE KeyInv'
  BY <1>8
  DEF RedirectEnds, Goto, launcher, instance, entry, handler, KeyInv, TypeOK, EntryInv, Over
<1>9. ASSUME NEW x \in Launches, HandOver(x) PROVE KeyInv'
  BY <1>9
  DEF HandOver, Goto, Return, DropWatch, launcher, instance, entry, handler, KeyInv, TypeOK,
      EntryInv, Over
<1>10. ASSUME NEW x \in Launches, Report(x) PROVE KeyInv'
  BY <1>10
  DEF Report, Goto, Return, DropWatch, launcher, instance, entry, handler, KeyInv, TypeOK,
      EntryInv, Over
<1>11. ASSUME NEW x \in Launches, FollowHolder(x) PROVE KeyInv'
  BY <1>11
  DEF FollowHolder, Goto, Return, DropWatch, launcher, instance, entry, handler, KeyInv,
      TypeOK, EntryInv, Over
<1>12. ASSUME NEW x \in Launches, AwaitHolderExit(x) PROVE KeyInv'
  BY <1>12
  DEF AwaitHolderExit, Goto, Return, DropWatch, launcher, instance, entry, handler, KeyInv,
      TypeOK, EntryInv, Over
<1>13. ASSUME NEW x \in Launches, RegisterAgain(x) PROVE KeyInv'
  BY <1>13
  DEF RegisterAgain, Goto, Return, DropWatch, FindOrRegisterForKey, launcher, instance,
      entry, handler, KeyInv, TypeOK, EntryInv, Over
<1>14. ASSUME NEW x \in Launches, TakeBegins(x) PROVE KeyInv'
  BY <1>14
  DEF TakeBegins, Handling, Continue, launcher, instance, entry, handler, KeyInv, TypeOK,
      EntryInv, Over
<1>15. ASSUME NEW x \in Launches, TakePosts(x) PROVE KeyInv'
  BY <1>15
  DEF TakePosts, Handling, Continue, launcher, instance, entry, handler, KeyInv, TypeOK,
      EntryInv, Over
<1>16. ASSUME NEW x \in Launches, TakeRaises(x) PROVE KeyInv'
  BY <1>16
  DEF TakeRaises, Handling, Continue, Raise, launcher, instance, entry, handler, KeyInv,
      TypeOK, EntryInv, Over
<1>17. ASSUME NEW x \in Launches, TakeCloses(x) PROVE KeyInv'
  BY <1>17
  DEF TakeCloses, Handling, Continue, Close, RedirectedTo, launcher, instance, entry,
      handler, KeyInv, TypeOK, EntryInv, Over
<1>18. ASSUME NEW x \in Launches, AwaitDecided(x) PROVE KeyInv'
  BY <1>18
  DEF AwaitDecided, Handling, Continue, launcher, instance, entry, handler, KeyInv, TypeOK,
      EntryInv, Over
<1>19. ASSUME NEW x \in Launches, AwaitDeadline(x) PROVE KeyInv'
  BY <1>19
  DEF AwaitDeadline, Handling, Continue, launcher, instance, entry, handler, KeyInv, TypeOK,
      EntryInv, Over
<1>20. ASSUME NEW x \in Launches, Open(x) PROVE KeyInv'
  BY <1>20
  DEF Open, UiIdle, ServeLaunch, RedirectedTo, launcher, instance, entry, handler, KeyInv,
      TypeOK, EntryInv, Over
<1>21. ASSUME NEW x \in Launches, BeginExiting(x) PROVE KeyInv'
  BY <1>21
  DEF BeginExiting, UiIdle, Raise, launcher, instance, entry, handler, KeyInv, TypeOK,
      EntryInv, Over
<1>22. ASSUME NEW x \in Launches, ExitCloses(x) PROVE KeyInv'
  BY <1>22
  DEF ExitCloses, UiIdle, Close, RedirectedTo, launcher, instance, entry, handler, KeyInv,
      TypeOK, EntryInv, Over
<1>23. ASSUME NEW x \in Launches, UiEnds(x) PROVE KeyInv'
  BY <1>23
  DEF UiEnds, UiIdle, RedirectedTo, launcher, instance, entry, handler, KeyInv, TypeOK,
      EntryInv, Over
<1>24. ASSUME NEW x \in Launches, ProcessEnds(x) PROVE KeyInv'
  BY <1>24
  DEF ProcessEnds, Goto, RedirectedTo, launcher, instance, entry, handler, KeyInv, TypeOK,
      EntryInv, Over
<1>25. ASSUME NEW x \in Launches, NEW y \in Launches, ServePosted(x, y) PROVE KeyInv'
  BY <1>25
  DEF ServePosted, UiIdle, ServeLaunch, RedirectedTo, launcher, instance, entry, handler,
      KeyInv, TypeOK, EntryInv, Over
<1>26. CASE UNCHANGED vars
  BY <1>26 DEF vars, launcher, instance, entry, handler, KeyInv, TypeOK, EntryInv, Over
<1> QED
  BY <1>1, <1>2, <1>3, <1>4, <1>5, <1>6, <1>7, <1>8, <1>9, <1>10, <1>11, <1>12, <1>13,
     <1>14, <1>15, <1>16, <1>17, <1>18, <1>19, <1>20, <1>21, <1>22, <1>23, <1>24, <1>25,
     <1>26
  DEF Next, Launch, Take, App

\* What a launch's request leaves in the gate.
LEMMA EntryStep ==
  EntryInv /\ TypeOK /\ KeyInv /\ EndInv /\ DecideInv /\ [Next]_vars => EntryInv'
<1> SUFFICES ASSUME EntryInv, TypeOK, KeyInv, EndInv, DecideInv, [Next]_vars PROVE EntryInv'
  OBVIOUS
<1> USE LaunchesAssumption, RoundsAssumption
<1>1. ASSUME NEW x \in Launches, Register1st(x) PROVE EntryInv'
  BY <1>1
  DEF Register1st, Goto, Return, DropWatch, FindOrRegisterForKey, launcher, instance, entry,
      handler, EntryInv, Blank, Middle, TypeOK, KeyInv, EndInv, DecideInv, Over, Runs
<1>2. ASSUME NEW x \in Launches, RelaunchHandoff(x) PROVE EntryInv'
  BY <1>2
  DEF RelaunchHandoff, Goto, FindOrRegisterForKey, launcher, instance, entry, handler,
      EntryInv, Blank, Middle, TypeOK, KeyInv, EndInv, DecideInv, Over, Runs
<1>3. ASSUME NEW x \in Launches, Updating(x) PROVE EntryInv'
  BY <1>3
  DEF Updating, Goto, Return, DropWatch, launcher, instance, entry, handler, EntryInv,
      Blank, Middle, TypeOK, KeyInv, EndInv, DecideInv, Over, Runs
<1>4. ASSUME NEW x \in Launches, OwnsKey(x) PROVE EntryInv'
  BY <1>4
  DEF OwnsKey, Goto, launcher, instance, entry, handler, EntryInv, Blank, Middle, TypeOK,
      KeyInv, EndInv, DecideInv, Over, Runs
<1>5. ASSUME NEW x \in Launches, RoundsRunOut(x) PROVE EntryInv'
  BY <1>5
  DEF RoundsRunOut, Goto, Return, DropWatch, launcher, instance, entry, handler, EntryInv,
      Blank, Middle, TypeOK, KeyInv, EndInv, DecideInv, Over, Runs
<1>6. ASSUME NEW x \in Launches, FindsHolderGone(x) PROVE EntryInv'
  BY <1>6
  DEF FindsHolderGone, Goto, launcher, instance, entry, handler, EntryInv, Blank, Middle,
      TypeOK, KeyInv, EndInv, DecideInv, Over, Runs
<1>7. ASSUME NEW x \in Launches, Redirect(x) PROVE EntryInv'
  BY <1>7
  DEF Redirect, Goto, launcher, instance, entry, handler, EntryInv, Blank, Middle, TypeOK,
      KeyInv, EndInv, DecideInv, Over, Runs
<1>8. ASSUME NEW x \in Launches, RedirectEnds(x) PROVE EntryInv'
  BY <1>8
  DEF RedirectEnds, Goto, launcher, instance, entry, handler, EntryInv, Blank, Middle,
      TypeOK, KeyInv, EndInv, DecideInv, Over, Runs
<1>9. ASSUME NEW x \in Launches, HandOver(x) PROVE EntryInv'
  BY <1>9
  DEF HandOver, Goto, Return, DropWatch, launcher, instance, entry, handler, EntryInv,
      Blank, Middle, TypeOK, KeyInv, EndInv, DecideInv, Over, Runs
<1>10. ASSUME NEW x \in Launches, Report(x) PROVE EntryInv'
  BY <1>10
  DEF Report, Goto, Return, DropWatch, launcher, instance, entry, handler, EntryInv, Blank,
      Middle, TypeOK, KeyInv, EndInv, DecideInv, Over, Runs
<1>11. ASSUME NEW x \in Launches, FollowHolder(x) PROVE EntryInv'
  BY <1>11
  DEF FollowHolder, Goto, Return, DropWatch, launcher, instance, entry, handler, EntryInv,
      Blank, Middle, TypeOK, KeyInv, EndInv, DecideInv, Over, Runs
<1>12. ASSUME NEW x \in Launches, AwaitHolderExit(x) PROVE EntryInv'
  BY <1>12
  DEF AwaitHolderExit, Goto, Return, DropWatch, launcher, instance, entry, handler,
      EntryInv, Blank, Middle, TypeOK, KeyInv, EndInv, DecideInv, Over, Runs
<1>13. ASSUME NEW x \in Launches, RegisterAgain(x) PROVE EntryInv'
  BY <1>13
  DEF RegisterAgain, Goto, Return, DropWatch, FindOrRegisterForKey, launcher, instance,
      entry, handler, EntryInv, Blank, Middle, TypeOK, KeyInv, EndInv, DecideInv, Over, Runs
<1>14. ASSUME NEW x \in Launches, TakeBegins(x) PROVE EntryInv'
  BY <1>14
  DEF TakeBegins, Handling, Continue, launcher, instance, entry, handler, EntryInv, Blank,
      Middle, TypeOK, KeyInv, EndInv, DecideInv, Over, Runs
<1>15. ASSUME NEW x \in Launches, TakePosts(x) PROVE EntryInv'
  BY <1>15
  DEF TakePosts, Handling, Continue, launcher, instance, entry, handler, EntryInv, Blank,
      Middle, TypeOK, KeyInv, EndInv, DecideInv, Over, Runs
<1>16. ASSUME NEW x \in Launches, TakeRaises(x) PROVE EntryInv'
  BY <1>16
  DEF TakeRaises, Handling, Continue, Raise, launcher, instance, entry, handler, EntryInv,
      Blank, Middle, TypeOK, KeyInv, EndInv, DecideInv, Over, Runs
<1>17. ASSUME NEW x \in Launches, TakeCloses(x) PROVE EntryInv'
  BY <1>17
  DEF TakeCloses, Handling, Continue, Close, RedirectedTo, launcher, instance, entry,
      handler, EntryInv, Blank, Middle, TypeOK, KeyInv, EndInv, DecideInv, Over, Runs
<1>18. ASSUME NEW x \in Launches, AwaitDecided(x) PROVE EntryInv'
  BY <1>18
  DEF AwaitDecided, Handling, Continue, launcher, instance, entry, handler, EntryInv, Blank,
      Middle, TypeOK, KeyInv, EndInv, DecideInv, Over, Runs
<1>19. ASSUME NEW x \in Launches, AwaitDeadline(x) PROVE EntryInv'
  BY <1>19
  DEF AwaitDeadline, Handling, Continue, launcher, instance, entry, handler, EntryInv,
      Blank, Middle, TypeOK, KeyInv, EndInv, DecideInv, Over, Runs
<1>20. ASSUME NEW x \in Launches, Open(x) PROVE EntryInv'
  BY <1>20
  DEF Open, UiIdle, ServeLaunch, RedirectedTo, launcher, instance, entry, handler, EntryInv,
      Blank, Middle, TypeOK, KeyInv, EndInv, DecideInv, Over, Runs
<1>21. ASSUME NEW x \in Launches, BeginExiting(x) PROVE EntryInv'
  BY <1>21
  DEF BeginExiting, UiIdle, Raise, launcher, instance, entry, handler, EntryInv, Blank,
      Middle, TypeOK, KeyInv, EndInv, DecideInv, Over, Runs
<1>22. ASSUME NEW x \in Launches, ExitCloses(x) PROVE EntryInv'
  BY <1>22
  DEF ExitCloses, UiIdle, Close, RedirectedTo, launcher, instance, entry, handler, EntryInv,
      Blank, Middle, TypeOK, KeyInv, EndInv, DecideInv, Over, Runs
<1>23. ASSUME NEW x \in Launches, UiEnds(x) PROVE EntryInv'
  BY <1>23
  DEF UiEnds, UiIdle, RedirectedTo, launcher, instance, entry, handler, EntryInv, Blank,
      Middle, TypeOK, KeyInv, EndInv, DecideInv, Over, Runs
<1>24. ASSUME NEW x \in Launches, ProcessEnds(x) PROVE EntryInv'
  <2> SUFFICES ASSUME NEW l \in Launches PROVE EntryInv!(l)'
    BY DEF EntryInv
  <2>1. pc'[l] \in {"new", "handoff", "top", "app", "leaving"} => pc[l] = pc'[l]
    BY <1>24 DEF ProcessEnds, Goto, TypeOK
  <2>2. CASE holder[l] = x
    BY <1>24, <2>1, <2>2
    DEF ProcessEnds, RedirectedTo, launcher, instance, entry, handler, EntryInv, Blank,
        Middle, TypeOK, Takes
  <2>3. CASE holder[l] # x
    BY <1>24, <2>1, <2>3
    DEF ProcessEnds, RedirectedTo, launcher, instance, entry, handler, EntryInv, Blank,
        Middle, TypeOK
  <2> QED
    BY <2>2, <2>3
<1>25. ASSUME NEW x \in Launches, NEW y \in Launches, ServePosted(x, y) PROVE EntryInv'
  BY <1>25
  DEF ServePosted, UiIdle, ServeLaunch, RedirectedTo, launcher, instance, entry, handler,
      EntryInv, Blank, Middle, TypeOK, KeyInv, EndInv, DecideInv, Over, Runs
<1>26. CASE UNCHANGED vars
  BY <1>26
  DEF vars, launcher, instance, entry, handler, EntryInv, Blank, Middle, TypeOK, KeyInv,
      EndInv, DecideInv, Over, Runs
<1> QED
  BY <1>1, <1>2, <1>3, <1>4, <1>5, <1>6, <1>7, <1>8, <1>9, <1>10, <1>11, <1>12, <1>13,
     <1>14, <1>15, <1>16, <1>17, <1>18, <1>19, <1>20, <1>21, <1>22, <1>23, <1>24, <1>25,
     <1>26
  DEF Next, Launch, Take, App

\* An ended holder has nothing left of a launch.
LEMMA EndStep == EndInv /\ TypeOK /\ KeyInv /\ EntryInv /\ [Next]_vars => EndInv'
<1> SUFFICES ASSUME EndInv, TypeOK, KeyInv, EntryInv, [Next]_vars PROVE EndInv'
  OBVIOUS
<1> USE LaunchesAssumption, RoundsAssumption
<1>1. ASSUME NEW x \in Launches, Register1st(x) PROVE EndInv'
  BY <1>1
  DEF Register1st, Goto, Return, DropWatch, FindOrRegisterForKey, launcher, instance, entry,
      handler, EndInv, Blank, Middle, TypeOK, KeyInv, EntryInv, Over, Runs
<1>2. ASSUME NEW x \in Launches, RelaunchHandoff(x) PROVE EndInv'
  BY <1>2
  DEF RelaunchHandoff, Goto, FindOrRegisterForKey, launcher, instance, entry, handler,
      EndInv, Blank, Middle, TypeOK, KeyInv, EntryInv, Over, Runs
<1>3. ASSUME NEW x \in Launches, Updating(x) PROVE EndInv'
  BY <1>3
  DEF Updating, Goto, Return, DropWatch, launcher, instance, entry, handler, EndInv, Blank,
      Middle, TypeOK, KeyInv, EntryInv, Over, Runs
<1>4. ASSUME NEW x \in Launches, OwnsKey(x) PROVE EndInv'
  BY <1>4
  DEF OwnsKey, Goto, launcher, instance, entry, handler, EndInv, Blank, Middle, TypeOK,
      KeyInv, EntryInv, Over, Runs
<1>5. ASSUME NEW x \in Launches, RoundsRunOut(x) PROVE EndInv'
  BY <1>5
  DEF RoundsRunOut, Goto, Return, DropWatch, launcher, instance, entry, handler, EndInv,
      Blank, Middle, TypeOK, KeyInv, EntryInv, Over, Runs
<1>6. ASSUME NEW x \in Launches, FindsHolderGone(x) PROVE EndInv'
  BY <1>6
  DEF FindsHolderGone, Goto, launcher, instance, entry, handler, EndInv, Blank, Middle,
      TypeOK, KeyInv, EntryInv, Over, Runs
<1>7. ASSUME NEW x \in Launches, Redirect(x) PROVE EndInv'
  BY <1>7
  DEF Redirect, Goto, launcher, instance, entry, handler, EndInv, Blank, Middle, TypeOK,
      KeyInv, EntryInv, Over, Runs
<1>8. ASSUME NEW x \in Launches, RedirectEnds(x) PROVE EndInv'
  BY <1>8
  DEF RedirectEnds, Goto, launcher, instance, entry, handler, EndInv, Blank, Middle, TypeOK,
      KeyInv, EntryInv, Over, Runs
<1>9. ASSUME NEW x \in Launches, HandOver(x) PROVE EndInv'
  BY <1>9
  DEF HandOver, Goto, Return, DropWatch, launcher, instance, entry, handler, EndInv, Blank,
      Middle, TypeOK, KeyInv, EntryInv, Over, Runs
<1>10. ASSUME NEW x \in Launches, Report(x) PROVE EndInv'
  BY <1>10
  DEF Report, Goto, Return, DropWatch, launcher, instance, entry, handler, EndInv, Blank,
      Middle, TypeOK, KeyInv, EntryInv, Over, Runs
<1>11. ASSUME NEW x \in Launches, FollowHolder(x) PROVE EndInv'
  BY <1>11
  DEF FollowHolder, Goto, Return, DropWatch, launcher, instance, entry, handler, EndInv,
      Blank, Middle, TypeOK, KeyInv, EntryInv, Over, Runs
<1>12. ASSUME NEW x \in Launches, AwaitHolderExit(x) PROVE EndInv'
  BY <1>12
  DEF AwaitHolderExit, Goto, Return, DropWatch, launcher, instance, entry, handler, EndInv,
      Blank, Middle, TypeOK, KeyInv, EntryInv, Over, Runs
<1>13. ASSUME NEW x \in Launches, RegisterAgain(x) PROVE EndInv'
  BY <1>13
  DEF RegisterAgain, Goto, Return, DropWatch, FindOrRegisterForKey, launcher, instance,
      entry, handler, EndInv, Blank, Middle, TypeOK, KeyInv, EntryInv, Over, Runs
<1>14. ASSUME NEW x \in Launches, TakeBegins(x) PROVE EndInv'
  BY <1>14
  DEF TakeBegins, Handling, Continue, launcher, instance, entry, handler, EndInv, Blank,
      Middle, TypeOK, KeyInv, EntryInv, Over, Runs
<1>15. ASSUME NEW x \in Launches, TakePosts(x) PROVE EndInv'
  BY <1>15
  DEF TakePosts, Handling, Continue, launcher, instance, entry, handler, EndInv, Blank,
      Middle, TypeOK, KeyInv, EntryInv, Over, Runs
<1>16. ASSUME NEW x \in Launches, TakeRaises(x) PROVE EndInv'
  BY <1>16
  DEF TakeRaises, Handling, Continue, Raise, launcher, instance, entry, handler, EndInv,
      Blank, Middle, TypeOK, KeyInv, EntryInv, Over, Runs
<1>17. ASSUME NEW x \in Launches, TakeCloses(x) PROVE EndInv'
  BY <1>17
  DEF TakeCloses, Handling, Continue, Close, RedirectedTo, launcher, instance, entry,
      handler, EndInv, Blank, Middle, TypeOK, KeyInv, EntryInv, Over, Runs
<1>18. ASSUME NEW x \in Launches, AwaitDecided(x) PROVE EndInv'
  BY <1>18
  DEF AwaitDecided, Handling, Continue, launcher, instance, entry, handler, EndInv, Blank,
      Middle, TypeOK, KeyInv, EntryInv, Over, Runs
<1>19. ASSUME NEW x \in Launches, AwaitDeadline(x) PROVE EndInv'
  BY <1>19
  DEF AwaitDeadline, Handling, Continue, launcher, instance, entry, handler, EndInv, Blank,
      Middle, TypeOK, KeyInv, EntryInv, Over, Runs
<1>20. ASSUME NEW x \in Launches, Open(x) PROVE EndInv'
  BY <1>20
  DEF Open, UiIdle, ServeLaunch, RedirectedTo, launcher, instance, entry, handler, EndInv,
      Blank, Middle, TypeOK, KeyInv, EntryInv, Over, Runs
<1>21. ASSUME NEW x \in Launches, BeginExiting(x) PROVE EndInv'
  BY <1>21
  DEF BeginExiting, UiIdle, Raise, launcher, instance, entry, handler, EndInv, Blank,
      Middle, TypeOK, KeyInv, EntryInv, Over, Runs
<1>22. ASSUME NEW x \in Launches, ExitCloses(x) PROVE EndInv'
  BY <1>22
  DEF ExitCloses, UiIdle, Close, RedirectedTo, launcher, instance, entry, handler, EndInv,
      Blank, Middle, TypeOK, KeyInv, EntryInv, Over, Runs
<1>23. ASSUME NEW x \in Launches, UiEnds(x) PROVE EndInv'
  BY <1>23
  DEF UiEnds, UiIdle, RedirectedTo, launcher, instance, entry, handler, EndInv, Blank,
      Middle, TypeOK, KeyInv, EntryInv, Over, Runs
<1>24. ASSUME NEW x \in Launches, ProcessEnds(x) PROVE EndInv'
  BY <1>24
  DEF ProcessEnds, Goto, RedirectedTo, launcher, instance, entry, handler, EndInv, Blank,
      Middle, TypeOK, KeyInv, EntryInv, Over, Runs
<1>25. ASSUME NEW x \in Launches, NEW y \in Launches, ServePosted(x, y) PROVE EndInv'
  BY <1>25
  DEF ServePosted, UiIdle, ServeLaunch, RedirectedTo, launcher, instance, entry, handler,
      EndInv, Blank, Middle, TypeOK, KeyInv, EntryInv, Over, Runs
<1>26. CASE UNCHANGED vars
  BY <1>26
  DEF vars, launcher, instance, entry, handler, EndInv, Blank, Middle, TypeOK, KeyInv,
      EntryInv, Over, Runs
<1> QED
  BY <1>1, <1>2, <1>3, <1>4, <1>5, <1>6, <1>7, <1>8, <1>9, <1>10, <1>11, <1>12, <1>13,
     <1>14, <1>15, <1>16, <1>17, <1>18, <1>19, <1>20, <1>21, <1>22, <1>23, <1>24, <1>25,
     <1>26
  DEF Next, Launch, Take, App

\* The exiting signal is raised before anything is refused.
LEMMA SignalStep ==
  SignalInv /\ TypeOK /\ KeyInv /\ EntryInv /\ EndInv /\ [Next]_vars => SignalInv'
<1> SUFFICES ASSUME SignalInv, TypeOK, KeyInv, EntryInv, EndInv, [Next]_vars PROVE SignalInv'
  OBVIOUS
<1> USE LaunchesAssumption, RoundsAssumption
<1>1. ASSUME NEW x \in Launches, Register1st(x) PROVE SignalInv'
  BY <1>1
  DEF Register1st, Goto, Return, DropWatch, FindOrRegisterForKey, launcher, instance, entry,
      handler, SignalInv, Blank, TypeOK, KeyInv, EntryInv, EndInv, Over
<1>2. ASSUME NEW x \in Launches, RelaunchHandoff(x) PROVE SignalInv'
  BY <1>2
  DEF RelaunchHandoff, Goto, FindOrRegisterForKey, launcher, instance, entry, handler,
      SignalInv, Blank, TypeOK, KeyInv, EntryInv, EndInv, Over
<1>3. ASSUME NEW x \in Launches, Updating(x) PROVE SignalInv'
  BY <1>3
  DEF Updating, Goto, Return, DropWatch, launcher, instance, entry, handler, SignalInv,
      Blank, TypeOK, KeyInv, EntryInv, EndInv, Over
<1>4. ASSUME NEW x \in Launches, OwnsKey(x) PROVE SignalInv'
  BY <1>4
  DEF OwnsKey, Goto, launcher, instance, entry, handler, SignalInv, Blank, TypeOK, KeyInv,
      EntryInv, EndInv, Over
<1>5. ASSUME NEW x \in Launches, RoundsRunOut(x) PROVE SignalInv'
  BY <1>5
  DEF RoundsRunOut, Goto, Return, DropWatch, launcher, instance, entry, handler, SignalInv,
      Blank, TypeOK, KeyInv, EntryInv, EndInv, Over
<1>6. ASSUME NEW x \in Launches, FindsHolderGone(x) PROVE SignalInv'
  BY <1>6
  DEF FindsHolderGone, Goto, launcher, instance, entry, handler, SignalInv, Blank, TypeOK,
      KeyInv, EntryInv, EndInv, Over
<1>7. ASSUME NEW x \in Launches, Redirect(x) PROVE SignalInv'
  BY <1>7
  DEF Redirect, Goto, launcher, instance, entry, handler, SignalInv, Blank, TypeOK, KeyInv,
      EntryInv, EndInv, Over
<1>8. ASSUME NEW x \in Launches, RedirectEnds(x) PROVE SignalInv'
  BY <1>8
  DEF RedirectEnds, Goto, launcher, instance, entry, handler, SignalInv, Blank, TypeOK,
      KeyInv, EntryInv, EndInv, Over
<1>9. ASSUME NEW x \in Launches, HandOver(x) PROVE SignalInv'
  BY <1>9
  DEF HandOver, Goto, Return, DropWatch, launcher, instance, entry, handler, SignalInv,
      Blank, TypeOK, KeyInv, EntryInv, EndInv, Over
<1>10. ASSUME NEW x \in Launches, Report(x) PROVE SignalInv'
  BY <1>10
  DEF Report, Goto, Return, DropWatch, launcher, instance, entry, handler, SignalInv, Blank,
      TypeOK, KeyInv, EntryInv, EndInv, Over
<1>11. ASSUME NEW x \in Launches, FollowHolder(x) PROVE SignalInv'
  BY <1>11
  DEF FollowHolder, Goto, Return, DropWatch, launcher, instance, entry, handler, SignalInv,
      Blank, TypeOK, KeyInv, EntryInv, EndInv, Over
<1>12. ASSUME NEW x \in Launches, AwaitHolderExit(x) PROVE SignalInv'
  BY <1>12
  DEF AwaitHolderExit, Goto, Return, DropWatch, launcher, instance, entry, handler,
      SignalInv, Blank, TypeOK, KeyInv, EntryInv, EndInv, Over
<1>13. ASSUME NEW x \in Launches, RegisterAgain(x) PROVE SignalInv'
  BY <1>13
  DEF RegisterAgain, Goto, Return, DropWatch, FindOrRegisterForKey, launcher, instance,
      entry, handler, SignalInv, Blank, TypeOK, KeyInv, EntryInv, EndInv, Over
<1>14. ASSUME NEW x \in Launches, TakeBegins(x) PROVE SignalInv'
  BY <1>14
  DEF TakeBegins, Handling, Continue, launcher, instance, entry, handler, SignalInv, Blank,
      TypeOK, KeyInv, EntryInv, EndInv, Over
<1>15. ASSUME NEW x \in Launches, TakePosts(x) PROVE SignalInv'
  BY <1>15
  DEF TakePosts, Handling, Continue, launcher, instance, entry, handler, SignalInv, Blank,
      TypeOK, KeyInv, EntryInv, EndInv, Over
<1>16. ASSUME NEW x \in Launches, TakeRaises(x) PROVE SignalInv'
  BY <1>16
  DEF TakeRaises, Handling, Continue, Raise, launcher, instance, entry, handler, SignalInv,
      Blank, TypeOK, KeyInv, EntryInv, EndInv, Over
<1>17. ASSUME NEW x \in Launches, TakeCloses(x) PROVE SignalInv'
  BY <1>17
  DEF TakeCloses, Handling, Continue, Close, RedirectedTo, launcher, instance, entry,
      handler, SignalInv, Blank, TypeOK, KeyInv, EntryInv, EndInv, Over
<1>18. ASSUME NEW x \in Launches, AwaitDecided(x) PROVE SignalInv'
  BY <1>18
  DEF AwaitDecided, Handling, Continue, launcher, instance, entry, handler, SignalInv,
      Blank, TypeOK, KeyInv, EntryInv, EndInv, Over
<1>19. ASSUME NEW x \in Launches, AwaitDeadline(x) PROVE SignalInv'
  BY <1>19
  DEF AwaitDeadline, Handling, Continue, launcher, instance, entry, handler, SignalInv,
      Blank, TypeOK, KeyInv, EntryInv, EndInv, Over
<1>20. ASSUME NEW x \in Launches, Open(x) PROVE SignalInv'
  BY <1>20
  DEF Open, UiIdle, ServeLaunch, RedirectedTo, launcher, instance, entry, handler,
      SignalInv, Blank, TypeOK, KeyInv, EntryInv, EndInv, Over
<1>21. ASSUME NEW x \in Launches, BeginExiting(x) PROVE SignalInv'
  BY <1>21
  DEF BeginExiting, UiIdle, Raise, launcher, instance, entry, handler, SignalInv, Blank,
      TypeOK, KeyInv, EntryInv, EndInv, Over
<1>22. ASSUME NEW x \in Launches, ExitCloses(x) PROVE SignalInv'
  BY <1>22
  DEF ExitCloses, UiIdle, Close, RedirectedTo, launcher, instance, entry, handler,
      SignalInv, Blank, TypeOK, KeyInv, EntryInv, EndInv, Over
<1>23. ASSUME NEW x \in Launches, UiEnds(x) PROVE SignalInv'
  BY <1>23
  DEF UiEnds, UiIdle, RedirectedTo, launcher, instance, entry, handler, SignalInv, Blank,
      TypeOK, KeyInv, EntryInv, EndInv, Over
<1>24. ASSUME NEW x \in Launches, ProcessEnds(x) PROVE SignalInv'
  BY <1>24
  DEF ProcessEnds, Goto, RedirectedTo, launcher, instance, entry, handler, SignalInv, Blank,
      TypeOK, KeyInv, EntryInv, EndInv, Over
<1>25. ASSUME NEW x \in Launches, NEW y \in Launches, ServePosted(x, y) PROVE SignalInv'
  BY <1>25
  DEF ServePosted, UiIdle, ServeLaunch, RedirectedTo, launcher, instance, entry, handler,
      SignalInv, Blank, TypeOK, KeyInv, EntryInv, EndInv, Over
<1>26. CASE UNCHANGED vars
  BY <1>26
  DEF vars, launcher, instance, entry, handler, SignalInv, Blank, TypeOK, KeyInv, EntryInv,
      EndInv, Over
<1> QED
  BY <1>1, <1>2, <1>3, <1>4, <1>5, <1>6, <1>7, <1>8, <1>9, <1>10, <1>11, <1>12, <1>13,
     <1>14, <1>15, <1>16, <1>17, <1>18, <1>19, <1>20, <1>21, <1>22, <1>23, <1>24, <1>25,
     <1>26
  DEF Next, Launch, Take, App

\* An undecided entry is the gate's or the queue's to decide.
LEMMA DecideStep ==
  DecideInv /\ TypeOK /\ KeyInv /\ EntryInv /\ EndInv /\ [Next]_vars => DecideInv'
<1> SUFFICES ASSUME DecideInv, TypeOK, KeyInv, EntryInv, EndInv, [Next]_vars PROVE DecideInv'
  OBVIOUS
<1> USE LaunchesAssumption, RoundsAssumption
<1>1. ASSUME NEW x \in Launches, Register1st(x) PROVE DecideInv'
  BY <1>1
  DEF Register1st, Goto, Return, DropWatch, FindOrRegisterForKey, launcher, instance, entry,
      handler, DecideInv, Blank, Middle, TypeOK, KeyInv, EntryInv, EndInv, Over, Runs
<1>2. ASSUME NEW x \in Launches, RelaunchHandoff(x) PROVE DecideInv'
  BY <1>2
  DEF RelaunchHandoff, Goto, FindOrRegisterForKey, launcher, instance, entry, handler,
      DecideInv, Blank, Middle, TypeOK, KeyInv, EntryInv, EndInv, Over, Runs
<1>3. ASSUME NEW x \in Launches, Updating(x) PROVE DecideInv'
  BY <1>3
  DEF Updating, Goto, Return, DropWatch, launcher, instance, entry, handler, DecideInv,
      Blank, Middle, TypeOK, KeyInv, EntryInv, EndInv, Over, Runs
<1>4. ASSUME NEW x \in Launches, OwnsKey(x) PROVE DecideInv'
  BY <1>4
  DEF OwnsKey, Goto, launcher, instance, entry, handler, DecideInv, Blank, Middle, TypeOK,
      KeyInv, EntryInv, EndInv, Over, Runs
<1>5. ASSUME NEW x \in Launches, RoundsRunOut(x) PROVE DecideInv'
  BY <1>5
  DEF RoundsRunOut, Goto, Return, DropWatch, launcher, instance, entry, handler, DecideInv,
      Blank, Middle, TypeOK, KeyInv, EntryInv, EndInv, Over, Runs
<1>6. ASSUME NEW x \in Launches, FindsHolderGone(x) PROVE DecideInv'
  BY <1>6
  DEF FindsHolderGone, Goto, launcher, instance, entry, handler, DecideInv, Blank, Middle,
      TypeOK, KeyInv, EntryInv, EndInv, Over, Runs
<1>7. ASSUME NEW x \in Launches, Redirect(x) PROVE DecideInv'
  BY <1>7
  DEF Redirect, Goto, launcher, instance, entry, handler, DecideInv, Blank, Middle, TypeOK,
      KeyInv, EntryInv, EndInv, Over, Runs
<1>8. ASSUME NEW x \in Launches, RedirectEnds(x) PROVE DecideInv'
  BY <1>8
  DEF RedirectEnds, Goto, launcher, instance, entry, handler, DecideInv, Blank, Middle,
      TypeOK, KeyInv, EntryInv, EndInv, Over, Runs
<1>9. ASSUME NEW x \in Launches, HandOver(x) PROVE DecideInv'
  BY <1>9
  DEF HandOver, Goto, Return, DropWatch, launcher, instance, entry, handler, DecideInv,
      Blank, Middle, TypeOK, KeyInv, EntryInv, EndInv, Over, Runs
<1>10. ASSUME NEW x \in Launches, Report(x) PROVE DecideInv'
  BY <1>10
  DEF Report, Goto, Return, DropWatch, launcher, instance, entry, handler, DecideInv, Blank,
      Middle, TypeOK, KeyInv, EntryInv, EndInv, Over, Runs
<1>11. ASSUME NEW x \in Launches, FollowHolder(x) PROVE DecideInv'
  BY <1>11
  DEF FollowHolder, Goto, Return, DropWatch, launcher, instance, entry, handler, DecideInv,
      Blank, Middle, TypeOK, KeyInv, EntryInv, EndInv, Over, Runs
<1>12. ASSUME NEW x \in Launches, AwaitHolderExit(x) PROVE DecideInv'
  BY <1>12
  DEF AwaitHolderExit, Goto, Return, DropWatch, launcher, instance, entry, handler,
      DecideInv, Blank, Middle, TypeOK, KeyInv, EntryInv, EndInv, Over, Runs
<1>13. ASSUME NEW x \in Launches, RegisterAgain(x) PROVE DecideInv'
  BY <1>13
  DEF RegisterAgain, Goto, Return, DropWatch, FindOrRegisterForKey, launcher, instance,
      entry, handler, DecideInv, Blank, Middle, TypeOK, KeyInv, EntryInv, EndInv, Over, Runs
<1>14. ASSUME NEW x \in Launches, TakeBegins(x) PROVE DecideInv'
  BY <1>14
  DEF TakeBegins, Handling, Continue, launcher, instance, entry, handler, DecideInv, Blank,
      Middle, TypeOK, KeyInv, EntryInv, EndInv, Over, Runs
<1>15. ASSUME NEW x \in Launches, TakePosts(x) PROVE DecideInv'
  BY <1>15
  DEF TakePosts, Handling, Continue, launcher, instance, entry, handler, DecideInv, Blank,
      Middle, TypeOK, KeyInv, EntryInv, EndInv, Over, Runs
<1>16. ASSUME NEW x \in Launches, TakeRaises(x) PROVE DecideInv'
  BY <1>16
  DEF TakeRaises, Handling, Continue, Raise, launcher, instance, entry, handler, DecideInv,
      Blank, Middle, TypeOK, KeyInv, EntryInv, EndInv, Over, Runs
<1>17. ASSUME NEW x \in Launches, TakeCloses(x) PROVE DecideInv'
  BY <1>17
  DEF TakeCloses, Handling, Continue, Close, RedirectedTo, launcher, instance, entry,
      handler, DecideInv, Blank, Middle, TypeOK, KeyInv, EntryInv, EndInv, Over, Runs
<1>18. ASSUME NEW x \in Launches, AwaitDecided(x) PROVE DecideInv'
  BY <1>18
  DEF AwaitDecided, Handling, Continue, launcher, instance, entry, handler, DecideInv,
      Blank, Middle, TypeOK, KeyInv, EntryInv, EndInv, Over, Runs
<1>19. ASSUME NEW x \in Launches, AwaitDeadline(x) PROVE DecideInv'
  BY <1>19
  DEF AwaitDeadline, Handling, Continue, launcher, instance, entry, handler, DecideInv,
      Blank, Middle, TypeOK, KeyInv, EntryInv, EndInv, Over, Runs
<1>20. ASSUME NEW x \in Launches, Open(x) PROVE DecideInv'
  BY <1>20
  DEF Open, UiIdle, ServeLaunch, RedirectedTo, launcher, instance, entry, handler,
      DecideInv, Blank, Middle, TypeOK, KeyInv, EntryInv, EndInv, Over, Runs
<1>21. ASSUME NEW x \in Launches, BeginExiting(x) PROVE DecideInv'
  BY <1>21
  DEF BeginExiting, UiIdle, Raise, launcher, instance, entry, handler, DecideInv, Blank,
      Middle, TypeOK, KeyInv, EntryInv, EndInv, Over, Runs
<1>22. ASSUME NEW x \in Launches, ExitCloses(x) PROVE DecideInv'
  BY <1>22
  DEF ExitCloses, UiIdle, Close, RedirectedTo, launcher, instance, entry, handler,
      DecideInv, Blank, Middle, TypeOK, KeyInv, EntryInv, EndInv, Over, Runs
<1>23. ASSUME NEW x \in Launches, UiEnds(x) PROVE DecideInv'
  BY <1>23
  DEF UiEnds, UiIdle, RedirectedTo, launcher, instance, entry, handler, DecideInv, Blank,
      Middle, TypeOK, KeyInv, EntryInv, EndInv, Over, Runs
<1>24. ASSUME NEW x \in Launches, ProcessEnds(x) PROVE DecideInv'
  BY <1>24
  DEF ProcessEnds, Goto, RedirectedTo, launcher, instance, entry, handler, DecideInv, Blank,
      Middle, TypeOK, KeyInv, EntryInv, EndInv, Over, Runs
<1>25. ASSUME NEW x \in Launches, NEW y \in Launches, ServePosted(x, y) PROVE DecideInv'
  BY <1>25
  DEF ServePosted, UiIdle, ServeLaunch, RedirectedTo, launcher, instance, entry, handler,
      DecideInv, Blank, Middle, TypeOK, KeyInv, EntryInv, EndInv, Over, Runs
<1>26. CASE UNCHANGED vars
  BY <1>26
  DEF vars, launcher, instance, entry, handler, DecideInv, Blank, Middle, TypeOK, KeyInv,
      EntryInv, EndInv, Over, Runs
<1> QED
  BY <1>1, <1>2, <1>3, <1>4, <1>5, <1>6, <1>7, <1>8, <1>9, <1>10, <1>11, <1>12, <1>13,
     <1>14, <1>15, <1>16, <1>17, <1>18, <1>19, <1>20, <1>21, <1>22, <1>23, <1>24, <1>25,
     <1>26
  DEF Next, Launch, Take, App

\* A served launch was acted on once, by one instance that still runs.
LEMMA ActStep ==
  ActInv /\ TypeOK /\ KeyInv /\ EntryInv /\ EndInv /\ DecideInv /\ [Next]_vars => ActInv'
<1> SUFFICES ASSUME ActInv, TypeOK, KeyInv, EntryInv, EndInv, DecideInv, [Next]_vars PROVE ActInv'
  OBVIOUS
<1> USE LaunchesAssumption, RoundsAssumption
<1>1. ASSUME NEW x \in Launches, Register1st(x) PROVE ActInv'
  BY <1>1
  DEF Register1st, Goto, Return, DropWatch, FindOrRegisterForKey, launcher, instance, entry,
      handler, ActInv, Blank, Middle, TypeOK, KeyInv, EntryInv, EndInv, DecideInv, Over,
      Runs
<1>2. ASSUME NEW x \in Launches, RelaunchHandoff(x) PROVE ActInv'
  BY <1>2
  DEF RelaunchHandoff, Goto, FindOrRegisterForKey, launcher, instance, entry, handler,
      ActInv, Blank, Middle, TypeOK, KeyInv, EntryInv, EndInv, DecideInv, Over, Runs
<1>3. ASSUME NEW x \in Launches, Updating(x) PROVE ActInv'
  BY <1>3
  DEF Updating, Goto, Return, DropWatch, launcher, instance, entry, handler, ActInv, Blank,
      Middle, TypeOK, KeyInv, EntryInv, EndInv, DecideInv, Over, Runs
<1>4. ASSUME NEW x \in Launches, OwnsKey(x) PROVE ActInv'
  BY <1>4
  DEF OwnsKey, Goto, launcher, instance, entry, handler, ActInv, Blank, Middle, TypeOK,
      KeyInv, EntryInv, EndInv, DecideInv, Over, Runs
<1>5. ASSUME NEW x \in Launches, RoundsRunOut(x) PROVE ActInv'
  BY <1>5
  DEF RoundsRunOut, Goto, Return, DropWatch, launcher, instance, entry, handler, ActInv,
      Blank, Middle, TypeOK, KeyInv, EntryInv, EndInv, DecideInv, Over, Runs
<1>6. ASSUME NEW x \in Launches, FindsHolderGone(x) PROVE ActInv'
  BY <1>6
  DEF FindsHolderGone, Goto, launcher, instance, entry, handler, ActInv, Blank, Middle,
      TypeOK, KeyInv, EntryInv, EndInv, DecideInv, Over, Runs
<1>7. ASSUME NEW x \in Launches, Redirect(x) PROVE ActInv'
  BY <1>7
  DEF Redirect, Goto, launcher, instance, entry, handler, ActInv, Blank, Middle, TypeOK,
      KeyInv, EntryInv, EndInv, DecideInv, Over, Runs
<1>8. ASSUME NEW x \in Launches, RedirectEnds(x) PROVE ActInv'
  BY <1>8
  DEF RedirectEnds, Goto, launcher, instance, entry, handler, ActInv, Blank, Middle, TypeOK,
      KeyInv, EntryInv, EndInv, DecideInv, Over, Runs
<1>9. ASSUME NEW x \in Launches, HandOver(x) PROVE ActInv'
  BY <1>9
  DEF HandOver, Goto, Return, DropWatch, launcher, instance, entry, handler, ActInv, Blank,
      Middle, TypeOK, KeyInv, EntryInv, EndInv, DecideInv, Over, Runs
<1>10. ASSUME NEW x \in Launches, Report(x) PROVE ActInv'
  BY <1>10
  DEF Report, Goto, Return, DropWatch, launcher, instance, entry, handler, ActInv, Blank,
      Middle, TypeOK, KeyInv, EntryInv, EndInv, DecideInv, Over, Runs
<1>11. ASSUME NEW x \in Launches, FollowHolder(x) PROVE ActInv'
  BY <1>11
  DEF FollowHolder, Goto, Return, DropWatch, launcher, instance, entry, handler, ActInv,
      Blank, Middle, TypeOK, KeyInv, EntryInv, EndInv, DecideInv, Over, Runs
<1>12. ASSUME NEW x \in Launches, AwaitHolderExit(x) PROVE ActInv'
  BY <1>12
  DEF AwaitHolderExit, Goto, Return, DropWatch, launcher, instance, entry, handler, ActInv,
      Blank, Middle, TypeOK, KeyInv, EntryInv, EndInv, DecideInv, Over, Runs
<1>13. ASSUME NEW x \in Launches, RegisterAgain(x) PROVE ActInv'
  BY <1>13
  DEF RegisterAgain, Goto, Return, DropWatch, FindOrRegisterForKey, launcher, instance,
      entry, handler, ActInv, Blank, Middle, TypeOK, KeyInv, EntryInv, EndInv, DecideInv,
      Over, Runs
<1>14. ASSUME NEW x \in Launches, TakeBegins(x) PROVE ActInv'
  BY <1>14
  DEF TakeBegins, Handling, Continue, launcher, instance, entry, handler, ActInv, Blank,
      Middle, TypeOK, KeyInv, EntryInv, EndInv, DecideInv, Over, Runs
<1>15. ASSUME NEW x \in Launches, TakePosts(x) PROVE ActInv'
  BY <1>15
  DEF TakePosts, Handling, Continue, launcher, instance, entry, handler, ActInv, Blank,
      Middle, TypeOK, KeyInv, EntryInv, EndInv, DecideInv, Over, Runs
<1>16. ASSUME NEW x \in Launches, TakeRaises(x) PROVE ActInv'
  BY <1>16
  DEF TakeRaises, Handling, Continue, Raise, launcher, instance, entry, handler, ActInv,
      Blank, Middle, TypeOK, KeyInv, EntryInv, EndInv, DecideInv, Over, Runs
<1>17. ASSUME NEW x \in Launches, TakeCloses(x) PROVE ActInv'
  BY <1>17
  DEF TakeCloses, Handling, Continue, Close, RedirectedTo, launcher, instance, entry,
      handler, ActInv, Blank, Middle, TypeOK, KeyInv, EntryInv, EndInv, DecideInv, Over,
      Runs
<1>18. ASSUME NEW x \in Launches, AwaitDecided(x) PROVE ActInv'
  BY <1>18
  DEF AwaitDecided, Handling, Continue, launcher, instance, entry, handler, ActInv, Blank,
      Middle, TypeOK, KeyInv, EntryInv, EndInv, DecideInv, Over, Runs
<1>19. ASSUME NEW x \in Launches, AwaitDeadline(x) PROVE ActInv'
  BY <1>19
  DEF AwaitDeadline, Handling, Continue, launcher, instance, entry, handler, ActInv, Blank,
      Middle, TypeOK, KeyInv, EntryInv, EndInv, DecideInv, Over, Runs
<1>20. ASSUME NEW x \in Launches, Open(x) PROVE ActInv'
  BY <1>20
  DEF Open, UiIdle, ServeLaunch, RedirectedTo, launcher, instance, entry, handler, ActInv,
      Blank, Middle, TypeOK, KeyInv, EntryInv, EndInv, DecideInv, Over, Runs
<1>21. ASSUME NEW x \in Launches, BeginExiting(x) PROVE ActInv'
  BY <1>21
  DEF BeginExiting, UiIdle, Raise, launcher, instance, entry, handler, ActInv, Blank,
      Middle, TypeOK, KeyInv, EntryInv, EndInv, DecideInv, Over, Runs
<1>22. ASSUME NEW x \in Launches, ExitCloses(x) PROVE ActInv'
  BY <1>22
  DEF ExitCloses, UiIdle, Close, RedirectedTo, launcher, instance, entry, handler, ActInv,
      Blank, Middle, TypeOK, KeyInv, EntryInv, EndInv, DecideInv, Over, Runs
<1>23. ASSUME NEW x \in Launches, UiEnds(x) PROVE ActInv'
  BY <1>23
  DEF UiEnds, UiIdle, RedirectedTo, launcher, instance, entry, handler, ActInv, Blank,
      Middle, TypeOK, KeyInv, EntryInv, EndInv, DecideInv, Over, Runs
<1>24. ASSUME NEW x \in Launches, ProcessEnds(x) PROVE ActInv'
  BY <1>24
  DEF ProcessEnds, Goto, RedirectedTo, launcher, instance, entry, handler, ActInv, Blank,
      Middle, TypeOK, KeyInv, EntryInv, EndInv, DecideInv, Over, Runs
<1>25. ASSUME NEW x \in Launches, NEW y \in Launches, ServePosted(x, y) PROVE ActInv'
  BY <1>25
  DEF ServePosted, UiIdle, ServeLaunch, RedirectedTo, launcher, instance, entry, handler,
      ActInv, Blank, Middle, TypeOK, KeyInv, EntryInv, EndInv, DecideInv, Over, Runs
<1>26. CASE UNCHANGED vars
  BY <1>26
  DEF vars, launcher, instance, entry, handler, ActInv, Blank, Middle, TypeOK, KeyInv,
      EntryInv, EndInv, DecideInv, Over, Runs
<1> QED
  BY <1>1, <1>2, <1>3, <1>4, <1>5, <1>6, <1>7, <1>8, <1>9, <1>10, <1>11, <1>12, <1>13,
     <1>14, <1>15, <1>16, <1>17, <1>18, <1>19, <1>20, <1>21, <1>22, <1>23, <1>24, <1>25,
     <1>26
  DEF Next, Launch, Take, App

LEMMA InitIInv == Init => IInv
  BY LaunchesAssumption, RoundsAssumption
  DEF Init, IInv, TypeOK, Pcs, Redirects, Outcomes, Takes, RoundInv, KeyInv, EntryInv, EndInv,
      SignalInv, DecideInv, ActInv, Blank, Middle, Over, Runs

LEMMA NextIInv == IInv /\ [Next]_vars => IInv'
  BY TypeStep, RoundStep, KeyStep, EntryStep, EndStep, SignalStep, DecideStep, ActStep DEF IInv

\* The inductive invariant holds of every behaviour of the launches and their
\* instances.
THEOREM SpecIInv == Spec => []IInv
  BY InitIInv, NextIInv, PTL DEF Spec

\* Every variable keeps its type, and no launch goes past its last round
\* (kLaunchRounds).
THEOREM HandoverTypeCorrect == Spec => []TypeOK
<1>1. IInv => TypeOK
  BY DEF IInv
<1> QED
  BY <1>1, SpecIInv, PTL

\* Await's lookups in launches_ find their entry in every order of handlers,
\* openings, closings and served work.
THEOREM HandlerKeepsItsEntry == Spec => []AwaitFindsEntry
<1>1. IInv => AwaitFindsEntry
  BY DEF IInv, EntryInv, Middle, AwaitFindsEntry
<1> QED
  BY <1>1, SpecIInv, PTL

\* An instance acts on a launch exactly when it decided Served, and once.
THEOREM ServedExactlyOnce == Spec => []ActedOnOnceIfServed
<1>1. IInv => ActedOnOnceIfServed
  BY DEF IInv, ActInv, ActedOnOnceIfServed
<1> QED
  BY <1>1, SpecIInv, PTL

\* No entry of launches_ is left with nobody to drop it while its queue runs.
THEOREM NoEntryIsStranded == Spec => []AbandonedEntryIsDropped
<1>1. IInv => AbandonedEntryIsDropped
  BY DEF IInv, EntryInv, DecideInv, AbandonedEntryIsDropped
<1> QED
  BY <1>1, SpecIInv, PTL

\* A launch an instance acted on starts no app and takes no round beside it.
THEOREM OneLiveInstanceActs == Spec => []OneInstanceActs
<1>1. IInv => OneInstanceActs
  BY LaunchesAssumption
  DEF IInv, TypeOK, KeyInv, EntryInv, EndInv, ActInv, OneInstanceActs, Over, Runs
<1> QED
  BY <1>1, SpecIInv, PTL

\* A refused launch that watches the signal is never taken for handed over: the
\* launch that the exit turned away starts the app itself.
THEOREM RefusedIsNeverHandedOver == Spec => HandedOverWasNotRefused
<1> DEFINE Honest ==
      \A l \in Launches : HandOver(l) /\ l \in seesSignal => fate[l] # "Refused"
<1>1. IInv => Honest
  BY DEF IInv, SignalInv, HandOver, Exiting
<1>2. IInv /\ [Next]_vars => [Honest]_vars
  BY <1>1
<1> QED
  BY <1>2, SpecIInv, PTL DEF Spec, HandedOverWasNotRefused
=============================================================================
