---------------------------- MODULE NetworkNotify ----------------------------
(***************************************************************************)
(* How the sdk's device hears that the network moved: from the egress      *)
(* monitor's callback, or the evaluator that finds the machine slept,      *)
(* through the session's pending event and the watch's coalescer to the    *)
(* sampler's device->networkChanged(), while watches replace one another.  *)
(* CaptureReadiness models what the same events do to a capture's proof.   *)
(*                                                                         *)
(* networkRevision_ is only compared with copies of itself, so it is       *)
(* modelled by who holds its current value. A coalescing window is a level *)
(* that comes due some time after it opens.                                *)
(***************************************************************************)
EXTENDS Naturals

CONSTANTS
  Callbacks,  \* the system's worker threads that deliver network events
  Watches     \* bound: the watches one session starts

ASSUME WatchesAssumption == Watches \in Nat \ {0}

VARIABLES
  cancelled,    \* the session's readiness is cancelled
  pending,      \* networkRevision_ # handledNetworkRevision_
  current,      \* the watches whose event carries the current networkRevision_
  last,         \* the watches made so far: channel objects 1..last
  channel,      \* channel_, or 0
  closed,       \* the channels that are cancelled
  burst,        \* the channels whose coalescer has a window open
  sampler,      \* where each channel's sampler thread is
  evaluator,    \* where the thread that evaluates or replaces the watch is
  callback,     \* where each network-event callback is
  untold,       \* history: no notification begun since the last move has returned
  callers,      \* history: the notifications begun since the last move
  threw         \* history: the watch's notification failed since the last move

events == <<pending, current>>
watch  == <<last, channel, closed>>
told   == <<untold, callers, threw>>
vars   == <<cancelled, events, watch, burst, sampler, evaluator, callback, told>>

Channels == 1..Watches

Init ==
  /\ cancelled = FALSE /\ pending = FALSE /\ current = {}
  /\ last = 0 /\ channel = 0 /\ closed = {} /\ burst = {}
  /\ sampler = [w \in Channels |-> "none"]
  /\ evaluator = "create"
  /\ callback = [c \in Callbacks |-> "idle"]
  /\ untold = FALSE /\ callers = {} /\ threw = FALSE

-----------------------------------------------------------------------------
(* The readiness's event level, and the coalescers.                        *)

\* NetworkChanged: an event the device has to hear of.
NetworkChanged ==
  /\ pending' = TRUE /\ current' = {}
  /\ untold' = TRUE /\ callers' = {} /\ threw' = FALSE

\* NetworkEventHandled: a notification covers only the event read before it.
NetworkEventHandled(w) == pending' = (pending /\ w \notin current) /\ UNCHANGED current

\* NotifyCoalescer::Observe on the channels given: a window opens, or is open.
Observe(ws) == burst' = burst \cup ws

\* NoteNetworkEvent reaches the channel there is, unless it is cancelled.
Listening == IF cancelled \/ channel = 0 THEN {} ELSE {channel} \ closed

\* CaptureReadiness::Cancel, by every stop before it asks for the session lock.
Cancel ==
  /\ ~cancelled /\ cancelled' = TRUE
  /\ UNCHANGED <<events, watch, burst, sampler, evaluator, callback, told>>

-----------------------------------------------------------------------------
(* CaptureNetworkEventHandler on a system worker thread.                   *)

EgressEvent(c) ==
  /\ callback[c] = "idle" /\ ~cancelled
  /\ NetworkChanged
  /\ callback' = [callback EXCEPT ![c] = "changed"]
  /\ UNCHANGED <<cancelled, watch, burst, sampler, evaluator>>

NoteNetworkEvent(c) ==
  /\ callback[c] = "changed"
  /\ Observe(Listening)
  /\ callback' = [callback EXCEPT ![c] = "idle"]
  /\ UNCHANGED <<cancelled, events, watch, sampler, evaluator, told>>

-----------------------------------------------------------------------------
(* The sampler thread of channel w, outside its samples. It looks at its   *)
(* channel's `cancelled` and `device` around every sdk call; one abandoned *)
(* inside a call comes back after the watch was replaced.                  *)

SamplerGoes(w, place) ==
  sampler' = [sampler EXCEPT ![w] = IF w \in closed THEN "exited" ELSE place]

SamplerExits(w) ==
  /\ sampler[w] = "sleep" /\ w \in closed
  /\ SamplerGoes(w, "exited")
  /\ UNCHANGED <<cancelled, events, watch, burst, evaluator, callback, told>>

\* TakeDue closes the window; PendingNetworkEvent says whether there is anything
\* left to tell. Both under the channel's mutex.
SamplerTakes(w) ==
  /\ sampler[w] = "sleep" /\ w \in burst \ closed
  /\ burst' = burst \ {w}
  /\ \/ /\ pending /\ ~cancelled
        /\ current' = current \cup {w}
        /\ SamplerGoes(w, "tell")
     \/ /\ ~pending \/ cancelled
        /\ UNCHANGED <<current, sampler>>
  /\ UNCHANGED <<cancelled, pending, watch, evaluator, callback, told>>

\* Mutant: the call waits for the burst to end.
SamplerTells_Debounced(w) ==
  /\ sampler[w] = "tell" /\ w \notin burst
  /\ SamplerGoes(w, "telling")
  /\ callers' = IF w \in closed THEN callers ELSE callers \cup {w}
  /\ UNCHANGED <<cancelled, events, watch, burst, evaluator, callback, untold, threw>>

\* device->networkChanged() begins, unless the device was taken away ...
SamplerTells(w) ==
  /\ sampler[w] = "tell"
  /\ SamplerGoes(w, "telling")
  /\ callers' = IF w \in closed THEN callers ELSE callers \cup {w}
  /\ UNCHANGED <<cancelled, events, watch, burst, evaluator, callback, untold, threw>>

\* ... and returns: the event is handled, cancelled or not ...
SamplerTold(w) ==
  /\ sampler[w] = "telling"
  /\ NetworkEventHandled(w)
  /\ untold' = (untold /\ w \notin callers)
  /\ SamplerGoes(w, "sleep")
  /\ UNCHANGED <<cancelled, watch, burst, evaluator, callback, callers, threw>>

\* ... or throws, which is logged and not retried.
SamplerTellThrows(w) ==
  /\ sampler[w] = "telling"
  /\ threw' = (threw \/ w \notin closed)
  /\ SamplerGoes(w, "sleep")
  /\ UNCHANGED <<cancelled, events, watch, burst, evaluator, callback, untold, callers>>

\* The rest of a round: a sample that is due, with no window due before it.
SampleBegins(w) ==
  /\ sampler[w] = "sleep" /\ w \notin closed
  /\ SamplerGoes(w, "sample")
  /\ UNCHANGED <<cancelled, events, watch, burst, evaluator, callback, told>>

SampleEnds(w) ==
  /\ sampler[w] = "sample"
  /\ SamplerGoes(w, "sleep")
  /\ UNCHANGED <<cancelled, events, watch, burst, evaluator, callback, told>>

-----------------------------------------------------------------------------
(* The evaluator, and TunnelWatchdog::Start over the watch before it.      *)

\* A gap between two ticks long enough to have been a sleep moved the network.
Freeze ==
  /\ evaluator = "watch" /\ channel \notin closed \cup {0}
  /\ NetworkChanged
  /\ evaluator' = "observe"
  /\ UNCHANGED <<cancelled, watch, burst, sampler, callback>>

FreezeObserve ==
  /\ evaluator = "observe"
  /\ Observe({last})
  /\ evaluator' = "watch"
  /\ UNCHANGED <<cancelled, events, watch, sampler, callback, told>>

\* ActivateCapture replaces the watch, when a capture commits or is superseded:
\* Stop drops the channel and cancels it; its sampler may live on.
WatchStop ==
  /\ evaluator = "watch" /\ ~cancelled /\ last < Watches
  /\ closed' = closed \cup {channel} /\ channel' = 0
  /\ evaluator' = "create"
  /\ UNCHANGED <<cancelled, events, last, burst, sampler, callback, told>>

WatchCreate ==
  /\ evaluator = "create"
  /\ last' = last + 1 /\ channel' = last + 1
  /\ evaluator' = "replay"
  /\ UNCHANGED <<cancelled, events, closed, burst, sampler, callback, told>>

\* Mutant: a change in the attachment gap is left to the callback.
WatchReplay_Nothing ==
  /\ evaluator = "replay"
  /\ threw' = FALSE
  /\ sampler' = [sampler EXCEPT ![last] = "sleep"]
  /\ evaluator' = "watch"
  /\ UNCHANGED <<cancelled, events, watch, burst, callback, untold, callers>>

\* ReplayCaptureNetworkEvent once the channel is published; then the threads.
WatchReplay ==
  /\ evaluator = "replay"
  /\ Observe(IF pending THEN Listening ELSE {})
  /\ threw' = FALSE
  /\ sampler' = [sampler EXCEPT ![last] = "sleep"]
  /\ evaluator' = "watch"
  /\ UNCHANGED <<cancelled, events, watch, callback, untold, callers>>

\* StopLocked after Cancel: the watch is cancelled and stopped.
WatchCancel ==
  /\ cancelled /\ channel # 0 /\ evaluator \in {"watch", "observe"}
  /\ closed' = closed \cup {channel} /\ channel' = 0
  /\ UNCHANGED <<cancelled, events, last, burst, sampler, evaluator, callback, told>>

-----------------------------------------------------------------------------
Tell(w) == SamplerTells(w) \/ SamplerTold(w) \/ SamplerTellThrows(w)

Start == WatchCreate \/ WatchReplay

Next ==
  \/ Cancel \/ WatchCancel \/ WatchStop \/ Start \/ Freeze \/ FreezeObserve
  \/ \E c \in Callbacks : EgressEvent(c) \/ NoteNetworkEvent(c)
  \/ \E w \in Channels :
       SamplerExits(w) \/ SamplerTakes(w) \/ Tell(w) \/ SampleBegins(w) \/ SampleEnds(w)

Spec == Init /\ [][Next]_vars

\* The threads run on and the sdk's calls return (a call that does not is the
\* dead-tunnel verdict's business); a coalescing window closes after a fixed time
\* and every round of the sampler looks at it first (strong fairness: it may be
\* sampling when the window closes).
Fairness ==
  /\ \A c \in Callbacks : WF_vars(NoteNetworkEvent(c))
  /\ \A w \in Channels : SF_vars(SamplerTakes(w)) /\ WF_vars(Tell(w)) /\ WF_vars(SampleEnds(w))
  /\ WF_vars(FreezeObserve) /\ WF_vars(Start)

FairSpec == Spec /\ Fairness

-----------------------------------------------------------------------------
(* Properties.                                                             *)

\* Every variable keeps the values its code counterpart can hold.
TypeOK ==
  /\ cancelled \in BOOLEAN /\ pending \in BOOLEAN /\ current \subseteq Channels
  /\ last \in 0..Watches /\ channel \in 0..last
  /\ closed \subseteq 1..last /\ burst \subseteq 1..last
  /\ sampler \in [Channels -> {"none", "sleep", "tell", "telling", "sample", "exited"}]
  /\ evaluator \in {"create", "replay", "watch", "observe"}
  /\ callback \in [Callbacks -> {"idle", "changed"}]
  /\ untold \in BOOLEAN /\ callers \subseteq Channels /\ threw \in BOOLEAN

\* The readiness never takes a network change for handled before a notification
\* that began after it has returned (NetworkEventHandled's revision).
UntoldIsPending == untold => pending

\* An event the device has not heard of is always on its way to the sampler of
\* the live watch, across every replacement of the watch (the replay after the
\* channel is published), unless the sdk threw.
NoEventStranded ==
  (untold \/ pending) /\ ~cancelled /\ ~threw /\ evaluator = "watch"
    => \/ channel \in burst
       \/ sampler[channel] \in {"tell", "telling"}
       \/ \E c \in Callbacks : callback[c] = "changed"

\* Every network change is followed by a notification of the device that begins
\* after it, even under a stream of changes (the coalescing window is fixed),
\* unless the session ends or the sdk threw.
EveryMoveIsTold ==
  (untold /\ callers = {}) ~> (callers # {} \/ ~untold \/ threw \/ cancelled)
=============================================================================
