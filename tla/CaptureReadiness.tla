--------------------------- MODULE CaptureReadiness ---------------------------
(***************************************************************************)
(* The proof that lets a preparing session take over the machine's traffic *)
(* (CaptureReadiness): the network events and window rebuilds that void it,*)
(* the watchdog's sampler that earns it and the evaluator that spends it on*)
(* a capture (TunnelWatchdog, ApplyCapture). One session: a readiness      *)
(* object, the watches that replace one another over it, and the sdk's     *)
(* device they read. NetworkNotify models how the device hears of the same *)
(* network events.                                                         *)
(*                                                                         *)
(* revision_ is only ever compared for equality with a copy taken earlier, *)
(* so it is modelled by who still holds its current value.                 *)
(***************************************************************************)
EXTENDS Integers

CONSTANTS
  Callbacks,      \* the system's worker threads that deliver network events
  MaxGeneration,  \* bound: the destination windows the sdk builds
  MaxClock,       \* bound: the steady clock, in ticks
  Second,         \* ticks per second, the unit of the sdk's probe age
  Resolution,     \* probeAgeResolutionMillis
  Freshness       \* freshnessMillis

ASSUME BoundsAssumption ==
  MaxGeneration \in Nat /\ MaxClock \in Nat

\* The setting "is the age's resolution, not a preference": a whole unit of it.
ASSUME SettingsAssumption ==
  /\ Second \in Nat \ {0} /\ Freshness \in Nat
  /\ Resolution \in Nat /\ Resolution >= Second

VARIABLES
  clock,        \* the steady clock every thread reads
  generation,   \* generation_
  proofSince,   \* proofSinceMillis_
  proven,       \* proven_
  sampledAt,    \* sampledMillis_
  cancelled,    \* cancelled_
  active,       \* active_
  holders,      \* who took its sample or ticket at the current revision_
  sampler,      \* the watch's sampler thread and the sample in its hands
  evaluator,    \* where the thread that evaluates or replaces the watch is
  ticket,       \* the ticket it holds
  callback,     \* the time each running network-event callback read, or -1
  window,       \* the sdk: the generation of the device's current window
  probedAt,     \* the sdk: when that window's exit was last proven, or -1
  proof         \* history: the exit counted by the sample behind proven

readiness == <<generation, proofSince, proven, sampledAt, holders, proof>>
fences    == <<cancelled, active>>
watch     == <<evaluator, ticket>>
sdk       == <<window, probedAt>>
vars      == <<clock, readiness, fences, watch, sampler, callback, sdk>>

Times    == -1..MaxClock
NoProof  == [gen |-> 0, at |-> -1]
NoTicket == [gen |-> 0, at |-> 0]

\* A sampler with no sample in its hands.
Between(place) == [pc |-> place, since |-> -1, started |-> 0, stamp |-> 0,
                   before |-> -1, read |-> NoProof, after |-> -1]

Init ==
  /\ clock = 0
  /\ generation = 0 /\ proofSince = -1 /\ proven = FALSE /\ sampledAt = 0
  /\ holders = {} /\ cancelled = FALSE /\ active = FALSE
  /\ sampler = Between("none")
  /\ evaluator = "start" /\ ticket = NoTicket
  /\ callback = [c \in Callbacks |-> -1]
  /\ window = 0 /\ probedAt = -1 /\ proof = NoProof

-----------------------------------------------------------------------------
(* The readiness object's operations, each under its own mutex.            *)

\* Mutant: the age is taken for exact.
CaptureProofAfterNetworkChange_Exact(age, stamp, changed) ==
  \/ changed < 0
  \/ age >= 0 /\ stamp >= changed /\ age <= (stamp - changed) \div Second

\* CaptureProofAfterNetworkChange: the age is truncated, so its whole possible
\* interval must follow the change.
CaptureProofAfterNetworkChange(age, stamp, changed) ==
  \/ changed < 0
  \/ /\ age >= 0 /\ stamp - changed >= Resolution
     /\ age <= (stamp - changed - Resolution) \div Second

Fresh(at) == clock - at \in 0..Freshness

\* A new revision_: no sample or ticket taken before it is current any more.
NewRevision == holders' = {} /\ proven' = FALSE /\ proof' = NoProof

\* Invalidate: a window status that is not older than the generation known.
Invalidate(g) ==
  \/ g < generation /\ UNCHANGED readiness
  \/ /\ g >= generation
     /\ generation' = g
     /\ NewRevision
     /\ UNCHANGED <<proofSince, sampledAt>>

\* ProofBarrier: what was proven up to now no longer qualifies.
ProofBarrier(at) ==
  /\ proofSince' = IF proofSince < at THEN at ELSE proofSince
  /\ NewRevision
  /\ UNCHANGED <<generation, sampledAt>>

Current(t) ==
  /\ ~cancelled /\ ~active /\ proven
  /\ "ticket" \in holders /\ t.gen = generation /\ Fresh(t.at)

\* Cancel, called by every stop before it asks for the session lock.
Cancel ==
  /\ ~cancelled
  /\ cancelled' = TRUE
  /\ NewRevision
  /\ UNCHANGED <<clock, generation, proofSince, sampledAt, active, watch, sampler,
                 callback, sdk>>

-----------------------------------------------------------------------------
(* The clock and the sdk: a destination change builds a new window, whose  *)
(* exits are proven and lost on the sdk's own schedule or after            *)
(* probeAllExits; the window's status callbacks may be late or repeated.   *)
(* Once the readiness is cancelled nothing looks at them again.            *)

Tick ==
  /\ clock < MaxClock /\ ~cancelled
  /\ clock' = clock + 1
  /\ UNCHANGED <<readiness, fences, watch, sampler, callback, sdk>>

SdkRebuild ==
  /\ window < MaxGeneration /\ ~cancelled
  /\ window' = window + 1 /\ probedAt' = -1
  /\ UNCHANGED <<clock, readiness, fences, watch, sampler, callback>>

SdkExit ==
  /\ window > 0 /\ ~cancelled
  /\ probedAt' \in {clock, -1}
  /\ UNCHANGED <<clock, readiness, fences, watch, sampler, callback, window>>

\* publishWindowStatus on the subscribed channel. A status older than the channel's
\* own is dropped; Invalidate drops the same ones. Once active nothing reads what
\* it would change.
WindowStatusEvent(g) ==
  /\ evaluator \in {"watch", "apply", "stop"} /\ ~active /\ g <= window
  /\ Invalidate(g)
  /\ UNCHANGED <<clock, fences, watch, sampler, callback, sdk>>

-----------------------------------------------------------------------------
(* The sampler thread. It looks at its channel's `cancelled` after every sdk *)
(* call, so one whose watch was replaced publishes nothing.                  *)

\* BeginSample.
BeginSample ==
  /\ sampler.pc = "sleep"
  /\ holders' = holders \cup {"sample"}
  /\ sampler' = [pc |-> "before", since |-> proofSince, started |-> clock, stamp |-> 0,
                 before |-> -1, read |-> NoProof, after |-> -1]
  /\ UNCHANGED <<clock, generation, proofSince, proven, sampledAt, proof, fences, watch,
                 callback, sdk>>

\* getWindowStatus, which may throw (-1), then the time the proofs are judged at.
SampleBefore ==
  /\ sampler.pc = "before"
  /\ \E g \in {window, -1} :
       sampler' = [pc |-> "exits", since |-> sampler.since, started |-> sampler.started,
                   stamp |-> clock, before |-> g, read |-> NoProof, after |-> -1]
  /\ UNCHANGED <<clock, readiness, fences, watch, callback, sdk>>

\* CaptureExitIsUsable of the window's exit, read at a time no earlier than the stamp.
CaptureExitIsUsable(s) ==
  /\ probedAt >= 0
  /\ CaptureProofAfterNetworkChange((clock - probedAt) \div Second, s.stamp, s.since)

\* getExits, which may throw or find the exit done, quarantined or in warning.
SampleExits ==
  /\ sampler.pc = "exits"
  /\ \E read \in {NoProof, [gen |-> window, at |-> probedAt]} :
       /\ read # NoProof => CaptureExitIsUsable(sampler)
       /\ sampler' = [pc |-> "after", since |-> -1, started |-> sampler.started, stamp |-> 0,
                      before |-> sampler.before, read |-> read, after |-> -1]
  /\ UNCHANGED <<clock, readiness, fences, watch, callback, sdk>>

SampleAfter ==
  /\ sampler.pc = "after"
  /\ \E g \in {window, -1} :
       sampler' = [pc |-> "complete", since |-> -1, started |-> sampler.started, stamp |-> 0,
                   before |-> sampler.before, read |-> sampler.read, after |-> g]
  /\ UNCHANGED <<clock, readiness, fences, watch, callback, sdk>>

\* What a sample proves: one window across the read, the newest known, with a
\* usable exit, and recent.
SampleProves(s) ==
  /\ s.before = s.after /\ s.after >= generation /\ s.after > 0
  /\ s.read.at >= 0 /\ Fresh(s.started)

Higher(a, b) == IF a < b THEN b ELSE a

\* CompleteSample. A window that could not be read counts as generation 0.
CompleteSample ==
  /\ sampler.pc = "complete"
  /\ LET s     == sampler
         known == s.before >= 0 /\ s.after >= 0
         after == IF known THEN s.after ELSE 0
         top   == IF known THEN Higher(s.before, s.after) ELSE 0
     IN  \/ /\ cancelled \/ active \/ "sample" \notin holders
            /\ UNCHANGED readiness
         \/ /\ ~cancelled /\ ~active /\ "sample" \in holders
            /\ proven' = (known /\ SampleProves(s))
            /\ proof' = IF proven' THEN s.read ELSE NoProof
            /\ holders' = IF generation # after \/ proven # proven'
                          THEN {} ELSE holders \ {"sample"}
            /\ generation' = Higher(generation, top)
            /\ sampledAt' = s.started
            /\ UNCHANGED proofSince
  /\ sampler' = Between("sleep")
  /\ UNCHANGED <<clock, fences, watch, callback, sdk>>

-----------------------------------------------------------------------------
(* Network events: CaptureNetworkEventHandler on a system worker thread.   *)

EgressEvent(c) ==
  /\ callback[c] = -1 /\ ~cancelled
  /\ callback' = [callback EXCEPT ![c] = clock]
  /\ UNCHANGED <<clock, readiness, fences, watch, sampler, sdk>>

\* NetworkChanged at the time the callback read, which may be past.
NetworkChanged(c) ==
  /\ callback[c] >= 0
  /\ ProofBarrier(callback[c])
  /\ callback' = [callback EXCEPT ![c] = -1]
  /\ UNCHANGED <<clock, fences, watch, sampler, sdk>>

-----------------------------------------------------------------------------
(* The evaluator of the last watch.                                         *)

\* A gap between two ticks: a stall voids the proof, a sleep (NetworkChanged on
\* the evaluator's own account) does the same here.
Freeze ==
  /\ evaluator = "watch"
  /\ ProofBarrier(clock)
  /\ UNCHANGED <<clock, fences, watch, sampler, callback, sdk>>

\* Ready: the ticket is handed to ActivateCapture.
Ready ==
  /\ evaluator = "watch"
  /\ ~cancelled /\ ~active /\ proven /\ Fresh(sampledAt)
  /\ ticket' = [gen |-> generation, at |-> sampledAt]
  /\ holders' = holders \cup {"ticket"}
  /\ evaluator' = "apply"
  /\ UNCHANGED <<clock, generation, proofSince, proven, sampledAt, proof, fences, sampler,
                 callback, sdk>>

\* ApplyCapture: a check fails and the capture is watched for again, unless the
\* session is over ...
ApplyWaits ==
  /\ evaluator = "apply" /\ ~Current(ticket)
  /\ evaluator' = (IF cancelled THEN "done" ELSE "stop")
  /\ ticket' = NoTicket
  /\ UNCHANGED <<clock, readiness, fences, sampler, callback, sdk>>

\* ... or every check passes and the capture commits.
Commit ==
  /\ evaluator = "apply" /\ Current(ticket)
  /\ active' = TRUE
  /\ evaluator' = "stop" /\ ticket' = NoTicket
  /\ UNCHANGED <<clock, readiness, cancelled, sampler, callback, sdk>>

\* TunnelWatchdog::Start over the watch before it: Stop cancels its channel, and
\* its sampler is joined or abandoned inside the sdk, having passed no check ...
WatchStop ==
  /\ evaluator = "stop" /\ sampler.pc # "complete"
  /\ sampler' = Between("none")
  /\ evaluator' = "start"
  /\ UNCHANGED <<clock, readiness, fences, ticket, callback, sdk>>

\* ... and the new channel subscribes to the window status, reads its level and
\* starts its threads. A live tunnel's watch has no readiness to invalidate and
\* samples nothing for it.
WatchStart ==
  /\ evaluator = "start"
  /\ \/ active /\ UNCHANGED <<readiness, sampler>>
     \/ ~active /\ Invalidate(window) /\ sampler' = Between("sleep")
  /\ evaluator' = "watch"
  /\ UNCHANGED <<clock, fences, ticket, callback, sdk>>

\* StopLocked after Cancel: the watch is cancelled and stopped.
WatchCancel ==
  /\ cancelled /\ evaluator \in {"watch", "done"} /\ sampler.pc # "complete"
  /\ sampler' = Between("none")
  /\ evaluator' = "done"
  /\ UNCHANGED <<clock, readiness, fences, ticket, callback, sdk>>

-----------------------------------------------------------------------------
Sdk == Tick \/ SdkRebuild \/ SdkExit

Sample ==
  BeginSample \/ SampleBefore \/ SampleExits \/ SampleAfter \/ CompleteSample

Evaluate == Freeze \/ Ready \/ ApplyWaits \/ Commit \/ WatchStop \/ WatchStart

Next ==
  \/ Sdk \/ Cancel \/ WatchCancel \/ Sample \/ Evaluate
  \/ \E g \in 0..MaxGeneration : WindowStatusEvent(g)
  \/ \E c \in Callbacks : EgressEvent(c) \/ NetworkChanged(c)

Spec == Init /\ [][Next]_vars

-----------------------------------------------------------------------------
(* Properties.                                                             *)

SamplerPlaces == {"none", "sleep", "before", "exits", "after", "complete"}

\* Every variable keeps the values its code counterpart can hold.
TypeOK ==
  /\ clock \in 0..MaxClock
  /\ generation \in 0..MaxGeneration /\ proofSince \in Times
  /\ proven \in BOOLEAN /\ sampledAt \in 0..MaxClock
  /\ holders \subseteq {"sample", "ticket"}
  /\ cancelled \in BOOLEAN /\ active \in BOOLEAN
  /\ sampler \in
       [pc : SamplerPlaces, since : Times, started : 0..MaxClock, stamp : 0..MaxClock,
        before : -1..MaxGeneration, read : [gen : 0..MaxGeneration, at : Times],
        after : -1..MaxGeneration]
  /\ evaluator \in {"start", "watch", "apply", "stop", "done"}
  /\ ticket \in [gen : 0..MaxGeneration, at : 0..MaxClock]
  /\ callback \in [Callbacks -> Times]
  /\ window \in 0..MaxGeneration /\ probedAt \in Times
  /\ proof \in [gen : 0..MaxGeneration, at : Times]

\* A capture commits only on an exit of the very window its ticket names, probed
\* after the last network change and the last stall the readiness was told of,
\* however the sample, the callbacks and the activation interleaved and although
\* the sdk's probe age is truncated (CompleteSample, CurrentWithLock).
CommitsOnCurrentProof ==
  [][~active /\ active' => proof.gen = generation /\ proof.at > proofSince]_vars

\* The ticket in the evaluator's hands, and whether one was spent.
grant == IF active THEN "captured" ELSE IF evaluator = "apply" THEN "ticket" ELSE "none"

Grant == INSTANCE CaptureGrant

\* The readiness side of CaptureGrant, the one TunnelSession's capture transaction
\* relies on: a ticket is given, and passes the last check, only before Cancel.
ReadinessGives == Grant!Spec
=============================================================================
