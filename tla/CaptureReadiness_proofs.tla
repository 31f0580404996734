----------------------- MODULE CaptureReadiness_proofs -----------------------
(***************************************************************************)
(* Proofs about CaptureReadiness, for every set of callback threads, every  *)
(* number of windows, every clock and every setting of the ages. The        *)
(* inductive invariant adds to the type                                     *)
(*   ClockInv   no stamp and no probe is ahead of the clock;                *)
(*   SampleInv  what a current sample carries: the barrier its reads are    *)
(*              judged by is the readiness's own, and the exit it counted   *)
(*              was probed after that barrier;                              *)
(*   WindowInv  the windows a sample saw are in the order they were built;  *)
(*   ProvenInv  proven_ stands for an exit of the current generation that   *)
(*              was probed after the last network change or stall.          *)
(* With TicketInv (a ticket in hand has not been spent) the readiness is    *)
(* shown to keep CaptureGrant, its side of the session's transaction.       *)
(***************************************************************************)
EXTENDS CaptureReadiness, TLAPS

FlagsOK == proven \in BOOLEAN /\ cancelled \in BOOLEAN /\ active \in BOOLEAN

Samples ==
  [pc : SamplerPlaces, since : Times, started : 0..MaxClock, stamp : 0..MaxClock,
   before : -1..MaxGeneration, read : [gen : 0..MaxGeneration, at : Times],
   after : -1..MaxGeneration]

ReadinessOK ==
  /\ generation \in 0..MaxGeneration /\ proofSince \in Times
  /\ sampledAt \in 0..MaxClock
  /\ holders \subseteq {"sample", "ticket"}
  /\ proof \in [gen : 0..MaxGeneration, at : Times]

ShapesOK ==
  /\ clock \in 0..MaxClock
  /\ ReadinessOK /\ sampler \in Samples
  /\ evaluator \in {"start", "watch", "apply", "stop", "done"}
  /\ ticket \in [gen : 0..MaxGeneration, at : 0..MaxClock]
  /\ callback \in [Callbacks -> Times]
  /\ window \in 0..MaxGeneration /\ probedAt \in Times

ClockInv == sampler.stamp <= clock /\ probedAt <= clock

SampleInv ==
  "sample" \in holders =>
    /\ sampler.pc \in {"before", "exits"} => sampler.since = proofSince
    /\ sampler.pc \in {"after", "complete"} /\ sampler.read.at >= 0
         => sampler.read.at > proofSince

WindowInv ==
  /\ sampler.before <= window /\ sampler.read.gen <= window
  /\ sampler.pc \in {"after", "complete"} /\ sampler.read.at >= 0
       => sampler.before <= sampler.read.gen
  /\ sampler.pc = "complete" /\ sampler.read.at >= 0 /\ sampler.after >= 0
       => sampler.read.gen <= sampler.after

ProvenInv == proven => proof.gen = generation /\ proof.at > proofSince

IInv == TypeOK /\ ClockInv /\ SampleInv /\ WindowInv /\ ProvenInv

\* What \div means for the numbers it is used on.
LEMMA DivisionBounds ==
  ASSUME NEW n \in Nat, NEW d \in Nat, d > 0
  PROVE  n \div d \in Int /\ d * (n \div d) <= n /\ n < d * (n \div d) + d
  OBVIOUS

\* A truncated age that fits in the time since a change, less the resolution, is
\* the age of something that happened after the change.
LEMMA TruncatedAge ==
  ASSUME NEW now \in Int, NEW stamp \in Int, NEW at \in Int, NEW changed \in Int,
         stamp <= now, at <= now, stamp - changed >= Resolution,
         (now - at) \div Second <= (stamp - changed - Resolution) \div Second
  PROVE  at > changed
<1> DEFINE a == now - at
           b == stamp - changed - Resolution
<1>1. a \in Nat /\ b \in Nat /\ Second \in Nat /\ Second > 0 /\ Resolution >= Second
  BY SettingsAssumption
<1> DEFINE x == a \div Second
           y == b \div Second
<1>2. x \in Int /\ a < Second * x + Second
  BY <1>1, DivisionBounds
<1>3. y \in Int /\ Second * y <= b
  BY <1>1, DivisionBounds
<1>4. x <= y
  OBVIOUS
<1> HIDE DEF a, b, x, y
<1>5. Second * x <= Second * y
  BY <1>1, <1>2, <1>3, <1>4
<1>6. Second * x \in Int /\ Second * y \in Int
  BY <1>1, <1>2, <1>3
<1>7. a < b + Resolution
  BY <1>1, <1>2, <1>3, <1>5, <1>6, SettingsAssumption
<1> QED
  BY <1>7, SettingsAssumption DEF a, b

\* Every announcement of a window leaves the readiness in its types.
LEMMA InvalidateTypes ==
  ASSUME ReadinessOK, NEW g \in 0..MaxGeneration, Invalidate(g)
  PROVE  ReadinessOK'
<1>1. CASE UNCHANGED readiness
  BY <1>1 DEF ReadinessOK, readiness
<1>2. CASE generation' = g /\ NewRevision /\ UNCHANGED <<proofSince, sampledAt>>
  BY <1>2, BoundsAssumption DEF ReadinessOK, NewRevision, NoProof, Times
<1> QED
  BY <1>1, <1>2 DEF Invalidate

\* The flags stay Boolean.
LEMMA FlagsInductive == FlagsOK /\ [Next]_vars => FlagsOK'
<1> SUFFICES ASSUME FlagsOK, [Next]_vars PROVE FlagsOK'
  OBVIOUS
<1>1. CASE Tick
  BY <1>1, Zenon DEF Tick, readiness, fences, watch, sdk, FlagsOK
<1>2. CASE SdkRebuild
  BY <1>2, Zenon DEF SdkRebuild, readiness, fences, watch, sdk, FlagsOK
<1>3. CASE SdkExit
  BY <1>3, Zenon DEF SdkExit, readiness, fences, watch, sdk, FlagsOK
<1>4. CASE Cancel
  BY <1>4, Zenon DEF Cancel, NewRevision, NoProof, readiness, fences, watch, sdk, FlagsOK
<1>5. CASE WatchCancel
  BY <1>5, Zenon DEF WatchCancel, Between, NoProof, readiness, fences, watch, sdk, FlagsOK
<1>6. CASE BeginSample
  BY <1>6, Zenon DEF BeginSample, NoProof, readiness, fences, watch, sdk, FlagsOK
<1>7. CASE SampleBefore
  BY <1>7, Zenon DEF SampleBefore, NoProof, readiness, fences, watch, sdk, FlagsOK
<1>8. CASE SampleExits
  BY <1>8, Zenon DEF SampleExits, NoProof, readiness, fences, watch, sdk, FlagsOK
<1>9. CASE SampleAfter
  BY <1>9, Zenon DEF SampleAfter, NoProof, readiness, fences, watch, sdk, FlagsOK
<1>10. CASE CompleteSample
  BY <1>10, Zenon
  DEF CompleteSample, SampleProves, Higher, Between, NoProof, readiness, fences, watch, sdk, FlagsOK
<1>11. CASE Freeze
  BY <1>11, Zenon
  DEF Freeze, ProofBarrier, NewRevision, NoProof, readiness, fences, watch, sdk, FlagsOK
<1>12. CASE Ready
  BY <1>12, Zenon DEF Ready, readiness, fences, watch, sdk, FlagsOK
<1>13. CASE ApplyWaits
  BY <1>13, Zenon DEF ApplyWaits, NoTicket, readiness, fences, watch, sdk, FlagsOK
<1>14. CASE Commit
  BY <1>14, Zenon DEF Commit, NoTicket, readiness, fences, watch, sdk, FlagsOK
<1>15. CASE WatchStop
  BY <1>15, Zenon DEF WatchStop, Between, NoProof, readiness, fences, watch, sdk, FlagsOK
<1>16. CASE WatchStart
  BY <1>16, Zenon
  DEF WatchStart, Invalidate, NewRevision, Between, NoProof, readiness, fences, watch, sdk, FlagsOK
<1>17. ASSUME NEW g \in 0..MaxGeneration, WindowStatusEvent(g) PROVE FlagsOK'
  BY <1>17, Zenon
  DEF WindowStatusEvent, Invalidate, NewRevision, NoProof, readiness, fences, watch, sdk, FlagsOK
<1>18. ASSUME NEW c \in Callbacks, EgressEvent(c) PROVE FlagsOK'
  BY <1>18, Zenon DEF EgressEvent, readiness, fences, watch, sdk, FlagsOK
<1>19. ASSUME NEW c \in Callbacks, NetworkChanged(c) PROVE FlagsOK'
  BY <1>19, Zenon
  DEF NetworkChanged, ProofBarrier, NewRevision, NoProof, readiness, fences, watch, sdk, FlagsOK
<1>20. CASE UNCHANGED vars
  BY <1>20, Zenon DEF vars, readiness, fences, watch, sdk, FlagsOK
<1> QED
  BY <1>1, <1>2, <1>3, <1>4, <1>5, <1>6, <1>7, <1>8, <1>9, <1>10, <1>11, <1>12, <1>13,
     <1>14, <1>15, <1>16, <1>17, <1>18, <1>19, <1>20
  DEF Next, Sdk, Sample, Evaluate

\* The numbers, sets and records stay in their types.
LEMMA ShapesInductive == ShapesOK /\ [Next]_vars => ShapesOK'
<1> SUFFICES ASSUME ShapesOK, [Next]_vars PROVE ShapesOK'
  OBVIOUS
<1> USE BoundsAssumption DEF Times
<1>1. CASE Tick
  BY <1>1
  DEF Tick, readiness, fences, watch, sdk, ShapesOK, ReadinessOK, Samples, SamplerPlaces
<1>2. CASE SdkRebuild
  BY <1>2
  DEF SdkRebuild, readiness, fences, watch, sdk, ShapesOK, ReadinessOK, Samples, SamplerPlaces
<1>3. CASE SdkExit
  BY <1>3
  DEF SdkExit, readiness, fences, watch, sdk, ShapesOK, ReadinessOK, Samples, SamplerPlaces
<1>4. CASE Cancel
  BY <1>4
  DEF Cancel, NewRevision, NoProof, readiness, fences, watch, sdk, ShapesOK, ReadinessOK, Samples, SamplerPlaces
<1>5. CASE WatchCancel
  BY <1>5
  DEF WatchCancel, Between, NoProof, readiness, fences, watch, sdk, ShapesOK, ReadinessOK, Samples, SamplerPlaces
<1>6. CASE BeginSample
  BY <1>6
  DEF BeginSample, NoProof, readiness, fences, watch, sdk, ShapesOK, ReadinessOK, Samples, SamplerPlaces
<1>7. CASE SampleBefore
  BY <1>7
  DEF SampleBefore, NoProof, readiness, fences, watch, sdk, ShapesOK, ReadinessOK, Samples, SamplerPlaces
<1>8. CASE SampleExits
  BY <1>8
  DEF SampleExits, NoProof, readiness, fences, watch, sdk, ShapesOK, ReadinessOK, Samples, SamplerPlaces
<1>9. CASE SampleAfter
  BY <1>9
  DEF SampleAfter, NoProof, readiness, fences, watch, sdk, ShapesOK, ReadinessOK, Samples, SamplerPlaces
<1>10. CASE CompleteSample
  <2>1. ReadinessOK'
    <3>1. CASE UNCHANGED readiness
      BY <3>1 DEF readiness, ShapesOK, ReadinessOK
    <3>2. CASE ~UNCHANGED readiness
      <4>1. generation' \in 0..MaxGeneration
        BY <1>10, <3>2 DEF CompleteSample, Higher, ShapesOK, ReadinessOK, Samples
      <4>2. proof' \in [gen : 0..MaxGeneration, at : Times]
        BY <1>10, <3>2 DEF CompleteSample, NoProof, ShapesOK, ReadinessOK, Samples
      <4>3. /\ sampledAt' \in 0..MaxClock /\ proofSince' \in Times
            /\ holders' \subseteq {"sample", "ticket"}
        BY <1>10, <3>2 DEF CompleteSample, ShapesOK, ReadinessOK, Samples
      <4> QED
        BY <4>1, <4>2, <4>3 DEF ReadinessOK
    <3> QED
      BY <3>1, <3>2
  <2> QED
    BY <1>10, <2>1
   
    DEF CompleteSample, Between, NoProof, fences, watch, sdk, ShapesOK, Samples, SamplerPlaces
<1>11. CASE Freeze
  BY <1>11
  DEF Freeze, ProofBarrier, NewRevision, NoProof, readiness, fences, watch, sdk, ShapesOK, ReadinessOK, Samples, SamplerPlaces
<1>12. CASE Ready
  BY <1>12
  DEF Ready, readiness, fences, watch, sdk, ShapesOK, ReadinessOK, Samples, SamplerPlaces
<1>13. CASE ApplyWaits
  BY <1>13
  DEF ApplyWaits, NoTicket, readiness, fences, watch, sdk, ShapesOK, ReadinessOK, Samples, SamplerPlaces
<1>14. CASE Commit
  BY <1>14
  DEF Commit, NoTicket, readiness, fences, watch, sdk, ShapesOK, ReadinessOK, Samples, SamplerPlaces
<1>15. CASE WatchStop
  BY <1>15
  DEF WatchStop, Between, NoProof, readiness, fences, watch, sdk, ShapesOK, ReadinessOK, Samples, SamplerPlaces
<1>16. CASE WatchStart
  <2>1. ReadinessOK'
    BY <1>16, InvalidateTypes DEF WatchStart, readiness, ShapesOK, ReadinessOK
  <2> QED
    BY <1>16, <2>1
    DEF WatchStart, Between, NoProof, fences, sdk, ShapesOK, Samples, SamplerPlaces
<1>17. ASSUME NEW g \in 0..MaxGeneration, WindowStatusEvent(g) PROVE ShapesOK'
  <2>1. ReadinessOK'
    BY <1>17, InvalidateTypes DEF WindowStatusEvent, ShapesOK
  <2> QED
    BY <1>17, <2>1 DEF WindowStatusEvent, fences, watch, sdk, ShapesOK
<1>18. ASSUME NEW c \in Callbacks, EgressEvent(c) PROVE ShapesOK'
  BY <1>18
  DEF EgressEvent, readiness, fences, watch, sdk, ShapesOK, ReadinessOK, Samples, SamplerPlaces
<1>19. ASSUME NEW c \in Callbacks, NetworkChanged(c) PROVE ShapesOK'
  BY <1>19
  DEF NetworkChanged, ProofBarrier, NewRevision, NoProof, readiness, fences, watch, sdk, ShapesOK, ReadinessOK, Samples, SamplerPlaces
<1>20. CASE UNCHANGED vars
  BY <1>20
  DEF vars, readiness, fences, watch, sdk, ShapesOK, ReadinessOK, Samples, SamplerPlaces
<1> QED
  BY <1>1, <1>2, <1>3, <1>4, <1>5, <1>6, <1>7, <1>8, <1>9, <1>10, <1>11, <1>12, <1>13,
     <1>14, <1>15, <1>16, <1>17, <1>18, <1>19, <1>20
  DEF Next, Sdk, Sample, Evaluate

\* No stamp and no probe gets ahead of the clock.
LEMMA ClockInductive == ClockInv /\ ShapesOK /\ [Next]_vars => ClockInv'
<1> SUFFICES ASSUME ClockInv, ShapesOK, [Next]_vars PROVE ClockInv'
  OBVIOUS
<1> USE BoundsAssumption DEF Times
<1>1. CASE Tick
  BY <1>1 DEF Tick, readiness, fences, watch, sdk, ClockInv, ShapesOK, ReadinessOK, Samples
<1>2. CASE SdkRebuild
  BY <1>2
  DEF SdkRebuild, readiness, fences, watch, sdk, ClockInv, ShapesOK, ReadinessOK, Samples
<1>3. CASE SdkExit
  BY <1>3
  DEF SdkExit, readiness, fences, watch, sdk, ClockInv, ShapesOK, ReadinessOK, Samples
<1>4. CASE Cancel
  BY <1>4
  DEF Cancel, NewRevision, NoProof, readiness, fences, watch, sdk, ClockInv, ShapesOK, ReadinessOK, Samples
<1>5. CASE WatchCancel
  BY <1>5
  DEF WatchCancel, Between, NoProof, readiness, fences, watch, sdk, ClockInv, ShapesOK, ReadinessOK, Samples
<1>6. CASE BeginSample
  BY <1>6
  DEF BeginSample, NoProof, readiness, fences, watch, sdk, ClockInv, ShapesOK, ReadinessOK, Samples
<1>7. CASE SampleBefore
  BY <1>7
  DEF SampleBefore, NoProof, readiness, fences, watch, sdk, ClockInv, ShapesOK, ReadinessOK, Samples
<1>8. CASE SampleExits
  BY <1>8
  DEF SampleExits, NoProof, readiness, fences, watch, sdk, ClockInv, ShapesOK, ReadinessOK, Samples
<1>9. CASE SampleAfter
  BY <1>9
  DEF SampleAfter, NoProof, readiness, fences, watch, sdk, ClockInv, ShapesOK, ReadinessOK, Samples
<1>10. CASE CompleteSample
  BY <1>10
  DEF CompleteSample, SampleProves, Higher, Between, NoProof, readiness, fences, watch, sdk, ClockInv, ShapesOK, ReadinessOK, Samples
<1>11. CASE Freeze
  BY <1>11
  DEF Freeze, ProofBarrier, NewRevision, NoProof, readiness, fences, watch, sdk, ClockInv, ShapesOK, ReadinessOK, Samples
<1>12. CASE Ready
  BY <1>12
  DEF Ready, readiness, fences, watch, sdk, ClockInv, ShapesOK, ReadinessOK, Samples
<1>13. CASE ApplyWaits
  BY <1>13
  DEF ApplyWaits, NoTicket, readiness, fences, watch, sdk, ClockInv, ShapesOK, ReadinessOK, Samples
<1>14. CASE Commit
  BY <1>14
  DEF Commit, NoTicket, readiness, fences, watch, sdk, ClockInv, ShapesOK, ReadinessOK, Samples
<1>15. CASE WatchStop
  BY <1>15
  DEF WatchStop, Between, NoProof, readiness, fences, watch, sdk, ClockInv, ShapesOK, ReadinessOK, Samples
<1>16. CASE WatchStart
  BY <1>16
  DEF WatchStart, Invalidate, NewRevision, Between, NoProof, readiness, fences, watch, sdk, ClockInv, ShapesOK, ReadinessOK, Samples
<1>17. ASSUME NEW g \in 0..MaxGeneration, WindowStatusEvent(g) PROVE ClockInv'
  BY <1>17
  DEF WindowStatusEvent, Invalidate, NewRevision, NoProof, readiness, fences, watch, sdk, ClockInv, ShapesOK, ReadinessOK, Samples
<1>18. ASSUME NEW c \in Callbacks, EgressEvent(c) PROVE ClockInv'
  BY <1>18
  DEF EgressEvent, readiness, fences, watch, sdk, ClockInv, ShapesOK, ReadinessOK, Samples
<1>19. ASSUME NEW c \in Callbacks, NetworkChanged(c) PROVE ClockInv'
  BY <1>19
  DEF NetworkChanged, ProofBarrier, NewRevision, NoProof, readiness, fences, watch, sdk, ClockInv, ShapesOK, ReadinessOK, Samples
<1>20. CASE UNCHANGED vars
  BY <1>20 DEF vars, readiness, fences, watch, sdk, ClockInv, ShapesOK, ReadinessOK, Samples
<1> QED
  BY <1>1, <1>2, <1>3, <1>4, <1>5, <1>6, <1>7, <1>8, <1>9, <1>10, <1>11, <1>12, <1>13,
     <1>14, <1>15, <1>16, <1>17, <1>18, <1>19, <1>20
  DEF Next, Sdk, Sample, Evaluate

\* A sample stays current only while the barrier it was begun under stands.
LEMMA SampleInductive == SampleInv /\ ShapesOK /\ ClockInv /\ [Next]_vars => SampleInv'
<1> SUFFICES ASSUME SampleInv, ShapesOK, ClockInv, [Next]_vars PROVE SampleInv'
  OBVIOUS
<1> USE BoundsAssumption DEF Times
<1>1. CASE Tick
  BY <1>1 DEF Tick, readiness, fences, watch, sdk, SampleInv, ShapesOK, ReadinessOK, Samples
<1>2. CASE SdkRebuild
  BY <1>2
  DEF SdkRebuild, readiness, fences, watch, sdk, SampleInv, ShapesOK, ReadinessOK, Samples
<1>3. CASE SdkExit
  BY <1>3
  DEF SdkExit, readiness, fences, watch, sdk, SampleInv, ShapesOK, ReadinessOK, Samples
<1>4. CASE Cancel
  BY <1>4
  DEF Cancel, NewRevision, NoProof, readiness, fences, watch, sdk, SampleInv, ShapesOK, ReadinessOK, Samples
<1>5. CASE WatchCancel
  BY <1>5
  DEF WatchCancel, Between, NoProof, readiness, fences, watch, sdk, SampleInv, ShapesOK, ReadinessOK, Samples
<1>6. CASE BeginSample
  BY <1>6
  DEF BeginSample, NoProof, readiness, fences, watch, sdk, SampleInv, ShapesOK, ReadinessOK, Samples
<1>7. CASE SampleBefore
  BY <1>7
  DEF SampleBefore, NoProof, readiness, fences, watch, sdk, SampleInv, ShapesOK, ReadinessOK, Samples
<1>8. CASE SampleExits
  <2>1. sampler'.pc = "after" /\ holders' = holders /\ proofSince' = proofSince
    BY <1>8 DEF SampleExits, readiness
  <2>2. SUFFICES ASSUME "sample" \in holders, sampler'.read.at >= 0
                 PROVE  sampler'.read.at > proofSince
    BY <2>1 DEF SampleInv
  <2>3. /\ sampler'.read.at = probedAt /\ CaptureExitIsUsable(sampler)
        /\ sampler.since = proofSince
    BY <1>8, <2>2 DEF SampleExits, NoProof, SampleInv
  <2> DEFINE stamp == sampler.stamp
  <2>4. clock \in Int /\ stamp \in Int /\ probedAt \in Int /\ proofSince \in Int
        /\ stamp <= clock /\ probedAt <= clock /\ proofSince >= -1
    BY DEF ShapesOK, ReadinessOK, Samples, ClockInv
  <2> HIDE DEF stamp
  <2>5. CASE proofSince < 0
    BY <2>2, <2>3, <2>4, <2>5
  <2>6. CASE proofSince >= 0
    <3>1. /\ stamp - proofSince >= Resolution
          /\ (clock - probedAt) \div Second <= (stamp - proofSince - Resolution) \div Second
      BY <2>3, <2>4, <2>6 DEF CaptureExitIsUsable, CaptureProofAfterNetworkChange, stamp
    <3>2. probedAt > proofSince
      BY <3>1, <2>4, TruncatedAge
    <3> QED
      BY <3>2, <2>3
  <2> QED
    BY <2>4, <2>5, <2>6
<1>9. CASE SampleAfter
  BY <1>9
  DEF SampleAfter, NoProof, readiness, fences, watch, sdk, SampleInv, ShapesOK, ReadinessOK, Samples
<1>10. CASE CompleteSample
  BY <1>10
  DEF CompleteSample, SampleProves, Higher, Between, NoProof, readiness, fences, watch, sdk, SampleInv, ShapesOK, ReadinessOK, Samples
<1>11. CASE Freeze
  BY <1>11
  DEF Freeze, ProofBarrier, NewRevision, NoProof, readiness, fences, watch, sdk, SampleInv, ShapesOK, ReadinessOK, Samples
<1>12. CASE Ready
  BY <1>12
  DEF Ready, readiness, fences, watch, sdk, SampleInv, ShapesOK, ReadinessOK, Samples
<1>13. CASE ApplyWaits
  BY <1>13
  DEF ApplyWaits, NoTicket, readiness, fences, watch, sdk, SampleInv, ShapesOK, ReadinessOK, Samples
<1>14. CASE Commit
  BY <1>14
  DEF Commit, NoTicket, readiness, fences, watch, sdk, SampleInv, ShapesOK, ReadinessOK, Samples
<1>15. CASE WatchStop
  BY <1>15
  DEF WatchStop, Between, NoProof, readiness, fences, watch, sdk, SampleInv, ShapesOK, ReadinessOK, Samples
<1>16. CASE WatchStart
  BY <1>16
  DEF WatchStart, Invalidate, NewRevision, Between, NoProof, readiness, fences, watch, sdk, SampleInv, ShapesOK, ReadinessOK, Samples
<1>17. ASSUME NEW g \in 0..MaxGeneration, WindowStatusEvent(g) PROVE SampleInv'
  BY <1>17
  DEF WindowStatusEvent, Invalidate, NewRevision, NoProof, readiness, fences, watch, sdk, SampleInv, ShapesOK, ReadinessOK, Samples
<1>18. ASSUME NEW c \in Callbacks, EgressEvent(c) PROVE SampleInv'
  BY <1>18
  DEF EgressEvent, readiness, fences, watch, sdk, SampleInv, ShapesOK, ReadinessOK, Samples
<1>19. ASSUME NEW c \in Callbacks, NetworkChanged(c) PROVE SampleInv'
  BY <1>19
  DEF NetworkChanged, ProofBarrier, NewRevision, NoProof, readiness, fences, watch, sdk, SampleInv, ShapesOK, ReadinessOK, Samples
<1>20. CASE UNCHANGED vars
  BY <1>20
  DEF vars, readiness, fences, watch, sdk, SampleInv, ShapesOK, ReadinessOK, Samples
<1> QED
  BY <1>1, <1>2, <1>3, <1>4, <1>5, <1>6, <1>7, <1>8, <1>9, <1>10, <1>11, <1>12, <1>13,
     <1>14, <1>15, <1>16, <1>17, <1>18, <1>19, <1>20
  DEF Next, Sdk, Sample, Evaluate

\* A sample sees the windows in the order they were built.
LEMMA WindowInductive == WindowInv /\ ShapesOK /\ [Next]_vars => WindowInv'
<1> SUFFICES ASSUME WindowInv, ShapesOK, [Next]_vars PROVE WindowInv'
  OBVIOUS
<1> USE BoundsAssumption DEF Times
<1>1. CASE Tick
  BY <1>1 DEF Tick, readiness, fences, watch, sdk, WindowInv, ShapesOK, ReadinessOK, Samples
<1>2. CASE SdkRebuild
  BY <1>2
  DEF SdkRebuild, readiness, fences, watch, sdk, WindowInv, ShapesOK, ReadinessOK, Samples
<1>3. CASE SdkExit
  BY <1>3
  DEF SdkExit, readiness, fences, watch, sdk, WindowInv, ShapesOK, ReadinessOK, Samples
<1>4. CASE Cancel
  BY <1>4
  DEF Cancel, NewRevision, NoProof, readiness, fences, watch, sdk, WindowInv, ShapesOK, ReadinessOK, Samples
<1>5. CASE WatchCancel
  BY <1>5
  DEF WatchCancel, Between, NoProof, readiness, fences, watch, sdk, WindowInv, ShapesOK, ReadinessOK, Samples
<1>6. CASE BeginSample
  BY <1>6
  DEF BeginSample, NoProof, readiness, fences, watch, sdk, WindowInv, ShapesOK, ReadinessOK, Samples
<1>7. CASE SampleBefore
  BY <1>7
  DEF SampleBefore, NoProof, readiness, fences, watch, sdk, WindowInv, ShapesOK, ReadinessOK, Samples
<1>8. CASE SampleExits
  BY <1>8
  DEF SampleExits, NoProof, readiness, fences, watch, sdk, WindowInv, ShapesOK, ReadinessOK, Samples
<1>9. CASE SampleAfter
  BY <1>9
  DEF SampleAfter, NoProof, readiness, fences, watch, sdk, WindowInv, ShapesOK, ReadinessOK, Samples
<1>10. CASE CompleteSample
  BY <1>10
  DEF CompleteSample, SampleProves, Higher, Between, NoProof, readiness, fences, watch, sdk, WindowInv, ShapesOK, ReadinessOK, Samples
<1>11. CASE Freeze
  BY <1>11
  DEF Freeze, ProofBarrier, NewRevision, NoProof, readiness, fences, watch, sdk, WindowInv, ShapesOK, ReadinessOK, Samples
<1>12. CASE Ready
  BY <1>12
  DEF Ready, readiness, fences, watch, sdk, WindowInv, ShapesOK, ReadinessOK, Samples
<1>13. CASE ApplyWaits
  BY <1>13
  DEF ApplyWaits, NoTicket, readiness, fences, watch, sdk, WindowInv, ShapesOK, ReadinessOK, Samples
<1>14. CASE Commit
  BY <1>14
  DEF Commit, NoTicket, readiness, fences, watch, sdk, WindowInv, ShapesOK, ReadinessOK, Samples
<1>15. CASE WatchStop
  BY <1>15
  DEF WatchStop, Between, NoProof, readiness, fences, watch, sdk, WindowInv, ShapesOK, ReadinessOK, Samples
<1>16. CASE WatchStart
  BY <1>16
  DEF WatchStart, Invalidate, NewRevision, Between, NoProof, readiness, fences, watch, sdk, WindowInv, ShapesOK, ReadinessOK, Samples
<1>17. ASSUME NEW g \in 0..MaxGeneration, WindowStatusEvent(g) PROVE WindowInv'
  BY <1>17
  DEF WindowStatusEvent, Invalidate, NewRevision, NoProof, readiness, fences, watch, sdk, WindowInv, ShapesOK, ReadinessOK, Samples
<1>18. ASSUME NEW c \in Callbacks, EgressEvent(c) PROVE WindowInv'
  BY <1>18
  DEF EgressEvent, readiness, fences, watch, sdk, WindowInv, ShapesOK, ReadinessOK, Samples
<1>19. ASSUME NEW c \in Callbacks, NetworkChanged(c) PROVE WindowInv'
  BY <1>19
  DEF NetworkChanged, ProofBarrier, NewRevision, NoProof, readiness, fences, watch, sdk, WindowInv, ShapesOK, ReadinessOK, Samples
<1>20. CASE UNCHANGED vars
  BY <1>20
  DEF vars, readiness, fences, watch, sdk, WindowInv, ShapesOK, ReadinessOK, Samples
<1> QED
  BY <1>1, <1>2, <1>3, <1>4, <1>5, <1>6, <1>7, <1>8, <1>9, <1>10, <1>11, <1>12, <1>13,
     <1>14, <1>15, <1>16, <1>17, <1>18, <1>19, <1>20
  DEF Next, Sdk, Sample, Evaluate

\* What proves a capture is voided by everything that could make it stale.
LEMMA ProvenInductive ==
  ProvenInv /\ ShapesOK /\ SampleInv /\ WindowInv /\ [Next]_vars => ProvenInv'
<1> SUFFICES ASSUME ProvenInv, ShapesOK, SampleInv, WindowInv, [Next]_vars PROVE ProvenInv'
  OBVIOUS
<1> USE BoundsAssumption DEF Times
<1>1. CASE Tick
  BY <1>1 DEF Tick, readiness, fences, watch, sdk, ProvenInv, ShapesOK, ReadinessOK, Samples
<1>2. CASE SdkRebuild
  BY <1>2
  DEF SdkRebuild, readiness, fences, watch, sdk, ProvenInv, ShapesOK, ReadinessOK, Samples
<1>3. CASE SdkExit
  BY <1>3
  DEF SdkExit, readiness, fences, watch, sdk, ProvenInv, ShapesOK, ReadinessOK, Samples
<1>4. CASE Cancel
  BY <1>4
  DEF Cancel, NewRevision, NoProof, readiness, fences, watch, sdk, ProvenInv, ShapesOK, ReadinessOK, Samples
<1>5. CASE WatchCancel
  BY <1>5
  DEF WatchCancel, Between, NoProof, readiness, fences, watch, sdk, ProvenInv, ShapesOK, ReadinessOK, Samples
<1>6. CASE BeginSample
  BY <1>6
  DEF BeginSample, NoProof, readiness, fences, watch, sdk, ProvenInv, ShapesOK, ReadinessOK, Samples
<1>7. CASE SampleBefore
  BY <1>7
  DEF SampleBefore, NoProof, readiness, fences, watch, sdk, ProvenInv, ShapesOK, ReadinessOK, Samples
<1>8. CASE SampleExits
  BY <1>8
  DEF SampleExits, NoProof, readiness, fences, watch, sdk, ProvenInv, ShapesOK, ReadinessOK, Samples
<1>9. CASE SampleAfter
  BY <1>9
  DEF SampleAfter, NoProof, readiness, fences, watch, sdk, ProvenInv, ShapesOK, ReadinessOK, Samples
<1>10. CASE CompleteSample
  <2>1. CASE UNCHANGED readiness
    BY <2>1 DEF readiness, ProvenInv
  <2>2. CASE ~UNCHANGED readiness
    <3> SUFFICES ASSUME proven' PROVE proof'.gen = generation' /\ proof'.at > proofSince'
      BY DEF ProvenInv
    <3>1. /\ sampler.pc = "complete" /\ "sample" \in holders /\ proofSince' = proofSince
          /\ sampler.before >= 0 /\ sampler.after >= 0 /\ SampleProves(sampler)
          /\ proof' = sampler.read
          /\ generation' = Higher(generation, Higher(sampler.before, sampler.after))
      BY <1>10, <2>2 DEF CompleteSample
    <3>2. sampler.read.gen = sampler.after /\ sampler.read.at > proofSince
      BY <3>1 DEF SampleProves, SampleInv, WindowInv, ShapesOK, Samples
    <3>3. generation' = sampler.after
      BY <3>1 DEF SampleProves, Higher, ShapesOK, ReadinessOK, Samples
    <3> QED
      BY <3>1, <3>2, <3>3
  <2> QED
    BY <2>1, <2>2
<1>11. CASE Freeze
  BY <1>11
  DEF Freeze, ProofBarrier, NewRevision, NoProof, readiness, fences, watch, sdk, ProvenInv, ShapesOK, ReadinessOK, Samples
<1>12. CASE Ready
  BY <1>12
  DEF Ready, readiness, fences, watch, sdk, ProvenInv, ShapesOK, ReadinessOK, Samples
<1>13. CASE ApplyWaits
  BY <1>13
  DEF ApplyWaits, NoTicket, readiness, fences, watch, sdk, ProvenInv, ShapesOK, ReadinessOK, Samples
<1>14. CASE Commit
  BY <1>14
  DEF Commit, NoTicket, readiness, fences, watch, sdk, ProvenInv, ShapesOK, ReadinessOK, Samples
<1>15. CASE WatchStop
  BY <1>15
  DEF WatchStop, Between, NoProof, readiness, fences, watch, sdk, ProvenInv, ShapesOK, ReadinessOK, Samples
<1>16. CASE WatchStart
  BY <1>16
  DEF WatchStart, Invalidate, NewRevision, Between, NoProof, readiness, fences, watch, sdk, ProvenInv, ShapesOK, ReadinessOK, Samples
<1>17. ASSUME NEW g \in 0..MaxGeneration, WindowStatusEvent(g) PROVE ProvenInv'
  BY <1>17
  DEF WindowStatusEvent, Invalidate, NewRevision, NoProof, readiness, fences, watch, sdk, ProvenInv, ShapesOK, ReadinessOK, Samples
<1>18. ASSUME NEW c \in Callbacks, EgressEvent(c) PROVE ProvenInv'
  BY <1>18
  DEF EgressEvent, readiness, fences, watch, sdk, ProvenInv, ShapesOK, ReadinessOK, Samples
<1>19. ASSUME NEW c \in Callbacks, NetworkChanged(c) PROVE ProvenInv'
  BY <1>19
  DEF NetworkChanged, ProofBarrier, NewRevision, NoProof, readiness, fences, watch, sdk, ProvenInv, ShapesOK, ReadinessOK, Samples
<1>20. CASE UNCHANGED vars
  BY <1>20
  DEF vars, readiness, fences, watch, sdk, ProvenInv, ShapesOK, ReadinessOK, Samples
<1> QED
  BY <1>1, <1>2, <1>3, <1>4, <1>5, <1>6, <1>7, <1>8, <1>9, <1>10, <1>11, <1>12, <1>13,
     <1>14, <1>15, <1>16, <1>17, <1>18, <1>19, <1>20
  DEF Next, Sdk, Sample, Evaluate

\* The type invariant is the two typing parts.
LEMMA TypeParts == TypeOK <=> FlagsOK /\ ShapesOK
  BY DEF TypeOK, FlagsOK, ShapesOK, ReadinessOK, Samples

\* The invariant holds of every reachable state.
THEOREM Invariance == Spec => []IInv
<1>1. Init => IInv
  <2>1. Init => FlagsOK
    BY Zenon DEF Init, FlagsOK
  <2>2. Init => ShapesOK
    BY BoundsAssumption
   
    DEF Init, ShapesOK, ReadinessOK, Samples, SamplerPlaces, Times, Between, NoProof, NoTicket
  <2>3. Init => ClockInv /\ SampleInv /\ WindowInv /\ ProvenInv
    BY DEF Init, ClockInv, SampleInv, WindowInv, ProvenInv, Between, NoProof
  <2> QED
    BY <2>1, <2>2, <2>3, TypeParts DEF IInv
<1>2. IInv /\ [Next]_vars => IInv'
  <2> SUFFICES ASSUME IInv, [Next]_vars PROVE IInv'
    OBVIOUS
  <2>1. FlagsOK /\ ShapesOK /\ ClockInv /\ SampleInv /\ WindowInv /\ ProvenInv
    BY TypeParts DEF IInv
  <2>2. FlagsOK' /\ ShapesOK' /\ ClockInv' /\ SampleInv' /\ WindowInv' /\ ProvenInv'
    BY <2>1, FlagsInductive, ShapesInductive, ClockInductive, SampleInductive,
       WindowInductive, ProvenInductive
  <2>3. TypeOK'
    BY <2>2 DEF TypeOK, FlagsOK, ShapesOK, ReadinessOK, Samples
  <2> QED
    BY <2>2, <2>3 DEF IInv
<1> QED
  BY <1>1, <1>2, PTL DEF Spec

\* Every variable stays in its type, whatever the bounds and the settings.
THEOREM TypeCorrect == Spec => []TypeOK
<1>1. IInv => TypeOK
  BY DEF IInv
<1> QED
  BY <1>1, Invariance, PTL

\* Only Commit activates the capture, and Commit checks proven_.
LEMMA OnlyCommitActivates ==
  FlagsOK /\ [Next]_vars /\ ~active /\ active' => proven /\ UNCHANGED readiness
<1> SUFFICES ASSUME FlagsOK, [Next]_vars, ~active, active' PROVE proven /\ UNCHANGED readiness
  OBVIOUS
<1>1. CASE Tick
  BY <1>1, Zenon DEF Tick, fences
<1>2. CASE SdkRebuild
  BY <1>2, Zenon DEF SdkRebuild, fences
<1>3. CASE SdkExit
  BY <1>3, Zenon DEF SdkExit, fences
<1>4. CASE Cancel
  BY <1>4, Zenon DEF Cancel, fences
<1>5. CASE WatchCancel
  BY <1>5, Zenon DEF WatchCancel, fences
<1>6. CASE BeginSample
  BY <1>6, Zenon DEF BeginSample, fences
<1>7. CASE SampleBefore
  BY <1>7, Zenon DEF SampleBefore, fences
<1>8. CASE SampleExits
  BY <1>8, Zenon DEF SampleExits, fences
<1>9. CASE SampleAfter
  BY <1>9, Zenon DEF SampleAfter, fences
<1>10. CASE CompleteSample
  BY <1>10, Zenon DEF CompleteSample, fences
<1>11. CASE Freeze
  BY <1>11, Zenon DEF Freeze, fences
<1>12. CASE Ready
  BY <1>12, Zenon DEF Ready, fences
<1>13. CASE ApplyWaits
  BY <1>13, Zenon DEF ApplyWaits, fences
<1>14. CASE WatchStop
  BY <1>14, Zenon DEF WatchStop, fences
<1>15. CASE WatchStart
  BY <1>15, Zenon DEF WatchStart, fences
<1>16. CASE Commit
  BY <1>16 DEF Commit, Current
<1>17. ASSUME NEW g \in 0..MaxGeneration, WindowStatusEvent(g) PROVE FALSE
  BY <1>17, Zenon DEF WindowStatusEvent, fences
<1>18. ASSUME NEW c \in Callbacks, EgressEvent(c) \/ NetworkChanged(c) PROVE FALSE
  BY <1>18, Zenon DEF EgressEvent, NetworkChanged, fences
<1>19. CASE UNCHANGED vars
  BY <1>19, Zenon DEF vars, fences
<1> QED
  BY <1>1, <1>2, <1>3, <1>4, <1>5, <1>6, <1>7, <1>8, <1>9, <1>10, <1>11, <1>12, <1>13,
     <1>14, <1>15, <1>16, <1>17, <1>18, <1>19
  DEF Next, Sdk, Sample, Evaluate

\* A capture commits only on an exit of the window its ticket names, probed after
\* the last network change or stall, for every interleaving of the sample, the
\* callbacks and the activation and every truncation of the probe age.
THEOREM CaptureIsProven == Spec => CommitsOnCurrentProof
<1>1. IInv /\ [Next]_vars
        => [~active /\ active' => proof.gen = generation /\ proof.at > proofSince]_vars
  BY OnlyCommitActivates, TypeParts DEF IInv, ProvenInv
<1> QED
  BY <1>1, Invariance, PTL DEF Spec, CommitsOnCurrentProof

\* A ticket in hand has not been spent.
TicketInv == evaluator = "apply" => ~active

\* Every step of the readiness and its watches gives, drops, spends or cancels
\* the grant, or leaves it.
LEMMA GrantStep ==
  FlagsOK /\ TicketInv /\ [Next]_vars => TicketInv' /\ [Grant!Next]_<<cancelled, grant>>
<1> SUFFICES ASSUME FlagsOK, TicketInv, [Next]_vars
             PROVE  TicketInv' /\ [Grant!Next]_<<cancelled, grant>>
  OBVIOUS
<1> USE DEF FlagsOK, TicketInv, grant, Grant!Next, Grant!Take, Grant!Drop, Grant!Spend, Grant!Cancel
<1>1. CASE Tick
  BY <1>1 DEF Tick, fences, watch
<1>2. CASE SdkRebuild
  BY <1>2 DEF SdkRebuild, fences, watch
<1>3. CASE SdkExit
  BY <1>3 DEF SdkExit, fences, watch
<1>4. CASE Cancel
  BY <1>4 DEF Cancel, watch
<1>5. CASE WatchCancel
  BY <1>5 DEF WatchCancel, fences
<1>6. CASE BeginSample
  BY <1>6 DEF BeginSample, fences, watch
<1>7. CASE SampleBefore
  BY <1>7 DEF SampleBefore, fences, watch
<1>8. CASE SampleExits
  BY <1>8 DEF SampleExits, fences, watch
<1>9. CASE SampleAfter
  BY <1>9 DEF SampleAfter, fences, watch
<1>10. CASE CompleteSample
  BY <1>10 DEF CompleteSample, fences, watch
<1>11. CASE Freeze
  BY <1>11 DEF Freeze, fences, watch
<1>12. CASE Ready
  BY <1>12 DEF Ready, fences
<1>13. CASE ApplyWaits
  BY <1>13 DEF ApplyWaits, fences
<1>14. CASE Commit
  BY <1>14 DEF Commit, Current
<1>15. CASE WatchStop
  BY <1>15 DEF WatchStop, fences
<1>16. CASE WatchStart
  BY <1>16 DEF WatchStart, fences
<1>17. ASSUME NEW g \in 0..MaxGeneration, WindowStatusEvent(g)
      PROVE  TicketInv' /\ [Grant!Next]_<<cancelled, grant>>
  BY <1>17 DEF WindowStatusEvent, fences, watch
<1>18. ASSUME NEW c \in Callbacks, EgressEvent(c) \/ NetworkChanged(c)
      PROVE  TicketInv' /\ [Grant!Next]_<<cancelled, grant>>
  BY <1>18 DEF EgressEvent, NetworkChanged, fences, watch
<1>19. CASE UNCHANGED vars
  BY <1>19 DEF vars, fences, watch
<1> QED
  BY <1>1, <1>2, <1>3, <1>4, <1>5, <1>6, <1>7, <1>8, <1>9, <1>10, <1>11, <1>12,
     <1>13, <1>14, <1>15, <1>16, <1>17, <1>18, <1>19
  DEF Next, Sdk, Sample, Evaluate

\* The readiness keeps its side of CaptureGrant: no ticket is given, and none passes
\* the last check, once a stop has cancelled it, for every interleaving of stops,
\* samples, callbacks and watches (Cancel, CurrentWithLock).
THEOREM ReadinessImplementsGrant == Spec => ReadinessGives
<1>1. Init => TicketInv /\ Grant!Init
  BY DEF Init, TicketInv, Grant!Init, grant
<1>2. IInv => FlagsOK
  BY TypeParts DEF IInv
<1> QED
  BY <1>1, <1>2, GrantStep, Invariance, PTL DEF Spec, ReadinessGives, Grant!Spec
=============================================================================
