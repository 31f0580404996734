------------------------ MODULE NetworkNotify_proofs ------------------------
(***************************************************************************)
(* Proofs about NetworkNotify, for every set of callback threads and every  *)
(* number of watches. The inductive invariant adds to the type and to       *)
(* UntoldIsPending                                                          *)
(*   WatchInv   which channel is listening, by where its starter is;        *)
(*   CallInv    a call in progress on the current event is one that began   *)
(*              since the last move;                                        *)
(*   StrandInv  who carries an event the device has not heard of.           *)
(***************************************************************************)
EXTENDS NetworkNotify, TLAPS

FlagsOK ==
  cancelled \in BOOLEAN /\ pending \in BOOLEAN /\ untold \in BOOLEAN /\ threw \in BOOLEAN

ShapesOK ==
  /\ current \subseteq Channels
  /\ last \in 0..Watches /\ channel \in 0..last
  /\ closed \subseteq 1..last /\ burst \subseteq 1..last
  /\ sampler \in [Channels -> {"none", "sleep", "tell", "telling", "sample", "exited"}]
  /\ evaluator \in {"create", "replay", "watch", "observe"}
  /\ callback \in [Callbacks -> {"idle", "changed"}]
  /\ callers \subseteq Channels

\* A watch being made has its channel ahead of it, one that runs has the newest
\* and open one unless the session is over.
WatchInv ==
  /\ evaluator = "create" => channel = 0 /\ last < Watches
  /\ evaluator # "create" => last > 0
  /\ evaluator = "replay" => channel = last /\ last \notin closed
  /\ evaluator \in {"watch", "observe"} /\ ~cancelled => channel = last /\ last \notin closed

CallInv ==
  /\ UntoldIsPending
  /\ \A w \in Channels : sampler[w] = "telling" /\ w \in current => w \in callers

StrandInv ==
  pending /\ ~cancelled /\ ~threw /\ evaluator = "watch"
    => \/ channel \in burst
       \/ sampler[channel] \in {"tell", "telling"} /\ channel \in current
       \/ \E c \in Callbacks : callback[c] = "changed"

IInv == TypeOK /\ WatchInv /\ CallInv /\ StrandInv

\* The flags stay Boolean.
LEMMA FlagsInductive == FlagsOK /\ [Next]_vars => FlagsOK'
<1> SUFFICES ASSUME FlagsOK, [Next]_vars PROVE FlagsOK'
  OBVIOUS
<1>1. CASE Cancel
  BY <1>1, Zenon DEF Cancel, events, watch, told, FlagsOK
<1>2. CASE WatchCancel
  BY <1>2, Zenon DEF WatchCancel, events, watch, told, FlagsOK
<1>3. CASE WatchStop
  BY <1>3, Zenon DEF WatchStop, events, watch, told, FlagsOK
<1>4. CASE WatchCreate
  BY <1>4, Zenon DEF WatchCreate, events, watch, told, FlagsOK
<1>5. CASE WatchReplay
  BY <1>5, Zenon DEF WatchReplay, Observe, Listening, events, watch, told, FlagsOK
<1>6. CASE Freeze
  BY <1>6, Zenon DEF Freeze, NetworkChanged, events, watch, told, FlagsOK
<1>7. CASE FreezeObserve
  BY <1>7, Zenon DEF FreezeObserve, Observe, events, watch, told, FlagsOK
<1>8. ASSUME NEW c \in Callbacks, EgressEvent(c) PROVE FlagsOK'
  BY <1>8, Zenon DEF EgressEvent, NetworkChanged, events, watch, told, FlagsOK
<1>9. ASSUME NEW c \in Callbacks, NoteNetworkEvent(c) PROVE FlagsOK'
  BY <1>9, Zenon DEF NoteNetworkEvent, Observe, Listening, events, watch, told, FlagsOK
<1>10. ASSUME NEW w \in Channels, SamplerExits(w) PROVE FlagsOK'
  BY <1>10, Zenon DEF SamplerExits, SamplerGoes, events, watch, told, FlagsOK
<1>11. ASSUME NEW w \in Channels, SamplerTakes(w) PROVE FlagsOK'
  BY <1>11, Zenon DEF SamplerTakes, SamplerGoes, events, watch, told, FlagsOK
<1>12. ASSUME NEW w \in Channels, SamplerTells(w) PROVE FlagsOK'
  BY <1>12, Zenon DEF SamplerTells, SamplerGoes, events, watch, told, FlagsOK
<1>13. ASSUME NEW w \in Channels, SamplerTold(w) PROVE FlagsOK'
  BY <1>13, Zenon
  DEF SamplerTold, SamplerGoes, NetworkEventHandled, events, watch, told, FlagsOK
<1>14. ASSUME NEW w \in Channels, SamplerTellThrows(w) PROVE FlagsOK'
  BY <1>14, Zenon DEF SamplerTellThrows, SamplerGoes, events, watch, told, FlagsOK
<1>15. ASSUME NEW w \in Channels, SampleBegins(w) PROVE FlagsOK'
  BY <1>15, Zenon DEF SampleBegins, SamplerGoes, events, watch, told, FlagsOK
<1>16. ASSUME NEW w \in Channels, SampleEnds(w) PROVE FlagsOK'
  BY <1>16, Zenon DEF SampleEnds, SamplerGoes, events, watch, told, FlagsOK
<1>17. CASE UNCHANGED vars
  BY <1>17, Zenon DEF vars, events, watch, told, FlagsOK
<1> QED
  BY <1>1, <1>2, <1>3, <1>4, <1>5, <1>6, <1>7, <1>8, <1>9, <1>10, <1>11, <1>12, <1>13,
     <1>14, <1>15, <1>16, <1>17
  DEF Next, Start, Tell

\* The sets, numbers and places stay in their types.
LEMMA ShapesInductive == ShapesOK /\ WatchInv /\ [Next]_vars => ShapesOK'
<1> SUFFICES ASSUME ShapesOK, WatchInv, [Next]_vars PROVE ShapesOK'
  OBVIOUS
<1> USE WatchesAssumption DEF Channels
<1>1. CASE Cancel
  BY <1>1 DEF Cancel, events, watch, told, ShapesOK, WatchInv
<1>2. CASE WatchCancel
  BY <1>2 DEF WatchCancel, events, watch, told, ShapesOK, WatchInv
<1>3. CASE WatchStop
  BY <1>3 DEF WatchStop, events, watch, told, ShapesOK, WatchInv
<1>4. CASE WatchCreate
  BY <1>4 DEF WatchCreate, events, watch, told, ShapesOK, WatchInv
<1>5. CASE WatchReplay
  BY <1>5 DEF WatchReplay, Observe, Listening, events, watch, told, ShapesOK, WatchInv
<1>6. CASE Freeze
  BY <1>6 DEF Freeze, NetworkChanged, events, watch, told, ShapesOK, WatchInv
<1>7. CASE FreezeObserve
  BY <1>7 DEF FreezeObserve, Observe, events, watch, told, ShapesOK, WatchInv
<1>8. ASSUME NEW c \in Callbacks, EgressEvent(c) PROVE ShapesOK'
  BY <1>8 DEF EgressEvent, NetworkChanged, events, watch, told, ShapesOK, WatchInv
<1>9. ASSUME NEW c \in Callbacks, NoteNetworkEvent(c) PROVE ShapesOK'
  BY <1>9 DEF NoteNetworkEvent, Observe, Listening, events, watch, told, ShapesOK, WatchInv
<1>10. ASSUME NEW w \in Channels, SamplerExits(w) PROVE ShapesOK'
  BY <1>10 DEF SamplerExits, SamplerGoes, events, watch, told, ShapesOK, WatchInv
<1>11. ASSUME NEW w \in Channels, SamplerTakes(w) PROVE ShapesOK'
  BY <1>11 DEF SamplerTakes, SamplerGoes, events, watch, told, ShapesOK, WatchInv
<1>12. ASSUME NEW w \in Channels, SamplerTells(w) PROVE ShapesOK'
  BY <1>12 DEF SamplerTells, SamplerGoes, events, watch, told, ShapesOK, WatchInv
<1>13. ASSUME NEW w \in Channels, SamplerTold(w) PROVE ShapesOK'
  BY <1>13
  DEF SamplerTold, SamplerGoes, NetworkEventHandled, events, watch, told, ShapesOK, WatchInv
<1>14. ASSUME NEW w \in Channels, SamplerTellThrows(w) PROVE ShapesOK'
  BY <1>14 DEF SamplerTellThrows, SamplerGoes, events, watch, told, ShapesOK, WatchInv
<1>15. ASSUME NEW w \in Channels, SampleBegins(w) PROVE ShapesOK'
  BY <1>15 DEF SampleBegins, SamplerGoes, events, watch, told, ShapesOK, WatchInv
<1>16. ASSUME NEW w \in Channels, SampleEnds(w) PROVE ShapesOK'
  BY <1>16 DEF SampleEnds, SamplerGoes, events, watch, told, ShapesOK, WatchInv
<1>17. CASE UNCHANGED vars
  BY <1>17 DEF vars, events, watch, told, ShapesOK, WatchInv
<1> QED
  BY <1>1, <1>2, <1>3, <1>4, <1>5, <1>6, <1>7, <1>8, <1>9, <1>10, <1>11, <1>12, <1>13,
     <1>14, <1>15, <1>16, <1>17
  DEF Next, Start, Tell

\* Every step keeps the newest channel the one that listens.
LEMMA WatchInductive == WatchInv /\ ShapesOK /\ [Next]_vars => WatchInv'
<1> SUFFICES ASSUME WatchInv, ShapesOK, [Next]_vars PROVE WatchInv'
  OBVIOUS
<1> USE WatchesAssumption DEF Channels
<1>1. CASE Cancel
  BY <1>1 DEF Cancel, events, watch, told, ShapesOK, WatchInv
<1>2. CASE WatchCancel
  BY <1>2 DEF WatchCancel, events, watch, told, ShapesOK, WatchInv
<1>3. CASE WatchStop
  BY <1>3 DEF WatchStop, events, watch, told, ShapesOK, WatchInv
<1>4. CASE WatchCreate
  BY <1>4 DEF WatchCreate, events, watch, told, ShapesOK, WatchInv
<1>5. CASE WatchReplay
  BY <1>5 DEF WatchReplay, Observe, Listening, events, watch, told, ShapesOK, WatchInv
<1>6. CASE Freeze
  BY <1>6 DEF Freeze, NetworkChanged, events, watch, told, ShapesOK, WatchInv
<1>7. CASE FreezeObserve
  BY <1>7 DEF FreezeObserve, Observe, events, watch, told, ShapesOK, WatchInv
<1>8. ASSUME NEW c \in Callbacks, EgressEvent(c) PROVE WatchInv'
  BY <1>8 DEF EgressEvent, NetworkChanged, events, watch, told, ShapesOK, WatchInv
<1>9. ASSUME NEW c \in Callbacks, NoteNetworkEvent(c) PROVE WatchInv'
  BY <1>9 DEF NoteNetworkEvent, Observe, Listening, events, watch, told, ShapesOK, WatchInv
<1>10. ASSUME NEW w \in Channels, SamplerExits(w) PROVE WatchInv'
  BY <1>10 DEF SamplerExits, SamplerGoes, events, watch, told, ShapesOK, WatchInv
<1>11. ASSUME NEW w \in Channels, SamplerTakes(w) PROVE WatchInv'
  BY <1>11 DEF SamplerTakes, SamplerGoes, events, watch, told, ShapesOK, WatchInv
<1>12. ASSUME NEW w \in Channels, SamplerTells(w) PROVE WatchInv'
  BY <1>12 DEF SamplerTells, SamplerGoes, events, watch, told, ShapesOK, WatchInv
<1>13. ASSUME NEW w \in Channels, SamplerTold(w) PROVE WatchInv'
  BY <1>13
  DEF SamplerTold, SamplerGoes, NetworkEventHandled, events, watch, told, ShapesOK, WatchInv
<1>14. ASSUME NEW w \in Channels, SamplerTellThrows(w) PROVE WatchInv'
  BY <1>14 DEF SamplerTellThrows, SamplerGoes, events, watch, told, ShapesOK, WatchInv
<1>15. ASSUME NEW w \in Channels, SampleBegins(w) PROVE WatchInv'
  BY <1>15 DEF SampleBegins, SamplerGoes, events, watch, told, ShapesOK, WatchInv
<1>16. ASSUME NEW w \in Channels, SampleEnds(w) PROVE WatchInv'
  BY <1>16 DEF SampleEnds, SamplerGoes, events, watch, told, ShapesOK, WatchInv
<1>17. CASE UNCHANGED vars
  BY <1>17 DEF vars, events, watch, told, ShapesOK, WatchInv
<1> QED
  BY <1>1, <1>2, <1>3, <1>4, <1>5, <1>6, <1>7, <1>8, <1>9, <1>10, <1>11, <1>12, <1>13,
     <1>14, <1>15, <1>16, <1>17
  DEF Next, Start, Tell

\* Every step keeps an untold move pending.
LEMMA CallInductive == CallInv /\ ShapesOK /\ [Next]_vars => CallInv'
<1> SUFFICES ASSUME CallInv, ShapesOK, [Next]_vars PROVE CallInv'
  OBVIOUS
<1> USE WatchesAssumption DEF Channels
<1>1. CASE Cancel
  BY <1>1 DEF Cancel, events, watch, told, ShapesOK, CallInv, UntoldIsPending
<1>2. CASE WatchCancel
  BY <1>2 DEF WatchCancel, events, watch, told, ShapesOK, CallInv, UntoldIsPending
<1>3. CASE WatchStop
  BY <1>3 DEF WatchStop, events, watch, told, ShapesOK, CallInv, UntoldIsPending
<1>4. CASE WatchCreate
  BY <1>4 DEF WatchCreate, events, watch, told, ShapesOK, CallInv, UntoldIsPending
<1>5. CASE WatchReplay
  BY <1>5
  DEF WatchReplay, Observe, Listening, events, watch, told, ShapesOK, CallInv,
      UntoldIsPending
<1>6. CASE Freeze
  BY <1>6 DEF Freeze, NetworkChanged, events, watch, told, ShapesOK, CallInv, UntoldIsPending
<1>7. CASE FreezeObserve
  BY <1>7 DEF FreezeObserve, Observe, events, watch, told, ShapesOK, CallInv, UntoldIsPending
<1>8. ASSUME NEW c \in Callbacks, EgressEvent(c) PROVE CallInv'
  BY <1>8
  DEF EgressEvent, NetworkChanged, events, watch, told, ShapesOK, CallInv, UntoldIsPending
<1>9. ASSUME NEW c \in Callbacks, NoteNetworkEvent(c) PROVE CallInv'
  BY <1>9
  DEF NoteNetworkEvent, Observe, Listening, events, watch, told, ShapesOK, CallInv,
      UntoldIsPending
<1>10. ASSUME NEW w \in Channels, SamplerExits(w) PROVE CallInv'
  BY <1>10
  DEF SamplerExits, SamplerGoes, events, watch, told, ShapesOK, CallInv, UntoldIsPending
<1>11. ASSUME NEW w \in Channels, SamplerTakes(w) PROVE CallInv'
  BY <1>11
  DEF SamplerTakes, SamplerGoes, events, watch, told, ShapesOK, CallInv, UntoldIsPending
<1>12. ASSUME NEW w \in Channels, SamplerTells(w) PROVE CallInv'
  BY <1>12
  DEF SamplerTells, SamplerGoes, events, watch, told, ShapesOK, CallInv, UntoldIsPending
<1>13. ASSUME NEW w \in Channels, SamplerTold(w) PROVE CallInv'
  BY <1>13
  DEF SamplerTold, SamplerGoes, NetworkEventHandled, events, watch, told, ShapesOK, CallInv,
      UntoldIsPending
<1>14. ASSUME NEW w \in Channels, SamplerTellThrows(w) PROVE CallInv'
  BY <1>14
  DEF SamplerTellThrows, SamplerGoes, events, watch, told, ShapesOK, CallInv,
      UntoldIsPending
<1>15. ASSUME NEW w \in Channels, SampleBegins(w) PROVE CallInv'
  BY <1>15
  DEF SampleBegins, SamplerGoes, events, watch, told, ShapesOK, CallInv, UntoldIsPending
<1>16. ASSUME NEW w \in Channels, SampleEnds(w) PROVE CallInv'
  BY <1>16 DEF SampleEnds, SamplerGoes, events, watch, told, ShapesOK, CallInv, UntoldIsPending
<1>17. CASE UNCHANGED vars
  BY <1>17 DEF vars, events, watch, told, ShapesOK, CallInv, UntoldIsPending
<1> QED
  BY <1>1, <1>2, <1>3, <1>4, <1>5, <1>6, <1>7, <1>8, <1>9, <1>10, <1>11, <1>12, <1>13,
     <1>14, <1>15, <1>16, <1>17
  DEF Next, Start, Tell

\* Every step keeps somebody carrying an untold event.
LEMMA StrandInductive == StrandInv /\ ShapesOK /\ WatchInv /\ [Next]_vars => StrandInv'
<1> SUFFICES ASSUME StrandInv, ShapesOK, WatchInv, [Next]_vars PROVE StrandInv'
  OBVIOUS
<1> USE WatchesAssumption DEF Channels
<1>1. CASE Cancel
  BY <1>1 DEF Cancel, events, watch, told, ShapesOK, WatchInv, StrandInv
<1>2. CASE WatchCancel
  BY <1>2 DEF WatchCancel, events, watch, told, ShapesOK, WatchInv, StrandInv
<1>3. CASE WatchStop
  BY <1>3 DEF WatchStop, events, watch, told, ShapesOK, WatchInv, StrandInv
<1>4. CASE WatchCreate
  BY <1>4 DEF WatchCreate, events, watch, told, ShapesOK, WatchInv, StrandInv
<1>5. CASE WatchReplay
  BY <1>5
  DEF WatchReplay, Observe, Listening, events, watch, told, ShapesOK, WatchInv, StrandInv
<1>6. CASE Freeze
  BY <1>6 DEF Freeze, NetworkChanged, events, watch, told, ShapesOK, WatchInv, StrandInv
<1>7. CASE FreezeObserve
  BY <1>7 DEF FreezeObserve, Observe, events, watch, told, ShapesOK, WatchInv, StrandInv
<1>8. ASSUME NEW c \in Callbacks, EgressEvent(c) PROVE StrandInv'
  BY <1>8 DEF EgressEvent, NetworkChanged, events, watch, told, ShapesOK, WatchInv, StrandInv
<1>9. ASSUME NEW c \in Callbacks, NoteNetworkEvent(c) PROVE StrandInv'
  BY <1>9
  DEF NoteNetworkEvent, Observe, Listening, events, watch, told, ShapesOK, WatchInv,
      StrandInv
<1>10. ASSUME NEW w \in Channels, SamplerExits(w) PROVE StrandInv'
  BY <1>10 DEF SamplerExits, SamplerGoes, events, watch, told, ShapesOK, WatchInv, StrandInv
<1>11. ASSUME NEW w \in Channels, SamplerTakes(w) PROVE StrandInv'
  BY <1>11 DEF SamplerTakes, SamplerGoes, events, watch, told, ShapesOK, WatchInv, StrandInv
<1>12. ASSUME NEW w \in Channels, SamplerTells(w) PROVE StrandInv'
  BY <1>12 DEF SamplerTells, SamplerGoes, events, watch, told, ShapesOK, WatchInv, StrandInv
<1>13. ASSUME NEW w \in Channels, SamplerTold(w) PROVE StrandInv'
  BY <1>13
  DEF SamplerTold, SamplerGoes, NetworkEventHandled, events, watch, told, ShapesOK,
      WatchInv, StrandInv
<1>14. ASSUME NEW w \in Channels, SamplerTellThrows(w) PROVE StrandInv'
  BY <1>14
  DEF SamplerTellThrows, SamplerGoes, events, watch, told, ShapesOK, WatchInv, StrandInv
<1>15. ASSUME NEW w \in Channels, SampleBegins(w) PROVE StrandInv'
  BY <1>15 DEF SampleBegins, SamplerGoes, events, watch, told, ShapesOK, WatchInv, StrandInv
<1>16. ASSUME NEW w \in Channels, SampleEnds(w) PROVE StrandInv'
  BY <1>16 DEF SampleEnds, SamplerGoes, events, watch, told, ShapesOK, WatchInv, StrandInv
<1>17. CASE UNCHANGED vars
  BY <1>17 DEF vars, events, watch, told, ShapesOK, WatchInv, StrandInv
<1> QED
  BY <1>1, <1>2, <1>3, <1>4, <1>5, <1>6, <1>7, <1>8, <1>9, <1>10, <1>11, <1>12, <1>13,
     <1>14, <1>15, <1>16, <1>17
  DEF Next, Start, Tell

\* The type invariant is the two typing parts.
LEMMA TypeParts == TypeOK <=> FlagsOK /\ ShapesOK
  BY DEF TypeOK, FlagsOK, ShapesOK

\* The invariant holds of every reachable state.
THEOREM Invariance == Spec => []IInv
<1>1. Init => IInv
  <2>1. Init => FlagsOK
    BY Zenon DEF Init, FlagsOK
  <2>2. Init => ShapesOK /\ WatchInv /\ CallInv /\ StrandInv
    BY WatchesAssumption
    DEF Init, ShapesOK, WatchInv, CallInv, UntoldIsPending, StrandInv, Channels
  <2> QED
    BY <2>1, <2>2, TypeParts DEF IInv
<1>2. IInv /\ [Next]_vars => IInv'
  <2> SUFFICES ASSUME IInv, [Next]_vars PROVE IInv'
    OBVIOUS
  <2>1. FlagsOK /\ ShapesOK /\ WatchInv /\ CallInv /\ StrandInv
    BY TypeParts DEF IInv
  <2>2. FlagsOK' /\ ShapesOK' /\ WatchInv' /\ CallInv' /\ StrandInv'
    BY <2>1, FlagsInductive, ShapesInductive, WatchInductive, CallInductive, StrandInductive
  <2>3. TypeOK'
    BY <2>2 DEF TypeOK, FlagsOK, ShapesOK
  <2> QED
    BY <2>2, <2>3 DEF IInv
<1> QED
  BY <1>1, <1>2, PTL DEF Spec

\* Every variable stays in its type, for any callbacks and any number of watches.
THEOREM TypeCorrect == Spec => []TypeOK
<1>1. IInv => TypeOK
  BY DEF IInv
<1> QED
  BY <1>1, Invariance, PTL

\* A network change is never taken for handled before a notification that began
\* after it has returned (NetworkEventHandled).
THEOREM MovesStayPending == Spec => []UntoldIsPending
<1>1. IInv => UntoldIsPending
  BY DEF IInv, CallInv
<1> QED
  BY <1>1, Invariance, PTL

\* Across every replacement of the watch, an event the device has not heard of is
\* on its way to the live watch's sampler (NoteNetworkEvent, the replay in Start).
THEOREM EventsReachTheWatch == Spec => []NoEventStranded
<1>1. IInv => NoEventStranded
  BY DEF IInv, CallInv, UntoldIsPending, StrandInv, NoEventStranded
<1> QED
  BY <1>1, Invariance, PTL
=============================================================================
