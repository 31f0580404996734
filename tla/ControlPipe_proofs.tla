------------------------ MODULE ControlPipe_proofs -------------------------
(* ControlPipe's safety for any number of requests and any buffer size.   *)
EXTENDS ControlPipe, TLAPS

\* How far the replies a call can meet are behind its own request: what is
\* still to be read, and what is stored already, is bounded by the calls that
\* were given up. Between two calls a reply may be stored for nobody, so
\* nothing is said of got then: CallBegins discards it.
LagInv ==
  /\ got <= read
  /\ call \in {"none", "write"} => sent <= read + given
  /\ call = "write" /\ got # 0 => sent + 1 <= got + given
  /\ call = "wait" /\ got = 0 => sent <= read + given + 1
  /\ call = "wait" /\ got # 0 => sent <= got + given

\* A request being served on a live channel has not been answered.
ServingInv == accept \in {"handle", "event", "reply"} /\ Up => answered < taken

\* A live channel is marked up, is not being closed and has its reader.
LiveInv ==
  Up => /\ "connected" \in client /\ "stopping" \notin client
        /\ reader \in {"top", "reading", "lines"}

IInv == TypeOK /\ LagInv /\ ServingInv /\ LiveInv

\* The invariant holds at the start.
LEMMA InitIInv == Init => IInv
BY BoundsAssumption DEF Init, IInv, TypeOK, LagInv, ServingInv, LiveInv, Up

\* A step of the reader thread keeps the invariant.
LEMMA ReaderKeeps == ASSUME IInv, Reader PROVE IInv'
<1>1. CASE ReaderLooks
  <2>1. TypeOK'
    BY <1>1 DEF IInv, TypeOK, ReaderLooks, Up, flow, clientVars, serverVars
  <2>2. LagInv'
    BY <1>1 DEF IInv, TypeOK, LagInv, ReaderLooks, Up, flow, clientVars, serverVars
  <2>3. ServingInv'
    BY <1>1 DEF IInv, TypeOK, ServingInv, ReaderLooks, Up, flow, clientVars, serverVars
  <2>4. LiveInv'
    BY <1>1 DEF IInv, TypeOK, LiveInv, ReaderLooks, Up, flow, clientVars, serverVars
  <2> QED
    BY <2>1, <2>2, <2>3, <2>4 DEF IInv
<1>2. CASE ReadsReply
  <2>1. TypeOK'
    BY <1>2 DEF IInv, TypeOK, ReadsReply, Up, flow, clientVars, serverVars, Reads
  <2>2. LagInv'
    BY <1>2 DEF IInv, TypeOK, LagInv, ReadsReply, Up, flow, clientVars, serverVars, Reads
  <2>3. ServingInv'
    BY <1>2 DEF IInv, TypeOK, ServingInv, ReadsReply, Up, flow, clientVars, serverVars, Reads
  <2>4. LiveInv'
    BY <1>2 DEF IInv, TypeOK, LiveInv, ReadsReply, Up, flow, clientVars, serverVars, Reads
  <2> QED
    BY <2>1, <2>2, <2>3, <2>4 DEF IInv
<1>3. CASE ReadsEvent
  <2>1. TypeOK'
    BY <1>3 DEF IInv, TypeOK, ReadsEvent, Up, flow, clientVars, serverVars, Reads
  <2>2. LagInv'
    BY <1>3 DEF IInv, TypeOK, LagInv, ReadsEvent, Up, flow, clientVars, serverVars, Reads
  <2>3. ServingInv'
    BY <1>3 DEF IInv, TypeOK, ServingInv, ReadsEvent, Up, flow, clientVars, serverVars, Reads
  <2>4. LiveInv'
    BY <1>3 DEF IInv, TypeOK, LiveInv, ReadsEvent, Up, flow, clientVars, serverVars, Reads
  <2> QED
    BY <2>1, <2>2, <2>3, <2>4 DEF IInv
<1>4. CASE ReadBreaks
  <2>1. TypeOK'
    BY <1>4 DEF IInv, TypeOK, ReadBreaks, Up, flow, clientVars, serverVars
  <2>2. LagInv'
    BY <1>4 DEF IInv, TypeOK, LagInv, ReadBreaks, Up, flow, clientVars, serverVars
  <2>3. ServingInv'
    BY <1>4 DEF IInv, TypeOK, ServingInv, ReadBreaks, Up, flow, clientVars, serverVars
  <2>4. LiveInv'
    BY <1>4 DEF IInv, TypeOK, LiveInv, ReadBreaks, Up, flow, clientVars, serverVars
  <2> QED
    BY <2>1, <2>2, <2>3, <2>4 DEF IInv
<1>5. CASE ReaderClears
  <2>1. TypeOK'
    BY <1>5 DEF IInv, TypeOK, ReaderClears, Up, flow, clientVars, serverVars
  <2>2. LagInv'
    BY <1>5 DEF IInv, TypeOK, LagInv, ReaderClears, Up, flow, clientVars, serverVars
  <2>3. ServingInv'
    BY <1>5 DEF IInv, TypeOK, ServingInv, ReaderClears, Up, flow, clientVars, serverVars
  <2>4. LiveInv'
    BY <1>5 DEF IInv, TypeOK, LiveInv, ReaderClears, Up, flow, clientVars, serverVars
  <2> QED
    BY <2>1, <2>2, <2>3, <2>4 DEF IInv
<1>6. CASE ReaderReports
  <2>1. TypeOK'
    BY <1>6 DEF IInv, TypeOK, ReaderReports, Up, flow, clientVars, serverVars
  <2>2. LagInv'
    BY <1>6 DEF IInv, TypeOK, LagInv, ReaderReports, Up, flow, clientVars, serverVars
  <2>3. ServingInv'
    BY <1>6 DEF IInv, TypeOK, ServingInv, ReaderReports, Up, flow, clientVars, serverVars
  <2>4. LiveInv'
    BY <1>6 DEF IInv, TypeOK, LiveInv, ReaderReports, Up, flow, clientVars, serverVars
  <2> QED
    BY <2>1, <2>2, <2>3, <2>4 DEF IInv
<1> QED
  BY <1>1, <1>2, <1>3, <1>4, <1>5, <1>6 DEF Reader

\* A step of a Call keeps the invariant.
LEMMA CallerKeeps == ASSUME IInv, Caller PROVE IInv'
<1>1. CASE CallBegins
  <2>1. TypeOK'
    BY <1>1 DEF IInv, TypeOK, CallBegins, Up, flow, clientVars, serverVars
  <2>2. LagInv'
    BY <1>1 DEF IInv, TypeOK, LagInv, CallBegins, Up, flow, clientVars, serverVars
  <2>3. ServingInv'
    BY <1>1 DEF IInv, TypeOK, ServingInv, CallBegins, Up, flow, clientVars, serverVars
  <2>4. LiveInv'
    BY <1>1 DEF IInv, TypeOK, LiveInv, CallBegins, Up, flow, clientVars, serverVars
  <2> QED
    BY <2>1, <2>2, <2>3, <2>4 DEF IInv
<1>2. CASE CallWrites
  <2>1. TypeOK'
    BY <1>2 DEF IInv, TypeOK, CallWrites, Up, flow, clientVars, serverVars
  <2>2. LagInv'
    BY <1>2 DEF IInv, TypeOK, LagInv, CallWrites, Up, flow, clientVars, serverVars
  <2>3. ServingInv'
    BY <1>2 DEF IInv, TypeOK, ServingInv, CallWrites, Up, flow, clientVars, serverVars
  <2>4. LiveInv'
    BY <1>2 DEF IInv, TypeOK, LiveInv, CallWrites, Up, flow, clientVars, serverVars
  <2> QED
    BY <2>1, <2>2, <2>3, <2>4 DEF IInv
<1>3. CASE CallWriteFails
  <2>1. TypeOK'
    BY <1>3 DEF IInv, TypeOK, CallWriteFails, Up, flow, clientVars, serverVars
  <2>2. LagInv'
    BY <1>3 DEF IInv, TypeOK, LagInv, CallWriteFails, Up, flow, clientVars, serverVars
  <2>3. ServingInv'
    BY <1>3 DEF IInv, TypeOK, ServingInv, CallWriteFails, Up, flow, clientVars, serverVars
  <2>4. LiveInv'
    BY <1>3 DEF IInv, TypeOK, LiveInv, CallWriteFails, Up, flow, clientVars, serverVars
  <2> QED
    BY <2>1, <2>2, <2>3, <2>4 DEF IInv
<1>4. CASE CallReturns
  <2>1. TypeOK'
    BY <1>4 DEF IInv, TypeOK, CallReturns, Up, flow, clientVars, serverVars
  <2>2. LagInv'
    BY <1>4 DEF IInv, TypeOK, LagInv, CallReturns, Up, flow, clientVars, serverVars
  <2>3. ServingInv'
    BY <1>4 DEF IInv, TypeOK, ServingInv, CallReturns, Up, flow, clientVars, serverVars
  <2>4. LiveInv'
    BY <1>4 DEF IInv, TypeOK, LiveInv, CallReturns, Up, flow, clientVars, serverVars
  <2> QED
    BY <2>1, <2>2, <2>3, <2>4 DEF IInv
<1>5. CASE CallTimesOut
  <2>1. TypeOK'
    BY <1>5 DEF IInv, TypeOK, CallTimesOut, Up, flow, clientVars, serverVars
  <2>2. LagInv'
    BY <1>5 DEF IInv, TypeOK, LagInv, CallTimesOut, Up, flow, clientVars, serverVars
  <2>3. ServingInv'
    BY <1>5 DEF IInv, TypeOK, ServingInv, CallTimesOut, Up, flow, clientVars, serverVars
  <2>4. LiveInv'
    BY <1>5 DEF IInv, TypeOK, LiveInv, CallTimesOut, Up, flow, clientVars, serverVars
  <2> QED
    BY <2>1, <2>2, <2>3, <2>4 DEF IInv
<1> QED
  BY <1>1, <1>2, <1>3, <1>4, <1>5 DEF Caller

\* A step of Connect keeps the invariant.
LEMMA DialerKeeps == ASSUME IInv, Dialer PROVE IInv'
<1>1. CASE ConnectCloses
  <2>1. TypeOK'
    BY <1>1 DEF IInv, TypeOK, ConnectCloses, Up, flow, clientVars, serverVars
  <2>2. LagInv'
    BY <1>1 DEF IInv, TypeOK, LagInv, ConnectCloses, Up, flow, clientVars, serverVars
  <2>3. ServingInv'
    BY <1>1 DEF IInv, TypeOK, ServingInv, ConnectCloses, Up, flow, clientVars, serverVars
  <2>4. LiveInv'
    BY <1>1 DEF IInv, TypeOK, LiveInv, ConnectCloses, Up, flow, clientVars, serverVars
  <2> QED
    BY <2>1, <2>2, <2>3, <2>4 DEF IInv
<1>2. CASE ConnectJoins
  <2>1. TypeOK'
    BY <1>2 DEF IInv, TypeOK, ConnectJoins, Up, flow, clientVars, serverVars
  <2>2. LagInv'
    BY <1>2 DEF IInv, TypeOK, LagInv, ConnectJoins, Up, flow, clientVars, serverVars
  <2>3. ServingInv'
    BY <1>2 DEF IInv, TypeOK, ServingInv, ConnectJoins, Up, flow, clientVars, serverVars
  <2>4. LiveInv'
    BY <1>2 DEF IInv, TypeOK, LiveInv, ConnectJoins, Up, flow, clientVars, serverVars
  <2> QED
    BY <2>1, <2>2, <2>3, <2>4 DEF IInv
<1>3. CASE ConnectOpens
  <2>1. TypeOK'
    BY <1>3 DEF IInv, TypeOK, ConnectOpens, Up, flow, clientVars, serverVars
  <2>2. LagInv'
    BY <1>3 DEF IInv, TypeOK, LagInv, ConnectOpens, Up, flow, clientVars, serverVars
  <2>3. ServingInv'
    BY <1>3 DEF IInv, TypeOK, ServingInv, ConnectOpens, Up, flow, clientVars, serverVars
  <2>4. LiveInv'
    BY <1>3 DEF IInv, TypeOK, LiveInv, ConnectOpens, Up, flow, clientVars, serverVars
  <2> QED
    BY <2>1, <2>2, <2>3, <2>4 DEF IInv
<1>4. CASE ConnectFails
  <2>1. TypeOK'
    BY <1>4 DEF IInv, TypeOK, ConnectFails, Up, flow, clientVars, serverVars
  <2>2. LagInv'
    BY <1>4 DEF IInv, TypeOK, LagInv, ConnectFails, Up, flow, clientVars, serverVars
  <2>3. ServingInv'
    BY <1>4 DEF IInv, TypeOK, ServingInv, ConnectFails, Up, flow, clientVars, serverVars
  <2>4. LiveInv'
    BY <1>4 DEF IInv, TypeOK, LiveInv, ConnectFails, Up, flow, clientVars, serverVars
  <2> QED
    BY <2>1, <2>2, <2>3, <2>4 DEF IInv
<1> QED
  BY <1>1, <1>2, <1>3, <1>4 DEF Dialer

\* A step of the connection thread keeps the invariant.
LEMMA ServeKeeps == ASSUME IInv, Serve PROVE IInv'
<1>1. CASE AcceptStops
  <2>1. TypeOK'
    BY <1>1 DEF IInv, TypeOK, AcceptStops, Up, flow, clientVars, serverVars
  <2>2. LagInv'
    BY <1>1 DEF IInv, TypeOK, LagInv, AcceptStops, Up, flow, clientVars, serverVars
  <2>3. ServingInv'
    BY <1>1 DEF IInv, TypeOK, ServingInv, AcceptStops, Up, flow, clientVars, serverVars
  <2>4. LiveInv'
    BY <1>1 DEF IInv, TypeOK, LiveInv, AcceptStops, Up, flow, clientVars, serverVars
  <2> QED
    BY <2>1, <2>2, <2>3, <2>4 DEF IInv
<1>2. CASE ServeLooks
  <2>1. TypeOK'
    BY <1>2 DEF IInv, TypeOK, ServeLooks, Up, flow, clientVars, serverVars
  <2>2. LagInv'
    BY <1>2 DEF IInv, TypeOK, LagInv, ServeLooks, Up, flow, clientVars, serverVars
  <2>3. ServingInv'
    BY <1>2 DEF IInv, TypeOK, ServingInv, ServeLooks, Up, flow, clientVars, serverVars
  <2>4. LiveInv'
    BY <1>2 DEF IInv, TypeOK, LiveInv, ServeLooks, Up, flow, clientVars, serverVars
  <2> QED
    BY <2>1, <2>2, <2>3, <2>4 DEF IInv
<1>3. CASE ServeIssues
  <2>1. TypeOK'
    BY <1>3 DEF IInv, TypeOK, ServeIssues, Up, flow, clientVars, serverVars
  <2>2. LagInv'
    BY <1>3 DEF IInv, TypeOK, LagInv, ServeIssues, Up, flow, clientVars, serverVars
  <2>3. ServingInv'
    BY <1>3 DEF IInv, TypeOK, ServingInv, ServeIssues, Up, flow, clientVars, serverVars
  <2>4. LiveInv'
    BY <1>3 DEF IInv, TypeOK, LiveInv, ServeIssues, Up, flow, clientVars, serverVars
  <2> QED
    BY <2>1, <2>2, <2>3, <2>4 DEF IInv
<1>4. CASE ServeReads
  <2>1. TypeOK'
    BY <1>4 DEF IInv, TypeOK, ServeReads, Up, flow, clientVars, serverVars
  <2>2. LagInv'
    BY <1>4 DEF IInv, TypeOK, LagInv, ServeReads, Up, flow, clientVars, serverVars
  <2>3. ServingInv'
    BY <1>4 DEF IInv, TypeOK, ServingInv, ServeReads, Up, flow, clientVars, serverVars
  <2>4. LiveInv'
    BY <1>4 DEF IInv, TypeOK, LiveInv, ServeReads, Up, flow, clientVars, serverVars
  <2> QED
    BY <2>1, <2>2, <2>3, <2>4 DEF IInv
<1>5. CASE ServeBreaks
  <2>1. TypeOK'
    BY <1>5 DEF IInv, TypeOK, ServeBreaks, Up, flow, clientVars, serverVars
  <2>2. LagInv'
    BY <1>5 DEF IInv, TypeOK, LagInv, ServeBreaks, Up, flow, clientVars, serverVars
  <2>3. ServingInv'
    BY <1>5 DEF IInv, TypeOK, ServingInv, ServeBreaks, Up, flow, clientVars, serverVars
  <2>4. LiveInv'
    BY <1>5 DEF IInv, TypeOK, LiveInv, ServeBreaks, Up, flow, clientVars, serverVars
  <2> QED
    BY <2>1, <2>2, <2>3, <2>4 DEF IInv
<1>6. CASE HandlerReturns
  <2>1. TypeOK'
    BY <1>6 DEF IInv, TypeOK, HandlerReturns, Up, flow, clientVars, serverVars
  <2>2. LagInv'
    BY <1>6 DEF IInv, TypeOK, LagInv, HandlerReturns, Up, flow, clientVars, serverVars
  <2>3. ServingInv'
    BY <1>6 DEF IInv, TypeOK, ServingInv, HandlerReturns, Up, flow, clientVars, serverVars
  <2>4. LiveInv'
    BY <1>6 DEF IInv, TypeOK, LiveInv, HandlerReturns, Up, flow, clientVars, serverVars
  <2> QED
    BY <2>1, <2>2, <2>3, <2>4 DEF IInv
<1>7. CASE ServeWritesEvent
  <2>1. TypeOK'
    BY <1>7 DEF IInv, TypeOK, ServeWritesEvent, Up, flow, clientVars, serverVars, Fits
  <2>2. LagInv'
    BY <1>7 DEF IInv, TypeOK, LagInv, ServeWritesEvent, Up, flow, clientVars, serverVars, Fits
  <2>3. ServingInv'
    BY <1>7
    DEF IInv, TypeOK, ServingInv, ServeWritesEvent, Up, flow, clientVars, serverVars, Fits
  <2>4. LiveInv'
    BY <1>7 DEF IInv, TypeOK, LiveInv, ServeWritesEvent, Up, flow, clientVars, serverVars, Fits
  <2> QED
    BY <2>1, <2>2, <2>3, <2>4 DEF IInv
<1>8. CASE ServeWritesReply
  <2>1. TypeOK'
    BY <1>8
    DEF IInv, TypeOK, ServingInv, ServeWritesReply, Up, flow, clientVars, serverVars, Fits
  <2>2. LagInv'
    BY <1>8 DEF IInv, TypeOK, LagInv, ServeWritesReply, Up, flow, clientVars, serverVars, Fits
  <2>3. ServingInv'
    BY <1>8
    DEF IInv, TypeOK, ServingInv, ServeWritesReply, Up, flow, clientVars, serverVars, Fits
  <2>4. LiveInv'
    BY <1>8 DEF IInv, TypeOK, LiveInv, ServeWritesReply, Up, flow, clientVars, serverVars, Fits
  <2> QED
    BY <2>1, <2>2, <2>3, <2>4 DEF IInv
<1> QED
  BY <1>1, <1>2, <1>3, <1>4, <1>5, <1>6, <1>7, <1>8 DEF Serve

\* A step of the connection thread that needs writeMutex_ keeps the invariant.
LEMMA ServeWaitsKeeps == ASSUME IInv, ServeWaits PROVE IInv'
<1>1. CASE AcceptPublishes
  <2>1. TypeOK'
    BY <1>1 DEF IInv, TypeOK, AcceptPublishes, Up, flow, clientVars, serverVars
  <2>2. LagInv'
    BY <1>1 DEF IInv, TypeOK, LagInv, AcceptPublishes, Up, flow, clientVars, serverVars
  <2>3. ServingInv'
    BY <1>1 DEF IInv, TypeOK, ServingInv, AcceptPublishes, Up, flow, clientVars, serverVars
  <2>4. LiveInv'
    BY <1>1 DEF IInv, TypeOK, LiveInv, AcceptPublishes, Up, flow, clientVars, serverVars
  <2> QED
    BY <2>1, <2>2, <2>3, <2>4 DEF IInv
<1>2. CASE ServeLocks
  <2>1. TypeOK'
    BY <1>2 DEF IInv, TypeOK, ServeLocks, Up, flow, clientVars, serverVars
  <2>2. LagInv'
    BY <1>2 DEF IInv, TypeOK, LagInv, ServeLocks, Up, flow, clientVars, serverVars
  <2>3. ServingInv'
    BY <1>2 DEF IInv, TypeOK, ServingInv, ServeLocks, Up, flow, clientVars, serverVars
  <2>4. LiveInv'
    BY <1>2 DEF IInv, TypeOK, LiveInv, ServeLocks, Up, flow, clientVars, serverVars
  <2> QED
    BY <2>1, <2>2, <2>3, <2>4 DEF IInv
<1>3. CASE ServeCloses
  <2>1. TypeOK'
    BY <1>3 DEF IInv, TypeOK, ServeCloses, Up, flow, clientVars, serverVars
  <2>2. LagInv'
    BY <1>3 DEF IInv, TypeOK, LagInv, ServeCloses, Up, flow, clientVars, serverVars
  <2>3. ServingInv'
    BY <1>3 DEF IInv, TypeOK, ServingInv, ServeCloses, Up, flow, clientVars, serverVars
  <2>4. LiveInv'
    BY <1>3 DEF IInv, TypeOK, LiveInv, ServeCloses, Up, flow, clientVars, serverVars
  <2> QED
    BY <2>1, <2>2, <2>3, <2>4 DEF IInv
<1> QED
  BY <1>1, <1>2, <1>3 DEF ServeWaits

\* A step of a push or of Stop keeps the invariant.
LEMMA OthersKeeps == ASSUME IInv, Others PROVE IInv'
<1>1. CASE PushBegins
  <2>1. TypeOK'
    BY <1>1 DEF IInv, TypeOK, PushBegins, Up, flow, clientVars, serverVars
  <2>2. LagInv'
    BY <1>1 DEF IInv, TypeOK, LagInv, PushBegins, Up, flow, clientVars, serverVars
  <2>3. ServingInv'
    BY <1>1 DEF IInv, TypeOK, ServingInv, PushBegins, Up, flow, clientVars, serverVars
  <2>4. LiveInv'
    BY <1>1 DEF IInv, TypeOK, LiveInv, PushBegins, Up, flow, clientVars, serverVars
  <2> QED
    BY <2>1, <2>2, <2>3, <2>4 DEF IInv
<1>2. CASE PushLocks
  <2>1. TypeOK'
    BY <1>2 DEF IInv, TypeOK, PushLocks, Up, flow, clientVars, serverVars
  <2>2. LagInv'
    BY <1>2 DEF IInv, TypeOK, LagInv, PushLocks, Up, flow, clientVars, serverVars
  <2>3. ServingInv'
    BY <1>2 DEF IInv, TypeOK, ServingInv, PushLocks, Up, flow, clientVars, serverVars
  <2>4. LiveInv'
    BY <1>2 DEF IInv, TypeOK, LiveInv, PushLocks, Up, flow, clientVars, serverVars
  <2> QED
    BY <2>1, <2>2, <2>3, <2>4 DEF IInv
<1>3. CASE PushWrites
  <2>1. TypeOK'
    BY <1>3 DEF IInv, TypeOK, PushWrites, Up, flow, clientVars, serverVars, Fits, Active
  <2>2. LagInv'
    BY <1>3 DEF IInv, TypeOK, LagInv, PushWrites, Up, flow, clientVars, serverVars, Fits, Active
  <2>3. ServingInv'
    BY <1>3
    DEF IInv, TypeOK, ServingInv, PushWrites, Up, flow, clientVars, serverVars, Fits, Active
  <2>4. LiveInv'
    BY <1>3
    DEF IInv, TypeOK, LiveInv, PushWrites, Up, flow, clientVars, serverVars, Fits, Active
  <2> QED
    BY <2>1, <2>2, <2>3, <2>4 DEF IInv
<1>4. CASE StopBegins
  <2>1. TypeOK'
    BY <1>4 DEF IInv, TypeOK, StopBegins, Up, flow, clientVars, serverVars
  <2>2. LagInv'
    BY <1>4 DEF IInv, TypeOK, LagInv, StopBegins, Up, flow, clientVars, serverVars
  <2>3. ServingInv'
    BY <1>4 DEF IInv, TypeOK, ServingInv, StopBegins, Up, flow, clientVars, serverVars
  <2>4. LiveInv'
    BY <1>4 DEF IInv, TypeOK, LiveInv, StopBegins, Up, flow, clientVars, serverVars
  <2> QED
    BY <2>1, <2>2, <2>3, <2>4 DEF IInv
<1>5. CASE StopCancels
  <2>1. TypeOK'
    BY <1>5 DEF IInv, TypeOK, StopCancels, Up, flow, clientVars, serverVars
  <2>2. LagInv'
    BY <1>5 DEF IInv, TypeOK, LagInv, StopCancels, Up, flow, clientVars, serverVars
  <2>3. ServingInv'
    BY <1>5 DEF IInv, TypeOK, ServingInv, StopCancels, Up, flow, clientVars, serverVars
  <2>4. LiveInv'
    BY <1>5 DEF IInv, TypeOK, LiveInv, StopCancels, Up, flow, clientVars, serverVars
  <2> QED
    BY <2>1, <2>2, <2>3, <2>4 DEF IInv
<1>6. CASE StopJoins
  <2>1. TypeOK'
    BY <1>6 DEF IInv, TypeOK, StopJoins, Up, flow, clientVars, serverVars
  <2>2. LagInv'
    BY <1>6 DEF IInv, TypeOK, LagInv, StopJoins, Up, flow, clientVars, serverVars
  <2>3. ServingInv'
    BY <1>6 DEF IInv, TypeOK, ServingInv, StopJoins, Up, flow, clientVars, serverVars
  <2>4. LiveInv'
    BY <1>6 DEF IInv, TypeOK, LiveInv, StopJoins, Up, flow, clientVars, serverVars
  <2> QED
    BY <2>1, <2>2, <2>3, <2>4 DEF IInv
<1> QED
  BY <1>1, <1>2, <1>3, <1>4, <1>5, <1>6 DEF Others

\* Accepting fails, or a process ends: each keeps the invariant.
LEMMA EndsKeep == ASSUME IInv, AcceptFails \/ ServiceEnds \/ AppEnds PROVE IInv'
<1>1. CASE AcceptFails
  <2>1. TypeOK'
    BY <1>1 DEF IInv, TypeOK, AcceptFails, Up, flow, clientVars, serverVars
  <2>2. LagInv'
    BY <1>1 DEF IInv, TypeOK, LagInv, AcceptFails, Up, flow, clientVars, serverVars
  <2>3. ServingInv'
    BY <1>1 DEF IInv, TypeOK, ServingInv, AcceptFails, Up, flow, clientVars, serverVars
  <2>4. LiveInv'
    BY <1>1 DEF IInv, TypeOK, LiveInv, AcceptFails, Up, flow, clientVars, serverVars
  <2> QED
    BY <2>1, <2>2, <2>3, <2>4 DEF IInv
<1>2. CASE ServiceEnds
  <2>1. TypeOK'
    BY <1>2 DEF IInv, TypeOK, ServiceEnds, Up, flow, clientVars, serverVars
  <2>2. LagInv'
    BY <1>2 DEF IInv, TypeOK, LagInv, ServiceEnds, Up, flow, clientVars, serverVars
  <2>3. ServingInv'
    BY <1>2 DEF IInv, TypeOK, ServingInv, ServiceEnds, Up, flow, clientVars, serverVars
  <2>4. LiveInv'
    BY <1>2 DEF IInv, TypeOK, LiveInv, ServiceEnds, Up, flow, clientVars, serverVars
  <2> QED
    BY <2>1, <2>2, <2>3, <2>4 DEF IInv
<1>3. CASE AppEnds
  <2>1. TypeOK'
    BY <1>3 DEF IInv, TypeOK, AppEnds, Up, flow, clientVars, serverVars
  <2>2. LagInv'
    BY <1>3 DEF IInv, TypeOK, LagInv, AppEnds, Up, flow, clientVars, serverVars
  <2>3. ServingInv'
    BY <1>3 DEF IInv, TypeOK, ServingInv, AppEnds, Up, flow, clientVars, serverVars
  <2>4. LiveInv'
    BY <1>3 DEF IInv, TypeOK, LiveInv, AppEnds, Up, flow, clientVars, serverVars
  <2> QED
    BY <2>1, <2>2, <2>3, <2>4 DEF IInv
<1> QED
  BY <1>1, <1>2, <1>3

\* A stuttering step keeps the invariant.
LEMMA StutterKeeps == ASSUME IInv, UNCHANGED vars PROVE IInv'
BY DEF IInv, TypeOK, LagInv, ServingInv, LiveInv, Up, vars, flow, clientVars, serverVars

\* The inductive invariant holds of every behaviour, fair or not.
THEOREM SpecIInv == Spec => []IInv
<1>1. IInv /\ [Next]_vars => IInv'
  BY ReaderKeeps, CallerKeeps, DialerKeeps, ServeKeeps, ServeWaitsKeeps, OthersKeeps,
     EndsKeep, StutterKeeps DEF Next
<1> QED
  BY InitIInv, <1>1, PTL DEF Spec

\* PipeClient and PipeServer keep their states in range, and replies never run
\* ahead of the requests they answer.
THEOREM PipeTypeCorrect == Spec => []TypeOK
<1>1. IInv => TypeOK
  BY DEF IInv
<1> QED
  BY SpecIInv, <1>1, PTL

\* A reply Call returns is behind its request by no more than the calls given
\* up at their timeout; with none given up it is the request's own.
THEOREM ReplyLagsByTimeouts == Spec => []LagIsGivenUp
<1>1. IInv => LagIsGivenUp
  BY DEF IInv, LagInv, LagIsGivenUp
<1> QED
  BY SpecIInv, <1>1, PTL

\* An open channel is known to the client as connected and is being read,
\* whatever connections came before it.
THEOREM OpenChannelHasReader == Spec => []LiveChannelIsRead
<1>1. IInv => LiveChannelIsRead
  BY DEF IInv, LiveInv, LiveChannelIsRead
<1> QED
  BY SpecIInv, <1>1, PTL
=============================================================================
