---------------------------- MODULE ControlPipe ----------------------------
(* The control channel between the app and the service: PipeClient with   *)
(* its reader thread, PipeServer with its connection thread, the events   *)
(* other service threads push, and both ways the channel ends.            *)
(*                                                                        *)
(* Requests and replies are lines without a number. The server takes them *)
(* in order and writes one reply to each, so the k-th reply of a          *)
(* connection answers its k-th request; requests are numbered here to say *)
(* which one a reply answers, and no guard of the client reads a number.  *)
(* A new connection starts with nothing in flight.                        *)
EXTENDS Naturals

CONSTANTS
  MaxSent,    \* bound on the requests one run of the app writes
  Buffer      \* lines the pipe holds towards the app before a write blocks

ASSUME BoundsAssumption == MaxSent \in Nat /\ Buffer \in Nat

VARIABLES
  link,       \* the ends of the pipe instance that are open
  sent, taken, answered, read,  \* requests written and taken, replies written and read
  events,     \* event lines the app has not read
  client,     \* PipeClient's connected_ and stopping_
  reader,     \* its reader thread
  dial,       \* a thread inside Connect
  call,       \* the holder of callMutex_, inside Call
  got,        \* the request reply_ answers; 0 while haveReply_ is false
  given,      \* history: calls given up at their timeout
  accept,     \* PipeServer's accept and connection thread
  writer,     \* the holder of writeMutex_
  push,       \* a thread inside PushEvent
  stop        \* a thread inside PipeServer::Stop

flow       == <<sent, taken, answered, read, events>>
clientVars == <<client, reader, dial, call, got, given>>
serverVars == <<accept, writer, push, stop>>
vars       == <<link, flow, clientVars, serverVars>>

Init ==
  /\ link = {}
  /\ sent = 0 /\ taken = 0 /\ answered = 0 /\ read = 0 /\ events = 0
  /\ client = {} /\ reader = "none" /\ dial = "idle"
  /\ call = "none" /\ got = 0 /\ given = 0
  /\ accept = "listen" /\ writer = "nobody" /\ push = "idle" /\ stop = "off"

Up == link = {"client", "server"}

-----------------------------------------------------------------------------
(* PipeClient::Connect, which closes and joins what the last connection   *)
(* left before it opens the pipe, and Call.                                *)

ConnectCloses ==
  /\ dial = "idle" /\ "connected" \notin client
  /\ client' = client \cup {"stopping"}
  /\ link' = link \ {"client"}
  /\ dial' = "joining"
  /\ UNCHANGED <<flow, reader, call, got, given, serverVars>>

ConnectJoins ==
  /\ dial = "joining" /\ reader \in {"none", "ended"}
  /\ reader' = "none" /\ client' = client \ {"connected"}
  /\ dial' = "opening"
  /\ UNCHANGED <<link, flow, call, got, given, serverVars>>

\* A slip: stopping_ stays as Close left it.
ConnectOpens_StillStopping ==
  /\ dial = "opening" /\ accept = "listen" /\ "server" \notin link
  /\ link' = {"client", "server"} /\ accept' = "accepted"
  /\ taken' = sent /\ answered' = sent /\ read' = sent /\ events' = 0
  /\ client' = client \cup {"connected"} /\ reader' = "top" /\ dial' = "idle"
  /\ UNCHANGED <<sent, call, got, given, writer, push, stop>>

\* CreateFile succeeds: the server's one instance was waiting for a client.
ConnectOpens ==
  /\ dial = "opening" /\ accept = "listen" /\ "server" \notin link
  /\ link' = {"client", "server"} /\ accept' = "accepted"
  /\ taken' = sent /\ answered' = sent /\ read' = sent /\ events' = 0
  /\ client' = {"connected"} /\ reader' = "top" /\ dial' = "idle"
  /\ UNCHANGED <<sent, call, got, given, writer, push, stop>>

\* No service, or its one instance stays busy with a client it has not let go.
ConnectFails ==
  /\ dial = "opening"
  /\ dial' = "idle"
  /\ UNCHANGED <<link, flow, client, reader, call, got, given, serverVars>>

\* A slip: haveReply_ is left as the last call found it.
CallBegins_KeepsReply ==
  /\ call = "none" /\ "connected" \in client /\ sent < MaxSent
  /\ call' = "write"
  /\ UNCHANGED <<link, flow, client, reader, dial, got, given, serverVars>>

\* A Call on a channel that is down throws and changes nothing.
CallBegins ==
  /\ call = "none" /\ "connected" \in client /\ sent < MaxSent
  /\ call' = "write" /\ got' = 0
  /\ UNCHANGED <<link, flow, client, reader, dial, given, serverVars>>

CallWrites ==
  /\ call = "write" /\ Up
  /\ sent' = sent + 1 /\ call' = "wait"
  /\ UNCHANGED <<link, taken, answered, read, events, client, reader, dial, got, given, serverVars>>

CallWriteFails ==
  /\ call = "write" /\ ~Up
  /\ call' = "none"
  /\ UNCHANGED <<link, flow, client, reader, dial, got, given, serverVars>>

CallReturns ==
  /\ call = "wait" /\ got # 0
  /\ call' = "none"
  /\ UNCHANGED <<link, flow, client, reader, dial, got, given, serverVars>>

\* Nothing tells the service, and nothing here remembers, that a reply to
\* this request is still to come.
CallTimesOut ==
  /\ call = "wait" /\ got = 0
  /\ call' = "none" /\ given' = given + 1
  /\ UNCHANGED <<link, flow, client, reader, dial, got, serverVars>>

-----------------------------------------------------------------------------
(* PipeClient::ReaderLoop. A line is delivered as it is read: a reply goes *)
(* to whichever Call waits, an event to its handler.                       *)

ReaderLooks ==
  /\ reader \in {"top", "lines"}
  /\ reader' = IF "stopping" \in client THEN "left" ELSE "reading"
  /\ UNCHANGED <<link, flow, client, dial, call, got, given, serverVars>>

\* A chunk may hold several lines, which are all delivered before the loop
\* looks at stopping_ or at the pipe again.
Reads == (reader = "reading" /\ "client" \in link) \/ reader = "lines"

ReadsReply ==
  /\ Reads /\ read < answered
  /\ read' = read + 1 /\ got' = read + 1
  /\ reader' = "lines"
  /\ UNCHANGED <<link, sent, taken, answered, events, client, dial, call, given, serverVars>>

ReadsEvent ==
  /\ Reads /\ events > 0
  /\ events' = events - 1
  /\ reader' = "lines"
  /\ UNCHANGED <<link, sent, taken, answered, read, client, dial, call, got, given, serverVars>>

\* ReadFile fails: the loop is left.
ReadBreaks ==
  /\ reader = "reading" /\ ~Up
  /\ reader' = "left"
  /\ UNCHANGED <<link, flow, client, dial, call, got, given, serverVars>>

\* connected_.exchange(false)
ReaderClears ==
  /\ reader = "left"
  /\ client' = client \ {"connected"}
  /\ reader' = IF "connected" \in client THEN "report" ELSE "ended"
  /\ UNCHANGED <<link, flow, dial, call, got, given, serverVars>>

\* The disconnect handler runs unless a Close has begun meanwhile.
ReaderReports ==
  /\ reader = "report"
  /\ reader' = "ended"
  /\ UNCHANGED <<link, flow, client, dial, call, got, given, serverVars>>

-----------------------------------------------------------------------------
(* PipeServer::AcceptLoop and ServeConnection.                             *)

AcceptPublishes ==
  /\ accept = "accepted" /\ writer = "nobody"
  /\ accept' = "top"
  /\ UNCHANGED <<link, flow, clientVars, writer, push, stop>>

\* CreateNamedPipe fails: the loop is left, and nothing starts it again.
AcceptFails ==
  /\ accept = "listen"
  /\ accept' = "ended"
  /\ UNCHANGED <<link, flow, clientVars, writer, push, stop>>

\* A slip: the stop is a pulse, which only a wait already begun can see.
AcceptStops_Pulse ==
  /\ accept = "listen" /\ stop = "cancel"
  /\ accept' = "ended"
  /\ UNCHANGED <<link, flow, clientVars, writer, push, stop>>

\* stopEvent_ breaks the wait for a client.
AcceptStops ==
  /\ accept = "listen" /\ stop # "off"
  /\ accept' = "ended"
  /\ UNCHANGED <<link, flow, clientVars, writer, push, stop>>

ServeLooks ==
  /\ accept \in {"top", "lines"}
  /\ accept' = IF stop # "off" THEN "closing" ELSE "issue"
  /\ UNCHANGED <<link, flow, clientVars, writer, push, stop>>

\* ReadFile: from here a cancel finds the read pending.
ServeIssues ==
  /\ accept = "issue"
  /\ accept' = "read"
  /\ UNCHANGED <<link, flow, clientVars, writer, push, stop>>

\* The lines of one chunk are all served before stopping_ is looked at again.
ServeReads ==
  /\ (accept = "read" /\ Up) \/ accept = "lines"
  /\ taken < sent
  /\ taken' = taken + 1 /\ accept' = "handle"
  /\ UNCHANGED <<link, sent, answered, read, events, clientVars, writer, push, stop>>

ServeBreaks ==
  /\ accept = "read" /\ "client" \notin link
  /\ accept' = "closing"
  /\ UNCHANGED <<link, flow, clientVars, writer, push, stop>>

\* ControlServer::Handle: it pushes the new state before it answers, or not.
HandlerReturns ==
  /\ accept = "handle"
  /\ accept' \in {"event", "reply"}
  /\ UNCHANGED <<link, flow, clientVars, writer, push, stop>>

ServeLocks ==
  /\ accept \in {"event", "reply"} /\ writer = "nobody"
  /\ writer' = "serve"
  /\ UNCHANGED <<link, flow, clientVars, accept, push, stop>>

\* A slip: a write pending on a pipe that breaks is not completed.
Fits_Unbroken == events + (answered - read) < Buffer

\* The pipe takes the line or, broken, refuses it.
Fits == ~Up \/ events + (answered - read) < Buffer

ServeWritesEvent ==
  /\ accept = "event" /\ writer = "serve" /\ Fits
  /\ events' = IF Up THEN events + 1 ELSE events
  /\ writer' = "nobody" /\ accept' = "reply"
  /\ UNCHANGED <<link, sent, taken, answered, read, clientVars, push, stop>>

\* The reply to the request taken, in one write.
ServeWritesReply ==
  /\ accept = "reply" /\ writer = "serve" /\ Fits
  /\ answered' = IF Up THEN answered + 1 ELSE answered
  /\ writer' = "nobody" /\ accept' = "lines"
  /\ UNCHANGED <<link, sent, taken, read, events, clientVars, push, stop>>

\* activePipe_ is cleared and the instance disconnected, which discards what
\* the app's reader has not taken into its chunk.
ServeCloses ==
  /\ accept = "closing" /\ writer = "nobody"
  /\ link' = link \ {"server"}
  /\ answered' \in read .. answered /\ events' \in 0 .. events
  /\ accept' = IF stop # "off" THEN "ended" ELSE "listen"
  /\ UNCHANGED <<sent, taken, read, clientVars, writer, push, stop>>

-----------------------------------------------------------------------------
(* PushEvent on another thread of the service (the failsafe's evaluator,   *)
(* the egress push), and Stop.                                             *)

PushBegins ==
  /\ push = "idle" /\ stop = "off"
  /\ push' = "wants"
  /\ UNCHANGED <<link, flow, clientVars, accept, writer, stop>>

PushLocks ==
  /\ push = "wants" /\ writer = "nobody"
  /\ writer' = "push" /\ push' = "writes"
  /\ UNCHANGED <<link, flow, clientVars, accept, stop>>

Active == accept \notin {"listen", "accepted", "ended"}

\* With no client published there is nothing to write to.
PushWrites ==
  /\ push = "writes" /\ (Fits \/ ~Active)
  /\ events' = IF Up /\ Active THEN events + 1 ELSE events
  /\ writer' = "nobody" /\ push' = "idle"
  /\ UNCHANGED <<link, sent, taken, answered, read, clientVars, accept, stop>>

StopBegins ==
  /\ stop = "off"
  /\ stop' = "cancel"
  /\ UNCHANGED <<link, flow, clientVars, accept, writer, push>>

\* CancelIoEx ends a read that is pending; one not issued yet it cannot end.
StopCancels ==
  /\ stop = "cancel" /\ writer = "nobody"
  /\ stop' = "join"
  /\ accept' = IF accept = "read" THEN "closing" ELSE accept
  /\ UNCHANGED <<link, flow, clientVars, writer, push>>

StopJoins ==
  /\ stop = "join" /\ accept = "ended"
  /\ stop' = "done"
  /\ UNCHANGED <<link, flow, clientVars, accept, writer, push>>

-----------------------------------------------------------------------------
(* Either process ends, at any point, and is started again. What a killed  *)
(* service wrote may still be read; what it had not answered is lost.      *)

ServiceEnds ==
  /\ link' = link \ {"server"}
  /\ accept' = "listen" /\ writer' = "nobody" /\ push' = "idle" /\ stop' = "off"
  /\ UNCHANGED <<flow, clientVars>>

AppEnds ==
  /\ link' = link \ {"client"}
  /\ sent' = 0 /\ taken' = 0 /\ answered' = 0 /\ read' = 0
  /\ client' = {} /\ reader' = "none" /\ dial' = "idle"
  /\ call' = "none" /\ got' = 0 /\ given' = 0
  /\ UNCHANGED <<events, serverVars>>

Reader ==
  \/ ReaderLooks \/ ReadsReply \/ ReadsEvent \/ ReadBreaks \/ ReaderClears \/ ReaderReports

Caller == CallBegins \/ CallWrites \/ CallWriteFails \/ CallReturns \/ CallTimesOut

Dialer == ConnectCloses \/ ConnectJoins \/ ConnectOpens \/ ConnectFails

Serve ==
  \/ AcceptStops \/ ServeLooks \/ ServeIssues \/ ServeReads \/ ServeBreaks
  \/ HandlerReturns \/ ServeWritesEvent \/ ServeWritesReply

\* The steps of the connection thread that take writeMutex_.
ServeWaits == AcceptPublishes \/ ServeLocks \/ ServeCloses

Others == PushBegins \/ PushLocks \/ PushWrites \/ StopBegins \/ StopCancels \/ StopJoins

Next ==
  \/ Reader \/ Caller \/ Dialer
  \/ AcceptFails \/ Serve \/ ServeWaits \/ Others
  \/ ServiceEnds \/ AppEnds

Spec == Init /\ [][Next]_vars

\* The reader thread reads on (its handlers only post), requests are handled,
\* a thread waiting for writeMutex_ is not passed over for ever. Nothing is
\* assumed of callers, dials, failures, pushes, stops or the ends of the processes.
FairSpec ==
  /\ Spec
  /\ WF_vars(Reader) /\ WF_vars(Serve) /\ SF_vars(ServeWaits)
  /\ SF_vars(PushLocks) /\ WF_vars(PushWrites)
  /\ SF_vars(StopCancels) /\ WF_vars(StopJoins)

-----------------------------------------------------------------------------
\* Every variable stays in its range, and replies follow requests.
TypeOK ==
  /\ link \subseteq {"client", "server"} /\ client \subseteq {"connected", "stopping"}
  /\ sent \in Nat /\ taken \in Nat /\ answered \in Nat /\ read \in Nat
  /\ read <= answered /\ answered <= taken /\ taken <= sent
  /\ events \in Nat /\ got \in Nat /\ given \in Nat
  /\ reader \in {"none", "top", "reading", "lines", "left", "report", "ended"}
  /\ dial \in {"idle", "joining", "opening"} /\ call \in {"none", "write", "wait"}
  /\ accept \in {"listen", "accepted", "top", "issue", "read", "handle", "event", "reply",
                 "lines", "closing", "ended"}
  /\ writer \in {"nobody", "serve", "push"} /\ push \in {"idle", "wants", "writes"}
  /\ stop \in {"off", "cancel", "join", "done"}

\* Call takes the next reply, whatever it answers, so a call given up at its
\* timeout leaves every later one behind. How far: a reply that Call is about
\* to return is at most as many requests old as calls were given up in this
\* run of the app, over every reconnect. In particular, until the first
\* timeout a call returns its own reply.
LagIsGivenUp == call = "wait" /\ got # 0 => sent <= got + given

\* Whatever broke, closed and was opened again before, a channel whose ends
\* are both open is known to be up and has a reader: neither the reader of an
\* earlier connection nor the Close that reclaimed it marks it down or stops
\* its reading, which would leave the app deaf to the service.
LiveChannelIsRead ==
  Up => "connected" \in client /\ reader \in {"top", "reading", "lines"}

\* The thread that pushes a state (the failsafe's evaluator must go on to
\* notice the next event) is never held by the pipe for ever, whatever the app
\* requests meanwhile, reconnects or ends.
PushEnds == push # "idle" ~> push = "idle"

\* PipeServer::Stop ends once the app is gone for good, although its cancel
\* may come before the read it is meant for.
StopEndsOnceAppLeft ==
  <>[]("client" \notin link) => (stop # "off" ~> stop \in {"done", "off"})
=============================================================================
