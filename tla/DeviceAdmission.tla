--------------------------- MODULE DeviceAdmission ---------------------------
(***************************************************************************)
(* When the service gives a session its device: never while a teardown of  *)
(* an earlier one has not reported done, and never in a process that is    *)
(* committed to restarting itself. The restart is asked for where a start  *)
(* is refused, so never under a session, and is taken back by nothing but  *)
(* the end of the process. TunnelSession and SessionDevices both keep this.*)
(***************************************************************************)
VARIABLES
  session,  \* a session has its device
  held,     \* a teardown that took a device has not reported done
  restart   \* the process is committed to restarting itself

Init == ~session /\ ~held /\ ~restart

Open == ~session /\ ~held /\ ~restart /\ session' = TRUE /\ UNCHANGED <<held, restart>>

\* The session's device goes to a teardown, which may be done at once.
Close == session /\ session' = FALSE /\ held' \in BOOLEAN /\ UNCHANGED restart

\* A teardown of another device begins, or is given up on.
Hold == ~session /\ held' = TRUE /\ UNCHANGED <<session, restart>>

Finish == held /\ held' = FALSE /\ UNCHANGED <<session, restart>>

AskRestart == ~session /\ restart' = TRUE /\ UNCHANGED <<session, held>>

\* The process ends, and everything it held with it.
End == session' = FALSE /\ held' = FALSE /\ restart' = FALSE

Next == Open \/ Close \/ Hold \/ Finish \/ AskRestart \/ End

Spec == Init /\ [][Next]_<<session, held, restart>>
==============================================================================
