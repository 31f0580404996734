---------------------------- MODULE DeviceCustody ----------------------------
(***************************************************************************)
(* What the service promises of the DeviceLocals it builds. Every one runs *)
(* under the one persisted identity of this machine, so at most one is     *)
(* open (serving, or able to serve again) at a time; a device that has     *)
(* been given to a teardown never serves again, and its object goes only   *)
(* after that.                                                             *)
(***************************************************************************)
CONSTANT Devices      \* the device objects; a released one may be built anew

VARIABLE life         \* none, open or closing, for each device object

Init == life = [d \in Devices |-> "none"]

\* A device is built only while no other is open.
Build(d) ==
  /\ life[d] = "none"
  /\ \A e \in Devices : life[e] # "open"
  /\ life' = [life EXCEPT ![d] = "open"]

\* A teardown has it: it will be closed.
Close(d) == life[d] = "open" /\ life' = [life EXCEPT ![d] = "closing"]

\* Its object is released.
Release(d) == life[d] = "closing" /\ life' = [life EXCEPT ![d] = "none"]

Next == \E d \in Devices : Build(d) \/ Close(d) \/ Release(d)

Spec == Init /\ [][Next]_life
=============================================================================
