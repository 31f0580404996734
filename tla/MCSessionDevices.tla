-------------------------- MODULE MCSessionDevices --------------------------
(* Two device objects: one in a role or being built, and one an abandoned  *)
(* teardown, a waiter or an upload's call still has.                       *)
EXTENDS SessionDevices

CONSTANTS d1, d2

TwoDevices == {d1, d2}
=============================================================================
