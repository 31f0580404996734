--------------------------- MODULE MCNetworkNotify ---------------------------
(* A small instance of NetworkNotify for TLC.                                *)
EXTENDS NetworkNotify

CONSTANTS c1, c2

TwoCallbacks == {c1, c2}
=============================================================================
