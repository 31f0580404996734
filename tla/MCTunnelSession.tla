--------------------------- MODULE MCTunnelSession ---------------------------
(* Small instances of TunnelSession for TLC: the requests the app may send.  *)
EXTENDS TunnelSession

Req(k, b, m) == [kind |-> k, on |-> b, mode |-> m]

\* Every request once: connect with and without the kill switch, rpc-only,
\* disconnect, sign out, and the two switch positions.
AllRequests ==
  {Req("start", TRUE, "tunnel"), Req("start", FALSE, "tunnel"),
   Req("start", FALSE, "rpcOnly"),
   Req("disconnect", FALSE, "tunnel"), Req("logout", FALSE, "tunnel"),
   Req("killSwitch", TRUE, "tunnel"), Req("killSwitch", FALSE, "tunnel")}

\* The kill switch always on, and reconnecting.
BlockedRequests == {Req("start", TRUE, "tunnel"), Req("disconnect", FALSE, "tunnel")}

\* Connecting without the kill switch, and disconnecting.
OpenRequests == {Req("start", FALSE, "tunnel"), Req("disconnect", FALSE, "tunnel")}
=============================================================================
