----------------------------- MODULE CaptureGrant -----------------------------
(***************************************************************************)
(* What lets a session take over the machine's traffic, as the two sides   *)
(* of it agree: the readiness object that grants a ticket and the session  *)
(* that spends it. A readiness grants a ticket only until it is cancelled, *)
(* a ticket is spent only while its own readiness is still not cancelled,  *)
(* and what was captured stays so until the readiness is cancelled. A      *)
(* ticket that outlives its readiness has lapsed: it can only be dropped.  *)
(***************************************************************************)
VARIABLES
  cancelled,  \* the present readiness is cancelled
  grant       \* none, ticket (of the present readiness), lapsed, or captured

Init == cancelled \in BOOLEAN /\ grant = "none"

Take == ~cancelled /\ grant = "none" /\ grant' = "ticket" /\ UNCHANGED cancelled

\* The ticket is found stale, or its transaction is rolled back.
Drop == grant \in {"ticket", "lapsed"} /\ grant' = "none" /\ UNCHANGED cancelled

Spend == ~cancelled /\ grant = "ticket" /\ grant' = "captured" /\ UNCHANGED cancelled

\* A stop; a ticket it finds is over, but its holder may not know yet.
Cancel ==
  /\ cancelled' = TRUE
  /\ grant' \in {grant, "none"} \/ (grant = "ticket" /\ grant' = "lapsed")

Renew == cancelled /\ grant \in {"none", "lapsed"} /\ cancelled' = FALSE /\ UNCHANGED grant

Next == Take \/ Drop \/ Spend \/ Cancel \/ Renew

Spec == Init /\ [][Next]_<<cancelled, grant>>
===============================================================================
