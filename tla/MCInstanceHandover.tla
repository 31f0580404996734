------------------------- MODULE MCInstanceHandover -------------------------
(* One launch that redirects, and two processes it can meet holding the    *)
(* key one after the other: the first exits under it, and the second takes *)
(* the key before the launch registers again. Those two have no rounds, so *)
(* a second instance gives up at once where it finds the key held.         *)
EXTENDS InstanceHandover

CONSTANTS p1, p2, p3

ThreeLaunches == {p1, p2, p3}
LaunchRounds  == [l \in Launches |-> IF l = p1 THEN 1 ELSE 0]
=============================================================================
