-------------------------- MODULE MCAccountSession --------------------------
(* Two accounts, so that one can meet what the other left behind, and two   *)
(* faults, so that a service that could not be told meets an app that ends. *)
EXTENDS AccountSession, TLC

CONSTANTS ana, ben, nobody

TwoAccounts == {ana, ben}
OneAccount  == {ana}

\* Neither account is named by any action.
Sym == Permutations(TwoAccounts)
=============================================================================
